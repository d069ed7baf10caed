------------------------------ MODULE DirectProofs ------------------------------
(***************************************************************************)
(* Theorems about DirectRooms, for any number of concurrent executions and   *)
(* of messages.                                                             *)
(***************************************************************************)
EXTENDS DirectRooms, TLAPS

-----------------------------------------------------------------------------
(* Executions                                                              *)

LEMMA IdleIsNotPending == Idle \notin Pending
BY DEF Idle, Pending

\* The execution of a step past its start.
LEMMA AtType ==
    ASSUME TypeOK, NEW q \in Requests, request[q] # Idle
    PROVE  request[q] \in Pending
BY DEF TypeOK

LEMMA OvertakenType ==
    ASSUME TypeOK, NEW checks, NEW users
    PROVE  Overtaken(checks, users) \in [Requests -> Pending \union {Idle}]
<1> SUFFICES ASSUME NEW q \in Requests, request[q] # Idle
             PROVE  [request[q] EXCEPT !.overtaken = TRUE] \in Pending
  BY DEF Overtaken, TypeOK
<1>1. request[q] \in Pending
  BY AtType
<1>2. QED
  BY <1>1 DEF Pending

\* What an execution is doing is not touched by what overtakes it.
LEMMA OvertakenKeeps ==
    ASSUME TypeOK, NEW checks, NEW users, NEW q \in Requests
    PROVE  /\ (Overtaken(checks, users)[q] = Idle) <=> (request[q] = Idle)
           /\ request[q] # Idle =>
                /\ Overtaken(checks, users)[q].op = request[q].op
                /\ Overtaken(checks, users)[q].user = request[q].user
                /\ Overtaken(checks, users)[q].at = request[q].at
                /\ Overtaken(checks, users)[q].todo = request[q].todo
                /\ Overtaken(checks, users)[q].stamp = request[q].stamp
                /\ Overtaken(checks, users)[q].floor = request[q].floor
<1>1. CASE request[q] = Idle
  BY <1>1 DEF Overtaken
<1>2. CASE request[q] # Idle
  <2>1. request[q] \in Pending
    BY <1>2, AtType
  <2>2. [request[q] EXCEPT !.overtaken = TRUE] \in Pending
    BY <2>1 DEF Pending
  <2>3. Overtaken(checks, users)[q] \in {request[q], [request[q] EXCEPT !.overtaken = TRUE]}
    BY <1>2 DEF Overtaken
  <2>4. QED
    BY <1>2, <2>1, <2>2, <2>3, IdleIsNotPending DEF Pending
<1>3. QED
  BY <1>1, <1>2

LEMMA BeginStarts ==
    ASSUME TypeOK, NEW q \in Requests, Begin(q)
    PROVE  \E op \in Operations, u \in Users, at \in {"look", "member"}, floor \in Stamps :
              Start(q, op, u, at, floor)
<1>1. 0 \in Stamps
  BY DirectAssumption DEF Stamps
<1>2. PICK u \in Users : \/ StartOpen(q, u) \/ StartSend(q, u)
                         \/ \E op \in {"read", "readTo"} : StartRead(q, u, op)
  BY DEF Begin
<1>3. CASE StartOpen(q, u)
  BY <1>1, <1>3 DEF StartOpen, Operations
<1>4. CASE StartSend(q, u)
  BY <1>4 DEF StartSend, Operations, TypeOK
<1>5. CASE \E op \in {"read", "readTo"} : StartRead(q, u, op)
  BY <1>5 DEF StartRead, Operations, TypeOK
<1>6. QED
  BY <1>2, <1>3, <1>4, <1>5

LEMMA BegunType ==
    ASSUME NEW op \in Operations, NEW u \in Users, NEW at \in {"look", "member"}, NEW floor \in Stamps
    PROVE  Begun(op, u, at, floor) \in Pending
<1>1. 0 \in Stamps
  BY DirectAssumption DEF Stamps
<1>2. Needs(op) \subseteq {"friend", "block", "member"}
  BY DEF Needs, Operations
<1>3. at \in Places
  BY DEF Places
<1>4. QED
  BY <1>1, <1>2, <1>3 DEF Begun, Pending

-----------------------------------------------------------------------------
(* Type correctness                                                        *)

LEMMA BeginType ==
    ASSUME TypeOK, NEW q \in Requests, Begin(q)
    PROVE  TypeOK'
<1>1. PICK op \in Operations, u \in Users, at \in {"look", "member"}, floor \in Stamps :
              Start(q, op, u, at, floor)
  BY BeginStarts
<1>2. Begun(op, u, at, floor) \in Pending
  BY BegunType
<1>3. request' \in [Requests -> Pending \union {Idle}]
  BY <1>1, <1>2 DEF Start, TypeOK
<1>4. maker # q
  BY <1>1, IdleIsNotPending DEF Start, TypeOK, At
<1>5. \A p \in Requests : At(p, "seat")' <=> maker' = p
  <2> SUFFICES ASSUME NEW p \in Requests PROVE At(p, "seat")' <=> maker' = p
    OBVIOUS
  <2>1. CASE p = q
    <3>1. request'[p] = Begun(op, u, at, floor)
      BY <1>1, <2>1 DEF Start, TypeOK
    <3>2. ~ At(p, "seat")'
      BY <3>1 DEF At, Begun
    <3>3. QED
      BY <1>1, <1>4, <2>1, <3>2 DEF Start
  <2>2. CASE p # q
    BY <1>1, <2>2 DEF Start, TypeOK, At
  <2>3. QED
    BY <2>1, <2>2
<1>6. QED
  BY <1>1, <1>3, <1>5 DEF Start, TypeOK, pair, chat

\* A step of q that leaves it in the state r, inside or outside of its transaction.
LEMMA SeatType ==
    ASSUME TypeOK, NEW q \in Requests, NEW r \in Pending \union {Idle},
           request' = [request EXCEPT ![q] = r],
           maker' = IF r # Idle /\ r.at = "seat" THEN q ELSE IF maker = q THEN None ELSE maker,
           maker = None \/ maker = q \/ r = Idle \/ r.at # "seat"
    PROVE  /\ request' \in [Requests -> Pending \union {Idle}]
           /\ maker' \in Requests \union {None}
           /\ \A p \in Requests : At(p, "seat")' <=> maker' = p
<1>1. request' \in [Requests -> Pending \union {Idle}] /\ maker' \in Requests \union {None}
  BY DEF TypeOK
<1>2. ASSUME NEW p \in Requests PROVE At(p, "seat")' <=> maker' = p
  <2>1. CASE p = q
    <3>1. request'[p] = r
      BY <2>1 DEF TypeOK
    <3>2. At(p, "seat")' <=> r # Idle /\ r.at = "seat"
      BY <3>1 DEF At
    <3>3. QED
      BY <2>1, <3>2, DirectAssumption
  <2>2. CASE p # q
    <3>1. request'[p] = request[p]
      BY <2>2 DEF TypeOK
    <3>2. At(p, "seat")' <=> maker = p
      BY <3>1 DEF At, TypeOK
    <3>3. QED
      BY <2>2, <3>2, DirectAssumption
  <2>3. QED
    BY <2>1, <2>2
<1>3. QED
  BY <1>1, <1>2

LEMMA CheckType ==
    ASSUME TypeOK, NEW q \in Requests, Check(q)
    PROVE  TypeOK'
<1>1. request[q] # Idle /\ request[q].at # "seat" /\ maker # q
  BY DEF Check, CheckBlocks, CheckFriend, IsMember, At, TypeOK
<1>2. request[q] \in Pending
  BY <1>1, AtType
<1>3. \E r \in Pending \union {Idle} :
        request' = [request EXCEPT ![q] = r] /\ (r = Idle \/ r.at # "seat")
  <2>1. CASE Ends(q)
    BY <2>1 DEF Ends
  <2>2. ASSUME NEW check, request' = [request EXCEPT ![q].todo = @ \ {check}]
        PROVE  \E r \in Pending : request' = [request EXCEPT ![q] = r] /\ r.at # "seat"
    <3> DEFINE r == [request[q] EXCEPT !.todo = @ \ {check}]
    <3>1. r \in Pending /\ r.at # "seat"
      BY <1>1, <1>2 DEF Pending
    <3>2. request' = [request EXCEPT ![q] = r]
      BY <2>2 DEF TypeOK
    <3>3. QED
      BY <3>1, <3>2
  <2>3. CASE CheckBlocks(q) \/ CheckFriend(q)
    BY <2>1, <2>2, <2>3 DEF CheckBlocks, CheckFriend, Checked
  <2>4. CASE IsMember(q) /\ ~ Ends(q)
    <3> DEFINE place == IF request[q].op = "send" THEN "check" ELSE "find"
               r == [request[q] EXCEPT !.todo = @ \ {"member"}, !.at = place]
    <3>1. place \in Places /\ place # "seat"
      BY DEF Places
    <3>2. r \in Pending /\ r.at = place
      BY <1>2, <3>1 DEF Pending
    <3>3. request' = [request EXCEPT ![q] = r]
      BY <2>4 DEF IsMember, TypeOK
    <3> HIDE DEF place, r
    <3>4. QED
      BY <3>1, <3>2, <3>3
  <2>5. QED
    BY <2>1, <2>3, <2>4 DEF Check
<1>4. UNCHANGED <<pair, room, seats, maker, chat, left>>
  BY DEF Check, CheckBlocks, CheckFriend, IsMember
<1>5. PICK r \in Pending \union {Idle} :
        request' = [request EXCEPT ![q] = r] /\ (r = Idle \/ r.at # "seat")
  BY <1>3
<1>6. maker' = IF r # Idle /\ r.at = "seat" THEN q ELSE IF maker = q THEN None ELSE maker
  BY <1>1, <1>4, <1>5
<1>7. request' \in [Requests -> Pending \union {Idle}] /\ \A p \in Requests : At(p, "seat")' <=> maker' = p
  BY <1>5, <1>6, SeatType
<1>8. QED
  BY <1>4, <1>7 DEF TypeOK, pair, chat

\* A step of q from outside of its transaction to another place outside.
LEMMA MoveType ==
    ASSUME TypeOK, NEW q \in Requests, request[q] # Idle, request[q].at # "seat",
           NEW r \in Pending \union {Idle}, r = Idle \/ r.at # "seat",
           request' = [request EXCEPT ![q] = r], UNCHANGED maker
    PROVE  /\ request' \in [Requests -> Pending \union {Idle}]
           /\ maker' \in Requests \union {None}
           /\ \A p \in Requests : At(p, "seat")' <=> maker' = p
<1>1. maker # q
  BY DEF At, TypeOK
<1>2. maker' = IF r # Idle /\ r.at = "seat" THEN q ELSE IF maker = q THEN None ELSE maker
  BY <1>1
<1>3. QED
  BY <1>2, SeatType

\* A step of q that only takes it to another place outside of its transaction, or ends it.
LEMMA GoesType ==
    ASSUME TypeOK, NEW q \in Requests, request[q] # Idle, request[q].at # "seat",
           NEW at \in Places, at # "seat", GoesTo(q, at) \/ Ends(q), UNCHANGED maker
    PROVE  /\ request' \in [Requests -> Pending \union {Idle}]
           /\ maker' \in Requests \union {None}
           /\ \A p \in Requests : At(p, "seat")' <=> maker' = p
<1> DEFINE r == [request[q] EXCEPT !.at = at]
<1>1. r \in Pending /\ r.at = at
  <2>1. request[q] \in Pending
    BY AtType
  <2>2. QED
    BY <2>1 DEF Pending
<1>2. CASE GoesTo(q, at)
  <2>1. request' = [request EXCEPT ![q] = r]
    BY <1>2 DEF GoesTo, TypeOK
  <2> HIDE DEF r
  <2>2. QED
    BY <1>1, <2>1, MoveType
<1>3. CASE Ends(q)
  BY <1>3, MoveType DEF Ends
<1>4. QED
  BY <1>2, <1>3

LEMMA OpenType ==
    ASSUME TypeOK, NEW q \in Requests, Open(q)
    PROVE  TypeOK'
<1> DEFINE Shape == /\ request' \in [Requests -> Pending \union {Idle}]
                    /\ maker' \in Requests \union {None}
                    /\ \A p \in Requests : At(p, "seat")' <=> maker' = p
<1>1. request[q] \in Pending
  BY AtType DEF Open, FindExisting, CreateDirectConversation, CreateMember, Commit, FindAgain, At
<1>2. CASE FindExisting(q)
  <2>1. Shape
    BY <1>2, GoesType DEF FindExisting, At, Places
  <2>2. QED
    BY <1>2, <2>1 DEF FindExisting, TypeOK, pair, chat
<1>3. CASE CreateDirectConversation(q)
  <2>1. CASE room
    <3>1. Shape
      BY <1>3, <2>1, GoesType DEF CreateDirectConversation, At, Places
    <3>2. QED
      BY <1>3, <3>1 DEF CreateDirectConversation, TypeOK, pair, chat
  <2>2. CASE ~ room
    <3> DEFINE r == [request[q] EXCEPT !.at = "seat"]
    <3>1. r \in Pending /\ r.at = "seat"
      BY <1>1 DEF Pending, Places
    <3>2. request' = [request EXCEPT ![q] = r] /\ maker' = q /\ maker = None
      BY <1>3, <2>2 DEF CreateDirectConversation, GoesTo, TypeOK
    <3>3. r # Idle
      BY <3>1, IdleIsNotPending
    <3> HIDE DEF r
    <3>4. Shape
      BY <3>1, <3>2, <3>3, SeatType
    <3>5. QED
      BY <1>3, <2>2, <3>4 DEF CreateDirectConversation, TypeOK, pair, chat
  <2>3. QED
    BY <2>1, <2>2
<1>4. CASE CreateMember(q)
  <2> DEFINE some == IF request[q].seated = {} THEN {request[q].user} ELSE Users
             r == [request[q] EXCEPT !.seated = some]
  <2>1. request[q].at = "seat" /\ maker = q
    BY <1>4 DEF CreateMember, At, TypeOK
  <2>2. some \subseteq Users
    BY <1>1 DEF Pending
  <2>3. r \in Pending /\ r.at = "seat"
    BY <1>1, <2>1, <2>2 DEF Pending
  <2>4. request' = [request EXCEPT ![q] = r]
    BY <1>4 DEF CreateMember, TypeOK
  <2>5. r # Idle /\ maker' = q
    BY <1>4, <2>1, <2>3, IdleIsNotPending DEF CreateMember
  <2> HIDE DEF some, r
  <2>6. Shape
    BY <2>1, <2>3, <2>4, <2>5, SeatType
  <2>7. QED
    BY <1>4, <2>6 DEF CreateMember, TypeOK, pair, chat
<1>5. CASE Commit(q)
  <2>1. maker = q /\ maker' = None
    BY <1>5 DEF Commit, At, TypeOK
  <2>2. Shape
    BY <1>5, <2>1, SeatType DEF Commit, Ends
  <2>3. seats' \subseteq Users
    BY <1>1, <1>5 DEF Commit, Pending, TypeOK
  <2>4. QED
    BY <1>5, <2>2, <2>3 DEF Commit, TypeOK, pair, chat
<1>6. CASE FindAgain(q)
  <2>1. Shape
    BY <1>6, GoesType DEF FindAgain, At, Places
  <2>2. QED
    BY <1>6, <2>1 DEF FindAgain, TypeOK, pair, chat
<1>7. QED
  BY <1>2, <1>3, <1>4, <1>5, <1>6 DEF Open

LEMMA SendType ==
    ASSUME TypeOK, NEW q \in Requests, Send(q)
    PROVE  TypeOK'
<1> DEFINE Shape == /\ request' \in [Requests -> Pending \union {Idle}]
                    /\ maker' \in Requests \union {None}
                    /\ \A p \in Requests : At(p, "seat")' <=> maker' = p
<1>1. request[q] \in Pending
  BY AtType DEF Send, CreateMessage, StoreMessage, TouchUpdatedAt, Notify, At
<1>2. CASE CreateMessage(q)
  <2> DEFINE r == [request[q] EXCEPT !.at = "store", !.stamp = clock + 1]
  <2>1. clock + 1 \in Stamps
    BY <1>2, DirectAssumption DEF CreateMessage, Stamps, TypeOK
  <2>2. r \in Pending /\ r.at = "store"
    BY <1>1, <2>1 DEF Pending, Places
  <2>3. request' = [request EXCEPT ![q] = r]
    BY <1>2 DEF CreateMessage, TypeOK
  <2> HIDE DEF r
  <2>4. Shape
    BY <1>2, <2>2, <2>3, MoveType DEF CreateMessage, At
  <2>5. clock' \in Stamps
    BY <1>2, <2>1 DEF CreateMessage
  <2>6. QED
    BY <1>2, <2>4, <2>5 DEF CreateMessage, TypeOK, pair
<1>3. CASE StoreMessage(q)
  <2>1. Shape
    BY <1>3, GoesType DEF StoreMessage, At, Places
  <2>2. messages' \subseteq Stamps
    BY <1>1, <1>3 DEF StoreMessage, Pending, TypeOK
  <2>3. QED
    BY <1>3, <2>1, <2>2 DEF StoreMessage, TypeOK, pair
<1>4. CASE TouchUpdatedAt(q)
  <2>1. Shape
    BY <1>4, GoesType DEF TouchUpdatedAt, At, Places
  <2>2. updatedAt' \in Stamps
    BY <1>1, <1>4 DEF TouchUpdatedAt, Pending
  <2>3. QED
    BY <1>4, <2>1, <2>2 DEF TouchUpdatedAt, TypeOK, pair
<1>5. CASE Notify(q)
  <2>1. Shape
    BY <1>5, GoesType DEF Notify, At, Places
  <2>2. QED
    BY <1>5, <2>1 DEF Notify, TypeOK, pair, chat
<1>6. QED
  BY <1>2, <1>3, <1>4, <1>5 DEF Send

LEMMA ReadType ==
    ASSUME TypeOK, NEW q \in Requests, MarkRead(q)
    PROVE  TypeOK'
<1> DEFINE Shape == /\ request' \in [Requests -> Pending \union {Idle}]
                    /\ maker' \in Requests \union {None}
                    /\ \A p \in Requests : At(p, "seat")' <=> maker' = p
<1>1. request[q] \in Pending
  BY AtType DEF MarkRead, FindMessages, UpdateReadState, At
<1>2. CASE FindMessages(q)
  <2>1. CASE Ends(q)
    <3>1. Shape
      BY <1>2, <2>1, GoesType DEF FindMessages, At, Places
    <3>2. QED
      BY <1>2, <3>1 DEF FindMessages, TypeOK, pair, chat
  <2>2. ASSUME NEW s \in messages,
               request' = [request EXCEPT ![q].at = "update", ![q].stamp = s]
        PROVE  TypeOK'
    <3> DEFINE r == [request[q] EXCEPT !.at = "update", !.stamp = s]
    <3>1. r \in Pending /\ r.at = "update"
      BY <1>1, <2>2 DEF Pending, Places, TypeOK
    <3>2. request' = [request EXCEPT ![q] = r]
      BY <2>2 DEF TypeOK
    <3> HIDE DEF r
    <3>3. Shape
      BY <1>2, <3>1, <3>2, MoveType DEF FindMessages, At
    <3>4. QED
      BY <1>2, <3>3 DEF FindMessages, TypeOK, pair, chat
  <2>3. QED
    BY <1>2, <2>1, <2>2 DEF FindMessages
<1>3. CASE UpdateReadState(q)
  <2>1. Shape
    BY <1>3, GoesType DEF UpdateReadState, At, Places
  <2>2. lastReadAt' \in [Users -> Stamps]
    BY <1>1, <1>3 DEF UpdateReadState, Pending, TypeOK
  <2>3. QED
    BY <1>3, <2>1, <2>2 DEF UpdateReadState, TypeOK, pair
<1>4. QED
  BY <1>2, <1>3 DEF MarkRead

LEMMA AbandonType ==
    ASSUME TypeOK, NEW q \in Requests, Abandon(q)
    PROVE  TypeOK'
<1>1. /\ request' \in [Requests -> Pending \union {Idle}]
      /\ maker' \in Requests \union {None}
      /\ \A p \in Requests : At(p, "seat")' <=> maker' = p
  BY SeatType DEF Abandon, Ends
<1>2. QED
  BY <1>1 DEF Abandon, TypeOK, pair, chat

\* A step of another actor that at most overtakes executions.
LEMMA OvertakenSeat ==
    ASSUME TypeOK, NEW checks, NEW users, request' = Overtaken(checks, users), UNCHANGED maker
    PROVE  /\ request' \in [Requests -> Pending \union {Idle}]
           /\ maker' \in Requests \union {None}
           /\ \A p \in Requests : At(p, "seat")' <=> maker' = p
<1>1. \A p \in Requests : At(p, "seat")' <=> At(p, "seat")
  BY OvertakenKeeps DEF At
<1>2. QED
  BY <1>1, OvertakenType DEF TypeOK

LEMMA LeaveType ==
    ASSUME TypeOK, NEW u \in Users, Leave(u)
    PROVE  TypeOK'
<1>1. /\ request' \in [Requests -> Pending \union {Idle}]
      /\ maker' \in Requests \union {None}
      /\ \A p \in Requests : At(p, "seat")' <=> maker' = p
  BY OvertakenSeat DEF Leave
<1>2. lastReadAt' \in [Users -> Stamps] /\ seats' \subseteq Users /\ left' \subseteq Users
  BY DirectAssumption DEF Leave, TypeOK, Stamps
<1>3. QED
  BY <1>1, <1>2 DEF Leave, TypeOK, pair

LEMMA MeetType ==
    ASSUME TypeOK, Meet
    PROVE  TypeOK'
<1>1. CASE Befriend
  BY <1>1 DEF Befriend, TypeOK, chat, At
<1>2. CASE Unfriend
  <2>1. /\ request' \in [Requests -> Pending \union {Idle}]
        /\ maker' \in Requests \union {None}
        /\ \A p \in Requests : At(p, "seat")' <=> maker' = p
    BY <1>2, OvertakenSeat DEF Unfriend
  <2>2. QED
    BY <1>2, <2>1 DEF Unfriend, TypeOK, chat
<1>3. ASSUME NEW u \in Users, Block(u) PROVE TypeOK'
  <2>1. /\ request' \in [Requests -> Pending \union {Idle}]
        /\ maker' \in Requests \union {None}
        /\ \A p \in Requests : At(p, "seat")' <=> maker' = p
    BY <1>3, OvertakenSeat DEF Block
  <2>2. QED
    BY <1>3, <2>1 DEF Block, TypeOK, chat
<1>4. ASSUME NEW u \in Users, Unblock(u) PROVE TypeOK'
  BY <1>4 DEF Unblock, TypeOK, chat, At
<1>5. QED
  BY <1>1, <1>2, <1>3, <1>4 DEF Meet

\* The state keeps its shape (TypeOK): in particular one transaction at a time makes the room.
THEOREM TypeCorrect == Spec => []TypeOK
<1>1. Init => TypeOK
  <2> SUFFICES ASSUME Init PROVE TypeOK
    OBVIOUS
  <2>1. 0 \in Stamps
    BY DirectAssumption DEF Stamps
  <2>2. \A q \in Requests : ~ At(q, "seat") /\ maker # q
    BY DirectAssumption DEF Init, At
  <2>3. QED
    BY <2>1, <2>2 DEF Init, TypeOK
<1>2. TypeOK /\ [Next]_vars => TypeOK'
  <2> SUFFICES ASSUME TypeOK, [Next]_vars PROVE TypeOK'
    OBVIOUS
  <2>1. ASSUME NEW q \in Requests,
               Begin(q) \/ Check(q) \/ Open(q) \/ Send(q) \/ MarkRead(q) \/ Abandon(q)
        PROVE  TypeOK'
    BY <2>1, BeginType, CheckType, OpenType, SendType, ReadType, AbandonType
  <2>2. ASSUME NEW u \in Users, Leave(u) PROVE TypeOK'
    BY <2>2, LeaveType
  <2>3. CASE UNCHANGED vars
    BY <2>3 DEF vars, chat, TypeOK, At
  <2>4. QED
    BY <2>1, <2>2, <2>3, MeetType DEF Next
<1>3. QED
  BY <1>1, <1>2, PTL DEF Spec

-----------------------------------------------------------------------------
(* The room and its members                                                *)

\* A room that is not committed has no members and nobody has left it; while a transaction
\* holds the pair it is not committed; who has lost the race finds it.
RoomInv ==
    /\ SeatedUnlessLeft
    /\ ~ room => left = {}
    /\ maker # None => ~ room
    /\ LoserFindsRoom

LEMMA RoomInvInductive ==
    ASSUME TypeOK, RoomInv, [Next]_vars
    PROVE  RoomInv'
<1>1. ASSUME NEW q \in Requests, Begin(q) PROVE RoomInv'
  <2>1. PICK op \in Operations, u \in Users, at \in {"look", "member"}, floor \in Stamps :
              Start(q, op, u, at, floor)
    BY <1>1, BeginStarts
  <2>2. \A p \in Requests : At(p, "again")' => At(p, "again")
    BY <2>1 DEF Start, TypeOK, At, Begun
  <2>3. QED
    BY <2>1, <2>2 DEF Start, RoomInv, SeatedUnlessLeft, LoserFindsRoom
<1>2. ASSUME NEW q \in Requests, Check(q) PROVE RoomInv'
  <2>1. request[q] \in Pending
    BY <1>2, AtType DEF Check, CheckBlocks, CheckFriend, IsMember, At
  <2>2. \A p \in Requests : At(p, "again")' => At(p, "again")
    <3>1. CASE CheckBlocks(q) \/ CheckFriend(q)
      BY <2>1, <3>1 DEF CheckBlocks, CheckFriend, Checked, Ends, TypeOK, At, Pending
    <3>2. CASE IsMember(q)
      BY <2>1, <3>2 DEF IsMember, Ends, TypeOK, At, Pending
    <3>3. QED
      BY <1>2, <3>1, <3>2 DEF Check
  <2>3. UNCHANGED <<room, seats, maker, left>>
    BY <1>2 DEF Check, CheckBlocks, CheckFriend, IsMember
  <2>4. QED
    BY <2>2, <2>3 DEF RoomInv, SeatedUnlessLeft, LoserFindsRoom
<1>3. ASSUME NEW q \in Requests, Open(q) PROVE RoomInv'
  <2>1. request[q] \in Pending
    BY <1>3, AtType DEF Open, FindExisting, CreateDirectConversation, CreateMember, Commit, FindAgain, At
  <2>2. CASE FindExisting(q) \/ FindAgain(q)
    <3>1. \A p \in Requests : At(p, "again")' => At(p, "again")
      BY <2>1, <2>2 DEF FindExisting, FindAgain, GoesTo, Ends, TypeOK, At, Pending
    <3>2. QED
      BY <2>2, <3>1 DEF FindExisting, FindAgain, RoomInv, SeatedUnlessLeft, LoserFindsRoom
  <2>3. CASE CreateDirectConversation(q)
    <3>1. \A p \in Requests : At(p, "again")' => At(p, "again") \/ room
      BY <2>1, <2>3 DEF CreateDirectConversation, GoesTo, TypeOK, At, Pending
    <3>2. QED
      BY <2>3, <3>1 DEF CreateDirectConversation, RoomInv, SeatedUnlessLeft, LoserFindsRoom
  <2>4. CASE CreateMember(q)
    <3>1. \A p \in Requests : At(p, "again")' => At(p, "again")
      BY <2>1, <2>4 DEF CreateMember, TypeOK, At, Pending
    <3>2. QED
      BY <2>4, <3>1 DEF CreateMember, RoomInv, SeatedUnlessLeft, LoserFindsRoom
  <2>5. CASE Commit(q)
    <3>1. ~ room /\ seats = {} /\ left = {}
      BY <2>5, DirectAssumption DEF Commit, TypeOK, RoomInv, SeatedUnlessLeft
    <3>2. seats' = Users /\ left' = {} /\ room' /\ maker' = None
      BY <2>5, <3>1 DEF Commit
    <3>3. QED
      BY <3>2 DEF RoomInv, SeatedUnlessLeft, LoserFindsRoom
  <2>6. QED
    BY <1>3, <2>2, <2>3, <2>4, <2>5 DEF Open
<1>4. ASSUME NEW q \in Requests, Send(q) \/ MarkRead(q) \/ Abandon(q) PROVE RoomInv'
  <2>1. request[q] # Idle => request[q] \in Pending
    BY AtType
  <2>2. \A p \in Requests : At(p, "again")' => At(p, "again")
    <3>1. CASE CreateMessage(q) \/ StoreMessage(q) \/ TouchUpdatedAt(q) \/ Notify(q)
      BY <2>1, <3>1 DEF CreateMessage, StoreMessage, TouchUpdatedAt, Notify, GoesTo, Ends, TypeOK, At, Pending
    <3>2. CASE FindMessages(q) \/ UpdateReadState(q) \/ Abandon(q)
      BY <2>1, <3>2 DEF FindMessages, UpdateReadState, Abandon, Ends, TypeOK, At, Pending
    <3>3. QED
      BY <1>4, <3>1, <3>2 DEF Send, MarkRead
  <2>3. UNCHANGED <<room, seats, left>> /\ (maker' = maker \/ maker' = None)
    BY <1>4 DEF Send, MarkRead, Abandon, CreateMessage, StoreMessage, TouchUpdatedAt, Notify,
                FindMessages, UpdateReadState
  <2>4. QED
    BY <2>2, <2>3 DEF RoomInv, SeatedUnlessLeft, LoserFindsRoom
<1>5. ASSUME NEW checks, NEW users, request' = Overtaken(checks, users)
      PROVE  \A p \in Requests : At(p, "again")' => At(p, "again")
  BY <1>5, OvertakenKeeps DEF At
<1>6. ASSUME NEW u \in Users, Leave(u) PROVE RoomInv'
  <2>1. room /\ seats' = Users \ left'
    BY <1>6 DEF Leave, RoomInv, SeatedUnlessLeft
  <2>2. \A p \in Requests : At(p, "again")' => At(p, "again")
    BY <1>5, <1>6 DEF Leave
  <2>3. QED
    BY <1>6, <2>1, <2>2 DEF Leave, RoomInv, SeatedUnlessLeft, LoserFindsRoom
<1>7. CASE Meet
  <2>1. \A p \in Requests : At(p, "again")' => At(p, "again")
    BY <1>5, <1>7 DEF Meet, Befriend, Unfriend, Block, Unblock, At
  <2>2. UNCHANGED <<room, seats, maker, left>>
    BY <1>7 DEF Meet, Befriend, Unfriend, Block, Unblock
  <2>3. QED
    BY <2>1, <2>2 DEF RoomInv, SeatedUnlessLeft, LoserFindsRoom
<1>8. CASE UNCHANGED vars
  BY <1>8 DEF vars, RoomInv, SeatedUnlessLeft, LoserFindsRoom, At
<1>9. QED
  BY <1>1, <1>2, <1>3, <1>4, <1>6, <1>7, <1>8 DEF Next

LEMMA RoomInvHolds == Spec => []RoomInv
<1>1. Init => RoomInv
  BY DEF Init, RoomInv, SeatedUnlessLeft, LoserFindsRoom, At
<1>2. QED
  BY <1>1, RoomInvInductive, TypeCorrect, PTL DEF Spec

\* The members of a room are its two users but for those who have left, whatever dies in the
\* transaction and however many opens meet (SeatedUnlessLeft).
THEOREM RoomHasItsMembers == Spec => []SeatedUnlessLeft
<1>1. RoomInv => SeatedUnlessLeft
  BY DEF RoomInv
<1>2. QED
  BY <1>1, RoomInvHolds, PTL

\* The loser of a race of opens finds the room of the winner (LoserFindsRoom).
THEOREM LoserFinds == Spec => []LoserFindsRoom
<1>1. RoomInv => LoserFindsRoom
  BY DEF RoomInv
<1>2. QED
  BY <1>1, RoomInvHolds, PTL

-----------------------------------------------------------------------------
(* Checks that hold until they are overtaken                               *)

Granted(p) ==
    request[p] # Idle /\ ~ request[p].overtaken
      => \A c \in Needs(request[p].op) \ request[p].todo : Holds(c, request[p].user)

\* A step keeps the checks of p when p goes on with no more of them made and they still hold.
LEMMA GrantedKept ==
    ASSUME NEW p \in Requests, Granted(p),
           friends => friends', blocks = {} => blocks' = {}, seats \subseteq seats',
           request'[p] # Idle =>
             /\ request[p] # Idle
             /\ request'[p].op = request[p].op /\ request'[p].user = request[p].user
             /\ request'[p].todo = request[p].todo
             /\ request'[p].overtaken = request[p].overtaken
    PROVE  Granted(p)'
<1>1. \A c, u : Holds(c, u) => Holds(c, u)' \/ c \notin {"friend", "block", "member"}
  BY DEF Holds
<1>2. Needs(request[p].op) \subseteq {"friend", "block", "member"}
  BY DEF Needs
<1>3. QED
  BY <1>1, <1>2 DEF Granted

\* What the steps of q other than its checks leave as it is.
LEMMA GrantedByMove ==
    ASSUME TypeOK, NEW q \in Requests, Open(q) \/ Send(q) \/ MarkRead(q) \/ Abandon(q),
           NEW p \in Requests, Granted(p)
    PROVE  Granted(p)'
<1>1. request[p] # Idle => request[p] \in Pending
  BY AtType
<1>2. request'[p] # Idle =>
        /\ request[p] # Idle
        /\ request'[p].op = request[p].op /\ request'[p].user = request[p].user
        /\ request'[p].todo = request[p].todo
        /\ request'[p].overtaken = request[p].overtaken
  <2>1. CASE Open(q)
    BY <1>1, <2>1 DEF Open, FindExisting, CreateDirectConversation, CreateMember, Commit, FindAgain,
                      GoesTo, Ends, TypeOK, At, Pending
  <2>2. CASE Send(q)
    BY <1>1, <2>2 DEF Send, CreateMessage, StoreMessage, TouchUpdatedAt, Notify,
                      GoesTo, Ends, TypeOK, At, Pending
  <2>3. CASE MarkRead(q) \/ Abandon(q)
    BY <1>1, <2>3 DEF MarkRead, FindMessages, UpdateReadState, Abandon, Ends, TypeOK, At, Pending
  <2>4. QED
    BY <2>1, <2>2, <2>3
<1>3. UNCHANGED <<friends, blocks>> /\ seats \subseteq seats'
  BY DEF pair, Open, FindExisting, CreateDirectConversation, CreateMember, Commit, FindAgain,
         Send, CreateMessage, StoreMessage, TouchUpdatedAt, Notify,
         MarkRead, FindMessages, UpdateReadState, Abandon
<1>4. QED
  BY <1>2, <1>3, GrantedKept

LEMMA GrantedByCheck ==
    ASSUME TypeOK, NEW q \in Requests, Check(q), NEW p \in Requests, Granted(p)
    PROVE  Granted(p)'
<1>1. request[p] # Idle => request[p] \in Pending
  BY AtType
<1>2. UNCHANGED <<friends, blocks, seats>>
  BY DEF Check, CheckBlocks, CheckFriend, IsMember, pair
<1>3. CASE request'[p] = request[p]
  BY <1>2, <1>3, GrantedKept
<1>4. CASE request'[p] = Idle
  BY <1>4 DEF Granted
<1>5. ASSUME NEW check \in {"friend", "block", "member"}, request[p] # Idle,
             Holds(check, request[p].user), request'[p] # Idle,
             request'[p].op = request[p].op, request'[p].user = request[p].user,
             request'[p].overtaken = request[p].overtaken,
             request'[p].todo = request[p].todo \ {check}
      PROVE  Granted(p)'
  <2>1. \A c : Holds(c, request[p].user)' <=> Holds(c, request[p].user)
    BY <1>2, <1>5 DEF Holds
  <2>2. QED
    BY <1>5, <2>1 DEF Granted
<1>6. CASE (CheckBlocks(q) \/ CheckFriend(q)) /\ request'[p] # request[p] /\ request'[p] # Idle
  <2>1. p = q
    BY <1>6 DEF CheckBlocks, CheckFriend, Checked, Ends, TypeOK
  <2>2. CASE CheckBlocks(q)
    <3>1. Holds("block", request[p].user) /\ request' = [request EXCEPT ![p].todo = @ \ {"block"}]
      BY <1>6, <2>1, <2>2 DEF CheckBlocks, Checked, Ends, TypeOK
    <3>2. QED
      BY <1>1, <1>5, <1>6, <2>1, <2>2, <3>1 DEF CheckBlocks, At, TypeOK, Pending
  <2>3. CASE CheckFriend(q)
    <3>1. Holds("friend", request[p].user) /\ request' = [request EXCEPT ![p].todo = @ \ {"friend"}]
      BY <1>6, <2>1, <2>3 DEF CheckFriend, Checked, Ends, TypeOK
    <3>2. QED
      BY <1>1, <1>5, <1>6, <2>1, <2>3, <3>1 DEF CheckFriend, At, TypeOK, Pending
  <2>4. QED
    BY <1>6, <2>2, <2>3
<1>7. CASE IsMember(q) /\ request'[p] # request[p] /\ request'[p] # Idle
  <2>1. p = q
    BY <1>7 DEF IsMember, Ends, TypeOK
  <2>2. Holds("member", request[p].user)
    BY <1>7, <2>1 DEF IsMember, Ends, TypeOK, Holds
  <2>3. QED
    BY <1>1, <1>5, <1>7, <2>1, <2>2 DEF IsMember, Ends, At, TypeOK, Pending
<1>8. QED
  BY <1>3, <1>4, <1>6, <1>7 DEF Check

\* Who loses what a check of its had found is overtaken.
LEMMA GrantedOrOvertaken ==
    ASSUME TypeOK, NEW checks, NEW users, request' = Overtaken(checks, users),
           NEW p \in Requests, Granted(p),
           \A c \in {"friend", "block", "member"} : \A u \in Users :
              Holds(c, u) => Holds(c, u)' \/ (c \in checks /\ u \in users)
    PROVE  Granted(p)'
<1>1. CASE request[p] = Idle
  BY <1>1, OvertakenKeeps DEF Granted
<1>2. CASE request[p] # Idle
  <2>1. request[p] \in Pending /\ Needs(request[p].op) \subseteq {"friend", "block", "member"}
    BY <1>2, AtType DEF Needs
  <2>2. CASE request[p].user \in users /\ checks \cap (Needs(request[p].op) \ request[p].todo) # {}
    <3>1. request'[p] = [request[p] EXCEPT !.overtaken = TRUE]
      BY <1>2, <2>2 DEF Overtaken
    <3>2. request'[p].overtaken
      BY <2>1, <3>1 DEF Pending
    <3>3. QED
      BY <3>2 DEF Granted
  <2>3. CASE ~ (request[p].user \in users /\ checks \cap (Needs(request[p].op) \ request[p].todo) # {})
    <3>1. request'[p] = request[p]
      BY <2>3 DEF Overtaken
    <3>2. request[p].user \in Users
      BY <2>1 DEF Pending
    <3>3. QED
      BY <2>1, <2>3, <3>1, <3>2 DEF Granted
  <2>4. QED
    BY <2>2, <2>3
<1>3. QED
  BY <1>1, <1>2

LEMMA GrantedInductive ==
    ASSUME TypeOK, [Next]_vars, NEW p \in Requests, Granted(p)
    PROVE  Granted(p)'
<1>1. ASSUME NEW q \in Requests, Begin(q) PROVE Granted(p)'
  <2>1. PICK op \in Operations, u \in Users, at \in {"look", "member"}, floor \in Stamps :
              Start(q, op, u, at, floor)
    BY <1>1, BeginStarts
  <2>2. CASE p = q
    <3>1. request'[p] = Begun(op, u, at, floor)
      BY <2>1, <2>2 DEF Start, TypeOK
    <3>2. Needs(request'[p].op) \ request'[p].todo = {}
      BY <3>1 DEF Begun
    <3>3. QED
      BY <3>2 DEF Granted
  <2>3. CASE p # q
    <3>1. request'[p] = request[p] /\ UNCHANGED <<friends, blocks, seats>>
      BY <2>1, <2>3 DEF Start, TypeOK, pair
    <3>2. QED
      BY <3>1, GrantedKept
  <2>4. QED
    BY <2>2, <2>3
<1>2. ASSUME NEW u \in Users, Leave(u) PROVE Granted(p)'
  <2>1. \A c \in {"friend", "block", "member"} : \A v \in Users :
          Holds(c, v) => Holds(c, v)' \/ (c \in {"member"} /\ v \in {u})
    BY <1>2 DEF Leave, Holds, pair
  <2>2. QED
    BY <1>2, <2>1, GrantedOrOvertaken DEF Leave
<1>3. CASE Befriend
  BY <1>3, GrantedKept DEF Befriend
<1>4. CASE Unfriend
  <2>1. \A c \in {"friend", "block", "member"} : \A v \in Users :
          Holds(c, v) => Holds(c, v)' \/ (c \in {"friend"} /\ v \in Users)
    BY <1>4 DEF Unfriend, Holds
  <2>2. QED
    BY <1>4, <2>1, GrantedOrOvertaken DEF Unfriend
<1>5. ASSUME NEW u \in Users, Block(u) PROVE Granted(p)'
  <2>1. \A c \in {"friend", "block", "member"} : \A v \in Users :
          Holds(c, v) => Holds(c, v)' \/ (c \in {"friend", "block"} /\ v \in Users)
    BY <1>5 DEF Block, Holds
  <2>2. QED
    BY <1>5, <2>1, GrantedOrOvertaken DEF Block
<1>6. ASSUME NEW u \in Users, Unblock(u) PROVE Granted(p)'
  BY <1>6, GrantedKept DEF Unblock
<1>7. CASE UNCHANGED vars
  BY <1>7, GrantedKept DEF vars
<1>8. QED
  BY <1>1, <1>2, <1>3, <1>4, <1>5, <1>6, <1>7, GrantedByMove, GrantedByCheck DEF Next, Meet

\* A room is created, a message stored and the peer notified on checks that still hold,
\* unless a block, an unfriending or a departure came after them (CheckedHolds).
THEOREM ChecksHold == Spec => []CheckedHolds
<1>1. Init => CheckedHolds
  BY DEF Init, CheckedHolds
<1>2. TypeOK /\ CheckedHolds /\ [Next]_vars => CheckedHolds'
  <2> SUFFICES ASSUME TypeOK, CheckedHolds, [Next]_vars PROVE CheckedHolds'
    OBVIOUS
  <2>1. \A p \in Requests : Granted(p)'
    BY GrantedInductive DEF CheckedHolds, Granted
  <2>2. QED
    BY <2>1 DEF CheckedHolds, Granted
<1>3. QED
  BY <1>1, <1>2, TypeCorrect, PTL DEF Spec

-----------------------------------------------------------------------------
(* The order of what is written                                            *)

\* What an execution has seen at its start is behind the message it has stamped, and not
\* after the message it has found last.
InOrder(q) ==
    request[q] # Idle =>
      /\ request[q].floor <= clock
      /\ request[q].op = "read" => request[q].floor \in messages \union {0}
      /\ request[q].at \in {"store", "touch"}
           => request[q].stamp \in 1..clock /\ request[q].floor < request[q].stamp
      /\ request[q].at = "update" =>
           /\ request[q].stamp \in messages
           /\ request[q].op = "read" => request[q].floor <= request[q].stamp

OrderInv ==
    /\ messages \subseteq 1..clock
    /\ updatedAt <= clock
    /\ \A u \in Users : lastReadAt[u] \in messages \union {0}
    /\ \A q \in Requests : InOrder(q)

\* The executions that a step does not move, as time goes on and messages are added.
LEMMA InOrderKept ==
    ASSUME TypeOK, NEW q \in Requests, InOrder(q),
           clock \in Nat, clock' \in Nat, clock <= clock', messages \subseteq messages',
           request'[q] # Idle =>
             /\ request[q] # Idle
             /\ request'[q].op = request[q].op /\ request'[q].floor = request[q].floor
             /\ request'[q].at \notin {"store", "update"} \/ request'[q].at = request[q].at
             /\ request'[q].at = "touch" => request[q].at \in {"store", "touch"}
             /\ request'[q].stamp = request[q].stamp
    PROVE  InOrder(q)'
<1>1. request[q] # Idle => request[q].stamp \in Int /\ request[q].floor \in Int
  BY AtType DEF Pending, Stamps
<1>2. QED
  BY <1>1 DEF InOrder

LEMMA OrderByBegin ==
    ASSUME TypeOK, OrderInv, NEW q \in Requests, Begin(q)
    PROVE  OrderInv'
<1>1. clock \in Nat /\ updatedAt \in Nat
  BY DirectAssumption DEF TypeOK, Stamps
<1>2. PICK u \in Users : \/ StartOpen(q, u) \/ StartSend(q, u)
                         \/ \E op \in {"read", "readTo"} : StartRead(q, u, op)
  BY DEF Begin
<1>3. PICK op \in Operations, at \in {"look", "member"}, floor \in {0, updatedAt, lastReadAt[u]} :
              /\ Start(q, op, u, at, floor)
              /\ op = "read" => floor = lastReadAt[u]
  BY <1>2 DEF StartOpen, StartSend, StartRead, Operations
<1>4. UNCHANGED <<messages, clock, updatedAt, lastReadAt>>
  BY <1>3 DEF Start, chat
<1>5. InOrder(q)'
  <2>1. request'[q] = Begun(op, u, at, floor)
    BY <1>3 DEF Start, TypeOK
  <2>2. floor <= clock
    BY <1>1, <1>3 DEF OrderInv
  <2>3. op = "read" => floor \in messages \union {0}
    BY <1>3 DEF OrderInv
  <2>4. QED
    BY <1>4, <2>1, <2>2, <2>3 DEF InOrder, Begun
<1>6. ASSUME NEW p \in Requests, p # q PROVE InOrder(p)'
  BY <1>3, <1>4, <1>6 DEF Start, TypeOK, OrderInv, InOrder
<1>7. QED
  BY <1>4, <1>5, <1>6 DEF OrderInv

\* The steps that neither stamp nor store nor mark.
LEMMA OrderByOther ==
    ASSUME TypeOK, OrderInv, UNCHANGED <<clock, messages, updatedAt>>,
           \A u \in Users : lastReadAt'[u] \in {0, lastReadAt[u]},
           \A q \in Requests : request'[q] # Idle =>
             /\ request[q] # Idle
             /\ request'[q].op = request[q].op /\ request'[q].floor = request[q].floor
             /\ request'[q].at \notin {"store", "touch", "update"} \/ request'[q].at = request[q].at
             /\ request'[q].stamp = request[q].stamp
    PROVE  OrderInv'
<1>1. clock \in Nat
  BY DirectAssumption DEF TypeOK, Stamps
<1>2. \A q \in Requests : InOrder(q)'
  BY <1>1, InOrderKept DEF OrderInv
<1>3. QED
  BY <1>2 DEF OrderInv

LEMMA OrderByCheckOrOpen ==
    ASSUME TypeOK, OrderInv, NEW q \in Requests, Check(q) \/ Open(q) \/ Notify(q) \/ Abandon(q)
    PROVE  OrderInv'
<1>1. \A p \in Requests : request[p] # Idle => request[p] \in Pending
  BY AtType
<1>2. UNCHANGED chat
  BY DEF Check, CheckBlocks, CheckFriend, IsMember, Open, FindExisting, CreateDirectConversation,
         CreateMember, Commit, FindAgain, Notify, Abandon
<1>3. ASSUME NEW p \in Requests, request'[p] # Idle
      PROVE  /\ request[p] # Idle
             /\ request'[p].op = request[p].op /\ request'[p].floor = request[p].floor
             /\ request'[p].at \notin {"store", "touch", "update"} \/ request'[p].at = request[p].at
             /\ request'[p].stamp = request[p].stamp
  <2>1. CASE CheckBlocks(q) \/ CheckFriend(q)
    BY <1>1, <1>3, <2>1 DEF CheckBlocks, CheckFriend, Checked, Ends, TypeOK, At, Pending
  <2>2. CASE IsMember(q)
    BY <1>1, <1>3, <2>2 DEF IsMember, Ends, TypeOK, At, Pending
  <2>3. CASE FindExisting(q) \/ FindAgain(q)
    BY <1>1, <1>3, <2>3 DEF FindExisting, FindAgain, GoesTo, Ends, TypeOK, At, Pending
  <2>4. CASE CreateDirectConversation(q)
    BY <1>1, <1>3, <2>4 DEF CreateDirectConversation, GoesTo, TypeOK, At, Pending
  <2>5. CASE CreateMember(q)
    BY <1>1, <1>3, <2>5 DEF CreateMember, TypeOK, At, Pending
  <2>6. CASE Commit(q) \/ Notify(q) \/ Abandon(q)
    BY <1>1, <1>3, <2>6 DEF Commit, Notify, Abandon, Ends, TypeOK, At
  <2>7. QED
    BY <2>1, <2>2, <2>3, <2>4, <2>5, <2>6 DEF Check, Open
<1>4. QED
  BY <1>2, <1>3, OrderByOther DEF chat

LEMMA OrderByWrite ==
    ASSUME TypeOK, OrderInv, NEW q \in Requests,
           CreateMessage(q) \/ StoreMessage(q) \/ TouchUpdatedAt(q) \/ MarkRead(q)
    PROVE  OrderInv'
<1>1. /\ request[q] \in Pending /\ request[q] # Idle
      /\ request[q].stamp \in Int /\ request[q].floor \in Int
  BY AtType DEF CreateMessage, StoreMessage, TouchUpdatedAt, MarkRead, FindMessages,
                UpdateReadState, At, Pending, Stamps
<1>2. clock \in Nat /\ updatedAt \in Nat
  BY DirectAssumption DEF TypeOK, Stamps
<1>3. CASE CreateMessage(q)
  <2>1. InOrder(q)'
    BY <1>1, <1>2, <1>3 DEF CreateMessage, TypeOK, OrderInv, InOrder, Pending, At
  <2>2. ASSUME NEW p \in Requests, p # q PROVE InOrder(p)'
    BY <1>2, <1>3, <2>2, InOrderKept DEF CreateMessage, TypeOK, OrderInv
  <2>3. messages' \subseteq 1..clock' /\ updatedAt' <= clock'
    BY <1>2, <1>3 DEF CreateMessage, OrderInv
  <2>4. QED
    BY <1>3, <2>1, <2>2, <2>3 DEF CreateMessage, OrderInv
<1>4. CASE StoreMessage(q)
  <2>1. request[q].stamp \in 1..clock
    BY <1>1, <1>4 DEF StoreMessage, At, OrderInv, InOrder
  <2>2. ASSUME NEW p \in Requests PROVE InOrder(p)'
    <3>1. CASE p = q
      BY <1>1, <1>2, <1>4, <3>1, InOrderKept DEF StoreMessage, GoesTo, TypeOK, OrderInv, Pending, At
    <3>2. CASE p # q
      BY <1>2, <1>4, <3>2, InOrderKept DEF StoreMessage, GoesTo, TypeOK, OrderInv
    <3>3. QED
      BY <3>1, <3>2
  <2>3. QED
    BY <1>4, <2>1, <2>2 DEF StoreMessage, OrderInv
<1>5. CASE TouchUpdatedAt(q)
  <2>1. updatedAt' <= clock
    BY <1>1, <1>2, <1>5 DEF TouchUpdatedAt, At, OrderInv, InOrder
  <2>2. ASSUME NEW p \in Requests PROVE InOrder(p)'
    <3>1. CASE p = q
      BY <1>1, <1>2, <1>5, <3>1, InOrderKept DEF TouchUpdatedAt, GoesTo, TypeOK, OrderInv, Pending, At
    <3>2. CASE p # q
      BY <1>2, <1>5, <3>2, InOrderKept DEF TouchUpdatedAt, GoesTo, TypeOK, OrderInv
    <3>3. QED
      BY <3>1, <3>2
  <2>3. QED
    BY <1>5, <2>1, <2>2 DEF TouchUpdatedAt, OrderInv
<1>6. CASE FindMessages(q)
  <2>1. UNCHANGED <<clock, messages, updatedAt, lastReadAt>>
    BY <1>6 DEF FindMessages, chat
  <2>2. ASSUME NEW p \in Requests, p # q PROVE InOrder(p)'
    BY <1>2, <1>6, <2>1, <2>2, InOrderKept DEF FindMessages, Ends, TypeOK, OrderInv
  <2>3. InOrder(q)'
    <3>1. CASE request'[q] = Idle
      BY <3>1 DEF InOrder
    <3>2. CASE request'[q] # Idle
      <4>1. PICK s \in messages :
              /\ request[q].op = "read" => \A t \in messages : t <= s
              /\ request' = [request EXCEPT ![q].at = "update", ![q].stamp = s]
        BY <1>6, <3>2 DEF FindMessages, Ends, TypeOK
      <4>2. /\ request'[q].at = "update" /\ request'[q].stamp = s
            /\ request'[q].op = request[q].op /\ request'[q].floor = request[q].floor
        BY <1>1, <4>1 DEF TypeOK, Pending
      <4>3. s \in Int /\ 0 <= s
        BY <1>2 DEF OrderInv
      <4>4. InOrder(q)
        BY DEF OrderInv
      <4>5. QED
        BY <1>1, <2>1, <4>1, <4>2, <4>3, <4>4 DEF InOrder
    <3>3. QED
      BY <3>1, <3>2
  <2>4. QED
    BY <2>1, <2>2, <2>3 DEF OrderInv
<1>7. CASE UpdateReadState(q)
  <2>1. UNCHANGED <<clock, messages, updatedAt>>
    BY <1>7 DEF UpdateReadState
  <2>2. ASSUME NEW p \in Requests PROVE InOrder(p)'
    BY <1>2, <1>7, <2>1, InOrderKept DEF UpdateReadState, Ends, TypeOK, OrderInv
  <2>3. request[q].stamp \in messages
    BY <1>1, <1>7 DEF UpdateReadState, At, OrderInv, InOrder
  <2>4. \A u \in Users : lastReadAt'[u] \in messages \union {0}
    BY <1>1, <1>7, <2>3 DEF UpdateReadState, TypeOK, OrderInv
  <2>5. QED
    BY <2>1, <2>2, <2>4 DEF OrderInv
<1>8. QED
  BY <1>3, <1>4, <1>5, <1>6, <1>7 DEF MarkRead

LEMMA OrderInductive ==
    ASSUME TypeOK, OrderInv, [Next]_vars
    PROVE  OrderInv'
<1>1. ASSUME NEW checks, NEW users, request' = Overtaken(checks, users), NEW q \in Requests,
             request'[q] # Idle
      PROVE  /\ request[q] # Idle
             /\ request'[q].op = request[q].op /\ request'[q].floor = request[q].floor
             /\ request'[q].at \notin {"store", "touch", "update"} \/ request'[q].at = request[q].at
             /\ request'[q].stamp = request[q].stamp
  BY <1>1, OvertakenKeeps
<1>2. ASSUME NEW u \in Users, Leave(u) PROVE OrderInv'
  BY <1>1, <1>2, OrderByOther DEF Leave, TypeOK
<1>3. CASE Meet
  <2>1. CASE UNCHANGED request
    BY <1>3, <2>1, OrderByOther DEF Meet, Befriend, Unfriend, Block, Unblock, chat
  <2>2. ASSUME NEW checks, NEW users, request' = Overtaken(checks, users), UNCHANGED chat
        PROVE  OrderInv'
    BY <1>1, <2>2, OrderByOther DEF chat
  <2>3. QED
    BY <1>3, <2>1, <2>2 DEF Meet, Befriend, Unfriend, Block, Unblock
<1>4. CASE UNCHANGED vars
  BY <1>4, OrderByOther DEF vars, chat
<1>5. QED
  BY <1>2, <1>3, <1>4, OrderByBegin, OrderByCheckOrOpen, OrderByWrite DEF Next, Send

\* A step of q changes no other execution.
LEMMA OthersKept ==
    ASSUME TypeOK, NEW q \in Requests, NEW p \in Requests, p # q,
           Begin(q) \/ Check(q) \/ Open(q) \/ Send(q) \/ MarkRead(q) \/ Abandon(q)
    PROVE  request'[p] = request[p]
<1>1. CASE Begin(q)
  BY <1>1, BeginStarts DEF Start, TypeOK
<1>2. CASE Check(q)
  BY <1>2 DEF Check, CheckBlocks, CheckFriend, IsMember, Checked, Ends, TypeOK
<1>3. CASE Open(q)
  BY <1>3 DEF Open, FindExisting, CreateDirectConversation, CreateMember, Commit, FindAgain,
              GoesTo, Ends, TypeOK
<1>4. CASE Send(q)
  BY <1>4 DEF Send, CreateMessage, StoreMessage, TouchUpdatedAt, Notify, GoesTo, Ends, TypeOK
<1>5. CASE MarkRead(q) \/ Abandon(q)
  BY <1>5 DEF MarkRead, FindMessages, UpdateReadState, Abandon, Ends, TypeOK
<1>6. QED
  BY <1>1, <1>2, <1>3, <1>4, <1>5

\* Only the touch of q takes it from before its UPDATE to the notification.
LEMMA TouchesItself ==
    ASSUME TypeOK, [Next]_vars, NEW q \in Requests, At(q, "touch"), At(q, "notify")'
    PROVE  TouchUpdatedAt(q)
<1>1. request[q] \in Pending
  BY AtType DEF At
<1>2. ASSUME NEW p \in Requests,
             Begin(p) \/ Check(p) \/ Open(p) \/ Send(p) \/ MarkRead(p) \/ Abandon(p)
      PROVE  TouchUpdatedAt(q)
  <2>1. p = q
    BY <1>1, <1>2, OthersKept DEF At
  <2>2. ~ Begin(q) /\ ~ Check(q) /\ ~ Open(q) /\ ~ MarkRead(q)
    BY BeginStarts DEF Start, Check, CheckBlocks, CheckFriend, IsMember, Open, FindExisting,
       CreateDirectConversation, CreateMember, Commit, FindAgain, MarkRead, FindMessages,
       UpdateReadState, At
  <2>3. ~ Abandon(q)
    BY DEF Abandon, Ends, At, TypeOK
  <2>4. QED
    BY <1>2, <2>1, <2>2, <2>3 DEF Send, CreateMessage, StoreMessage, Notify, At
<1>3. ASSUME NEW checks, NEW users PROVE request' # Overtaken(checks, users)
  BY OvertakenKeeps DEF At
<1>4. request' # request
  BY DEF At
<1>5. QED
  BY <1>2, <1>3, <1>4 DEF Next, Leave, Meet, Befriend, Unfriend, Block, Unblock, vars

\* Only the UPDATE of q ends it and changes a marker.
LEMMA MarksItself ==
    ASSUME TypeOK, [Next]_vars, NEW q \in Requests, At(q, "update"), request'[q] = Idle,
           lastReadAt' # lastReadAt
    PROVE  UpdateReadState(q)
<1>1. ASSUME NEW p \in Requests,
             Begin(p) \/ Check(p) \/ Open(p) \/ Send(p) \/ MarkRead(p) \/ Abandon(p)
      PROVE  UpdateReadState(q)
  <2>1. p = q
    BY <1>1, OthersKept DEF At
  <2>2. ~ Begin(q) /\ ~ Check(q) /\ ~ Open(q) /\ ~ Send(q)
    BY BeginStarts DEF Start, Check, CheckBlocks, CheckFriend, IsMember, Open, FindExisting,
       CreateDirectConversation, CreateMember, Commit, FindAgain, Send, CreateMessage,
       StoreMessage, TouchUpdatedAt, Notify, At
  <2>3. ~ Abandon(q) /\ ~ FindMessages(q)
    BY DEF Abandon, FindMessages, chat, At
  <2>4. QED
    BY <1>1, <2>1, <2>2, <2>3 DEF MarkRead
<1>2. ASSUME NEW checks, NEW users PROVE request' # Overtaken(checks, users)
  BY OvertakenKeeps DEF At
<1>3. request' # request
  BY DEF At
<1>4. QED
  BY <1>1, <1>2, <1>3 DEF Next, Leave, Meet, Befriend, Unfriend, Block, Unblock, vars

\* A room's updated_at and a user's marker go back only among requests that overlap, or
\* because a client names an older message (BackOnlyByOverlap).
THEOREM TimesInOrder == Spec => BackOnlyByOverlap
<1> DEFINE Forward(q) ==
      /\ At(q, "touch") /\ At(q, "notify")' => updatedAt' > request[q].floor
      /\ /\ At(q, "update") /\ request[q].op = "read"
         /\ request'[q] = Idle /\ lastReadAt' # lastReadAt
         => lastReadAt'[request[q].user] >= request[q].floor
<1>1. Init => OrderInv
  BY DirectAssumption DEF Init, OrderInv, InOrder
<1>2. TypeOK /\ OrderInv /\ [Next]_vars => OrderInv'
  BY OrderInductive
<1>3. TypeOK /\ OrderInv /\ [Next]_vars => \A q \in Requests : Forward(q)
  <2> SUFFICES ASSUME TypeOK, OrderInv, [Next]_vars, NEW q \in Requests PROVE Forward(q)
    OBVIOUS
  <2>1. InOrder(q) /\ (At(q, "touch") \/ At(q, "update") => request[q] \in Pending)
    BY AtType DEF OrderInv, At
  <2>2. ASSUME At(q, "touch"), At(q, "notify")'
        PROVE  updatedAt' > request[q].floor
    <3>1. updatedAt' = request[q].stamp
      BY <2>2, TouchesItself DEF TouchUpdatedAt
    <3>2. request[q].stamp \in Int /\ request[q].floor \in Int
      BY <2>1, <2>2 DEF Pending, Stamps
    <3>3. QED
      BY <2>1, <2>2, <3>1, <3>2 DEF InOrder, At
  <2>3. ASSUME At(q, "update"), request[q].op = "read", request'[q] = Idle, lastReadAt' # lastReadAt
        PROVE  lastReadAt'[request[q].user] >= request[q].floor
    <3>1. request[q].user \in Users /\ request[q].stamp \in Int /\ request[q].floor \in Int
      BY <2>1, <2>3 DEF Pending, Stamps
    <3>2. lastReadAt' = [lastReadAt EXCEPT ![request[q].user] = request[q].stamp]
      BY <2>3, MarksItself DEF UpdateReadState
    <3>3. lastReadAt'[request[q].user] = request[q].stamp
      BY <3>1, <3>2 DEF TypeOK
    <3>4. QED
      BY <2>1, <2>3, <3>1, <3>3 DEF InOrder, At
  <2>4. QED
    BY <2>2, <2>3
<1>4. QED
  BY <1>1, <1>2, <1>3, TypeCorrect, PTL DEF Spec, BackOnlyByOverlap
=============================================================================
