------------------------------ MODULE DirectRooms ------------------------------
(***************************************************************************)
(* The direct room of two users: opened by either, or by both at once, left, *)
(* written to and marked as read, while the two become friends, part and     *)
(* block each other.                                                        *)
(*                                                                         *)
(* Every query of a use case is a step. The room and its two members are     *)
(* inserted in one transaction, whose row of conversations other insertions  *)
(* of the pair wait for.                                                    *)
(***************************************************************************)
EXTENDS Integers, FiniteSets

CONSTANTS
    Users,          \* the two of the room
    Requests,       \* concurrent executions of the use cases
    MaxMessages,    \* bound: messages that are stamped
    None

ASSUME DirectAssumption ==
    /\ \E u, v \in Users : u # v /\ Users = {u, v}
    /\ MaxMessages \in Nat
    /\ None \notin Requests

VARIABLES
    friends,        \* whether the two have a row in friendships
    blocks,         \* those of the two who block the other
    room,           \* whether the row of conversations is committed
    seats,          \* conversation_members: the users with a committed row
    maker,          \* the execution whose transaction has inserted the room, or None
    clock,          \* created_at of the last message made; the processes' clocks agree
    messages,       \* chat_messages: the created_at of the stored ones
    updatedAt,      \* conversations.updated_at, 0 before the first message
    lastReadAt,     \* [Users -> last_read_at of the row, 0 before every message, as at joining]
    request,        \* [Requests -> the execution]
    left            \* history: those who have left the room

pair == <<friends, blocks>>
chat == <<clock, messages, updatedAt, lastReadAt>>
vars == <<friends, blocks, room, seats, maker, chat, request, left>>

-----------------------------------------------------------------------------
\* "readTo" is a read that names its message.
Operations == {"open", "send", "read", "readTo"}

Idle == [op |-> "idle"]

\* What an execution makes sure of before it writes.
Needs(op) == CASE op = "open" -> {"friend", "block"}
               [] op = "send" -> {"member", "block"}
               [] OTHER       -> {"member"}

\* todo: the checks not made yet; seated: members inserted by its transaction; stamp: of the
\* message it writes or marks; floor: updated_at, or the marker of the user, at its start;
\* overtaken: a check that it had made has ceased to hold.
Begun(op, u, at, floor) ==
    [op |-> op, user |-> u, at |-> at, todo |-> Needs(op), seated |-> {}, stamp |-> 0,
     floor |-> floor, overtaken |-> FALSE]

Holds(check, u) == CASE check = "friend" -> friends
                     [] check = "block"  -> blocks = {}
                     [] check = "member" -> u \in seats

At(q, at) == request[q] # Idle /\ request[q].at = at

GoesTo(q, at) == request' = [request EXCEPT ![q].at = at]

Ends(q) == request' = [request EXCEPT ![q] = Idle]

\* The executions of users when what some checks had found ceases to hold.
Overtaken(checks, users) ==
    [q \in Requests |->
       IF /\ request[q] # Idle
          /\ request[q].user \in users
          /\ checks \cap (Needs(request[q].op) \ request[q].todo) # {}
       THEN [request[q] EXCEPT !.overtaken = TRUE]
       ELSE request[q]]

-----------------------------------------------------------------------------
(* Checks                                                                  *)

\* A check that fails ends the execution with an error.
Checked(q, check) ==
    IF Holds(check, request[q].user)
    THEN request' = [request EXCEPT ![q].todo = @ \ {check}]
    ELSE Ends(q)

\* Mutant: the blocks of the user's own only.
CheckBlocksOneWay(q) ==
    /\ At(q, "check")
    /\ "block" \in request[q].todo
    /\ IF request[q].user \in blocks THEN Ends(q)
       ELSE request' = [request EXCEPT ![q].todo = @ \ {"block"}]
    /\ UNCHANGED <<pair, room, seats, maker, chat, left>>

\* isBlockedEitherWay.
CheckBlocks(q) ==
    /\ At(q, "check")
    /\ "block" \in request[q].todo
    /\ Checked(q, "block")
    /\ UNCHANGED <<pair, room, seats, maker, chat, left>>

\* isFriendOf, at the same time as the blocks.
CheckFriend(q) ==
    /\ At(q, "check")
    /\ "friend" \in request[q].todo
    /\ Checked(q, "friend")
    /\ UNCHANGED <<pair, room, seats, maker, chat, left>>

\* isMember: of an open that has found the room it is the last step.
IsMember(q) ==
    /\ At(q, "member")
    /\ IF request[q].op = "open" \/ request[q].user \notin seats
       THEN Ends(q)
       ELSE request' = [request EXCEPT ![q].todo = @ \ {"member"},
                                       ![q].at = IF request[q].op = "send" THEN "check" ELSE "find"]
    /\ UNCHANGED <<pair, room, seats, maker, chat, left>>

-----------------------------------------------------------------------------
(* GetOrCreateConversationUseCase                                           *)

Start(q, op, u, at, floor) ==
    /\ request[q] = Idle
    /\ request' = [request EXCEPT ![q] = Begun(op, u, at, floor)]
    /\ UNCHANGED <<pair, room, seats, maker, chat, left>>

StartOpen(q, u) == Start(q, "open", u, "look", 0)

FindExisting(q) ==
    /\ At(q, "look")
    /\ GoesTo(q, IF room THEN "member" ELSE "check")
    /\ UNCHANGED <<pair, room, seats, maker, chat, left>>

\* Mutant: the row of the room is committed by itself.
CreateRoomAlone(q) ==
    /\ At(q, "check")
    /\ request[q].op = "open" /\ request[q].todo = {}
    /\ maker = None
    /\ \/ room   /\ GoesTo(q, "again") /\ UNCHANGED <<room, maker>>
       \/ ~ room /\ GoesTo(q, "seat") /\ maker' = q /\ room' = TRUE
    /\ UNCHANGED <<pair, seats, chat, left>>

\* INSERT ... ON CONFLICT DO NOTHING waits for the transaction that has inserted the pair.
CreateDirectConversation(q) ==
    /\ At(q, "check")
    /\ request[q].op = "open" /\ request[q].todo = {}
    /\ maker = None
    /\ \/ room   /\ GoesTo(q, "again") /\ UNCHANGED maker
       \/ ~ room /\ GoesTo(q, "seat") /\ maker' = q
    /\ UNCHANGED <<pair, room, seats, chat, left>>

\* First the user, then the peer.
CreateMember(q) ==
    /\ At(q, "seat")
    /\ LET seated == request[q].seated
       IN  /\ seated # Users
           /\ request' = [request EXCEPT ![q].seated =
                            IF seated = {} THEN {request[q].user} ELSE Users]
    /\ UNCHANGED <<pair, room, seats, maker, chat, left>>

Commit(q) ==
    /\ At(q, "seat")
    /\ request[q].seated = Users
    /\ room' = TRUE
    /\ seats' = seats \union request[q].seated
    /\ maker' = None
    /\ Ends(q)
    /\ UNCHANGED <<pair, chat, left>>

\* The loser of the race looks again.
FindAgain(q) ==
    /\ At(q, "again")
    /\ IF room THEN GoesTo(q, "member") ELSE Ends(q)
    /\ UNCHANGED <<pair, room, seats, maker, chat, left>>

-----------------------------------------------------------------------------
(* LeaveConversationUseCase                                                 *)

\* The row of the member goes, with its marker; that of the room stays.
Leave(u) ==
    /\ u \in seats
    /\ seats' = seats \ {u}
    /\ lastReadAt' = [lastReadAt EXCEPT ![u] = 0]
    /\ left' = left \union {u}
    /\ request' = Overtaken({"member"}, {u})
    /\ UNCHANGED <<pair, room, maker, clock, messages, updatedAt>>

-----------------------------------------------------------------------------
(* SendMessageUseCase                                                       *)

StartSend(q, u) == Start(q, "send", u, "member", updatedAt)

\* ChatMessageEntity.create gives created_at before the row is inserted.
CreateMessage(q) ==
    /\ At(q, "check")
    /\ request[q].op = "send" /\ request[q].todo = {}
    /\ clock < MaxMessages
    /\ clock' = clock + 1
    /\ request' = [request EXCEPT ![q].at = "store", ![q].stamp = clock + 1]
    /\ UNCHANGED <<pair, room, seats, maker, messages, updatedAt, lastReadAt, left>>

StoreMessage(q) ==
    /\ At(q, "store")
    /\ messages' = messages \union {request[q].stamp}
    /\ GoesTo(q, "touch")
    /\ UNCHANGED <<pair, room, seats, maker, clock, updatedAt, lastReadAt, left>>

\* touchUpdatedAt does not look at what it overwrites.
TouchUpdatedAt(q) ==
    /\ At(q, "touch")
    /\ updatedAt' = request[q].stamp
    /\ GoesTo(q, "notify")
    /\ UNCHANGED <<pair, room, seats, maker, clock, messages, lastReadAt, left>>

\* The members are told, and the peer is notified without a second look at the blocks.
Notify(q) ==
    /\ At(q, "notify")
    /\ Ends(q)
    /\ UNCHANGED <<pair, room, seats, maker, chat, left>>

-----------------------------------------------------------------------------
(* MarkReadUseCase                                                          *)

StartRead(q, u, op) == Start(q, op, u, "member", lastReadAt[u])

\* The message the client names, or the latest of the room; without one there is no update.
FindMessages(q) ==
    /\ At(q, "find")
    /\ \/ messages = {} /\ Ends(q)
       \/ \E s \in messages :
             /\ request[q].op = "read" => \A t \in messages : t <= s
             /\ request' = [request EXCEPT ![q].at = "update", ![q].stamp = s]
    /\ UNCHANGED <<pair, room, seats, maker, chat, left>>

\* The UPDATE of the member's row, if it is still there, takes any marker.
UpdateReadState(q) ==
    /\ At(q, "update")
    /\ lastReadAt' = IF request[q].user \in seats
                     THEN [lastReadAt EXCEPT ![request[q].user] = request[q].stamp]
                     ELSE lastReadAt
    /\ Ends(q)
    /\ UNCHANGED <<pair, room, seats, maker, clock, messages, updatedAt, left>>

-----------------------------------------------------------------------------
(* The two users meet and part (Relationship)                               *)

Befriend ==
    /\ ~ friends
    /\ friends' = TRUE
    /\ UNCHANGED <<blocks, room, seats, maker, chat, request, left>>

Unfriend ==
    /\ friends
    /\ friends' = FALSE
    /\ request' = Overtaken({"friend"}, Users)
    /\ UNCHANGED <<blocks, room, seats, maker, chat, left>>

\* One transaction ends the friendship and makes the block.
Block(u) ==
    /\ u \notin blocks
    /\ blocks' = blocks \union {u}
    /\ friends' = FALSE
    /\ request' = Overtaken({"friend", "block"}, Users)
    /\ UNCHANGED <<room, seats, maker, chat, left>>

Unblock(u) ==
    /\ u \in blocks
    /\ blocks' = blocks \ {u}
    /\ UNCHANGED <<friends, room, seats, maker, chat, request, left>>

-----------------------------------------------------------------------------
\* The process dies, or a query fails: an open transaction is rolled back.
Abandon(q) ==
    /\ request[q] # Idle
    /\ Ends(q)
    /\ maker' = IF maker = q THEN None ELSE maker
    /\ UNCHANGED <<pair, room, seats, chat, left>>

Init ==
    /\ friends = FALSE /\ blocks = {}
    /\ room = FALSE /\ seats = {} /\ maker = None
    /\ clock = 0 /\ messages = {} /\ updatedAt = 0
    /\ lastReadAt = [u \in Users |-> 0]
    /\ request = [q \in Requests |-> Idle]
    /\ left = {}

Begin(q) ==
    \E u \in Users : \/ StartOpen(q, u) \/ StartSend(q, u)
                     \/ \E op \in {"read", "readTo"} : StartRead(q, u, op)

Open(q) == FindExisting(q) \/ CreateDirectConversation(q) \/ CreateMember(q) \/ Commit(q) \/ FindAgain(q)

Check(q) == CheckBlocks(q) \/ CheckFriend(q) \/ IsMember(q)

Send(q) == CreateMessage(q) \/ StoreMessage(q) \/ TouchUpdatedAt(q) \/ Notify(q)

MarkRead(q) == FindMessages(q) \/ UpdateReadState(q)

Meet == Befriend \/ Unfriend \/ \E u \in Users : Block(u) \/ Unblock(u)

Next ==
    \/ \E q \in Requests : Begin(q) \/ Check(q) \/ Open(q) \/ Send(q) \/ MarkRead(q) \/ Abandon(q)
    \/ \E u \in Users : Leave(u)
    \/ Meet

Spec == Init /\ [][Next]_vars

-----------------------------------------------------------------------------
(* Properties                                                              *)

Stamps == 0..MaxMessages

Places == {"look", "member", "check", "seat", "again", "store", "touch", "notify", "find", "update"}

Pending ==
    [op : Operations, user : Users, at : Places, todo : SUBSET {"friend", "block", "member"},
     seated : SUBSET Users, stamp : Stamps, floor : Stamps, overtaken : BOOLEAN]

\* The state keeps its shape, and only an execution inside its transaction holds the pair.
TypeOK ==
    /\ friends \in BOOLEAN /\ blocks \subseteq Users
    /\ room \in BOOLEAN /\ seats \subseteq Users /\ left \subseteq Users
    /\ clock \in Stamps /\ updatedAt \in Stamps
    /\ messages \subseteq Stamps
    /\ lastReadAt \in [Users -> Stamps]
    /\ request \in [Requests -> Pending \union {Idle}]
    /\ maker \in Requests \union {None}
    /\ \A q \in Requests : At(q, "seat") <=> maker = q

\* The members of a room are its two users without those who have left it: a failure never
\* leaves a room without members, and nobody is seated again (get-or-create-conversation).
SeatedUnlessLeft == seats = IF room THEN Users \ left ELSE {}

\* One of two concurrent opens creates the room, and the other finds it when it looks again.
LoserFindsRoom == \A q \in Requests : At(q, "again") => room

\* What an execution has checked still holds when it creates the room, stores the message or
\* notifies the peer, unless a block, the end of the friendship or a departure has come in
\* between (assertCanSend, isMember, isFriendOf).
CheckedHolds ==
    \A q \in Requests :
       request[q] # Idle /\ ~ request[q].overtaken
         => \A c \in Needs(request[q].op) \ request[q].todo : Holds(c, request[q].user)

\* The updated_at of the room and the marker of a user are written without a look at what
\* they were, but only requests that overlap, or a client that names an older message, take
\* them back behind what they were at the start of the request (touchUpdatedAt, updateReadState).
BackOnlyByOverlap ==
    [][\A q \in Requests :
          /\ At(q, "touch") /\ At(q, "notify")' => updatedAt' > request[q].floor
          /\ /\ At(q, "update") /\ request[q].op = "read"
             /\ request'[q] = Idle /\ lastReadAt' # lastReadAt
             => lastReadAt'[request[q].user] >= request[q].floor]_vars
=============================================================================
