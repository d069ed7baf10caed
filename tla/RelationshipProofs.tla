-------------------------- MODULE RelationshipProofs --------------------------
(***************************************************************************)
(* Theorems about Relationship, for any users, any number of concurrent      *)
(* executions and every daily limit.                                         *)
(***************************************************************************)
EXTENDS Relationship, FiniteSetTheorems, TLAPS

-----------------------------------------------------------------------------
(* Type correctness                                                        *)

\* No pending execution is the idle one: their fields differ.
LEMMA IdleIsNotPending == Idle \notin PendingState
BY DEF Idle, PendingState

LEMMA PendingType ==
    ASSUME NEW m \in Meetings, NEW op \in Operations, NEW todo \in SUBSET Checks
    PROVE  Pending(op, m[1], m[2], todo) \in PendingState
BY RelationshipAssumption DEF Pending, PendingState

LEMMA StartType ==
    ASSUME TypeOK, NEW q \in Requests, NEW m \in Meetings, Start(q, m[1], m[2])
    PROVE  TypeOK'
<1>1. \E p \in PendingState : Starts(q, p)
  BY PendingType DEF Start, StartSend, StartAccept, StartBlock,
                     Operations, Checks
<1>2. QED
  BY <1>1 DEF Starts, rows, TypeOK

\* An execution that ends.
LEMMA EndsType ==
    ASSUME TypeOK, NEW q \in Requests, Ends(q)
    PROVE  request' \in [Requests -> PendingState \union {Idle}]
BY DEF TypeOK, Ends

\* The execution of a step past its start.
LEMMA ActorType ==
    ASSUME TypeOK, NEW q \in Requests, request[q] # Idle
    PROVE  /\ request[q] \in PendingState
           /\ <<Actor(q), Target(q)>> \in Meetings
           /\ Pair(q) \in Pairs
<1>1. request[q] \in PendingState
  BY DEF TypeOK
<1>2. <<Actor(q), Target(q)>> \in Meetings
  BY <1>1, RelationshipAssumption DEF PendingState, Actor, Target
<1>3. QED
  BY <1>1, <1>2 DEF Pair, Pairs

LEMMA CheckedType ==
    ASSUME TypeOK, NEW q \in Requests, NEW check, NEW holds, Checked(q, check, holds)
    PROVE  TypeOK'
<1>1. request' \in [Requests -> PendingState \union {Idle}]
  <2>1. CASE Ends(q)
    BY <2>1, EndsType
  <2>2. CASE request' = [request EXCEPT ![q].todo = @ \ {check}]
    <3>1. request[q] \in PendingState
      BY ActorType DEF Checked
    <3>2. QED
      BY <2>2, <3>1 DEF TypeOK, PendingState
  <2>3. QED
    BY <2>1, <2>2 DEF Checked
<1>2. QED
  BY <1>1 DEF Checked, rows, TypeOK

LEMMA CheckType ==
    ASSUME TypeOK, NEW q \in Requests, Check(q)
    PROVE  TypeOK'
<1>1. CASE CheckBlocks(q)
  BY <1>1, CheckedType DEF CheckBlocks, IsBlockedEitherWay
<1>2. CASE CheckFriendship(q)
  BY <1>2, CheckedType DEF CheckFriendship
<1>3. CASE CheckLimit(q)
  BY <1>3, CheckedType DEF CheckLimit
<1>4. QED
  BY <1>1, <1>2, <1>3 DEF Check

LEMMA DeletedType ==
    ASSUME NEW executions \in [Requests -> PendingState \union {Idle}], NEW requests
    PROVE  Deleted(requests, executions) \in [Requests -> PendingState \union {Idle}]
<1> SUFFICES ASSUME NEW q \in Requests, executions[q] # Idle
             PROVE  [executions[q] EXCEPT !.gone = TRUE] \in PendingState
  BY DEF Deleted
<1>1. executions[q] \in PendingState
  OBVIOUS
<1>2. QED
  BY <1>1 DEF PendingState

LEMMA OvertakenType ==
    ASSUME NEW executions \in [Requests -> PendingState \union {Idle}], NEW pair
    PROVE  Overtaken(pair, executions) \in [Requests -> PendingState \union {Idle}]
<1> SUFFICES ASSUME NEW q \in Requests, executions[q] # Idle
             PROVE  [executions[q] EXCEPT !.overtaken = TRUE] \in PendingState
  BY DEF Overtaken
<1>1. executions[q] \in PendingState
  OBVIOUS
<1>2. QED
  BY <1>1 DEF PendingState

LEMMA WriteType ==
    ASSUME TypeOK, NEW q \in Requests, Write(q)
    PROVE  TypeOK'
<1>1. request[q] # Idle
  BY DEF Write, Writes, CreatePendingRequest, Accept, Block
<1>2. <<Actor(q), Target(q)>> \in Meetings /\ Pair(q) \in Pairs
  BY <1>1, ActorType
<1>3. CASE CreatePendingRequest(q)
  <2>1. request' \in [Requests -> PendingState \union {Idle}]
    BY <1>3, EndsType DEF CreatePendingRequest
  <2>2. crossed' \subseteq Pairs
    BY <1>2, <1>3 DEF CreatePendingRequest, Crosses, TypeOK
  <2>3. sent' \in 0..(DailyLimit + 1)
    BY <1>3, RelationshipAssumption DEF CreatePendingRequest, Sends, TypeOK
  <2>4. QED
    BY <1>2, <1>3, <2>1, <2>2, <2>3 DEF CreatePendingRequest, TypeOK
<1>4. CASE Accept(q)
  <2>1. request' \in [Requests -> PendingState \union {Idle}]
    BY <1>4, DeletedType DEF Accept, TypeOK
  <2>2. crossed' \subseteq Pairs
    BY <1>2, <1>4 DEF Accept, Crosses, TypeOK
  <2>3. QED
    BY <1>2, <1>4, <2>1, <2>2 DEF Accept, TypeOK
<1>5. CASE Block(q)
  <2>1. request' \in [Requests -> PendingState \union {Idle}]
    BY <1>5, DeletedType, OvertakenType, EndsType DEF Block, TypeOK
  <2>2. crossed' \subseteq Pairs
    BY <1>2, <1>5 DEF Block, TypeOK
  <2>3. QED
    BY <1>2, <1>5, <2>1, <2>2 DEF Block, TypeOK
<1>6. QED
  BY <1>3, <1>4, <1>5 DEF Write

\* The state keeps its shape (TypeOK), whatever the users do and in whatever order.
THEOREM TypeCorrect == Spec => []TypeOK
<1>1. Init => TypeOK
  BY RelationshipAssumption DEF Init, TypeOK
<1>2. TypeOK /\ [Next]_vars => TypeOK'
  <2> SUFFICES ASSUME TypeOK, [Next]_vars PROVE TypeOK'
    OBVIOUS
  <2>1. ASSUME NEW q \in Requests, Check(q) \/ Write(q) PROVE TypeOK'
    BY <2>1, CheckType, WriteType
  <2>2. ASSUME NEW q \in Requests, Abandon(q) PROVE TypeOK'
    BY <2>2, EndsType DEF Abandon, rows, TypeOK
  <2>3. ASSUME NEW q \in Requests, NEW m \in Meetings, Start(q, m[1], m[2]) PROVE TypeOK'
    BY <2>3, StartType
  <2>4. ASSUME NEW m \in Meetings, DeletePendingRequest(m[1], m[2]) PROVE TypeOK'
    <3>1. request' \in [Requests -> PendingState \union {Idle}]
      BY <2>4, DeletedType DEF DeletePendingRequest, TypeOK
    <3>2. QED
      BY <2>4, <3>1 DEF DeletePendingRequest, TypeOK
  <2>5. ASSUME NEW m \in Meetings, Unfriend(m[1], m[2]) \/ Unblock(m[1], m[2]) PROVE TypeOK'
    BY <2>5 DEF Unfriend, Unblock, TypeOK
  <2>6. CASE NewDay
    <3>1. request' \in [Requests -> PendingState \union {Idle}]
      <4> SUFFICES ASSUME NEW q \in Requests, request[q] # Idle
                   PROVE  [request[q] EXCEPT !.late = TRUE] \in PendingState
        BY <2>6 DEF NewDay, AwaitsLimit, TypeOK
      <4>1. QED
        BY ActorType DEF PendingState
    <3>2. QED
      BY <2>6, <3>1, RelationshipAssumption DEF NewDay, TypeOK
  <2>7. CASE UNCHANGED vars
    BY <2>7 DEF vars, TypeOK
  <2>8. QED
    BY <2>1, <2>2, <2>3, <2>4, <2>5, <2>6, <2>7 DEF Next
<1>3. QED
  BY <1>1, <1>2, PTL DEF Spec

-----------------------------------------------------------------------------
(* Checks of blocks                                                        *)

\* What an execution has checked goes on to hold for the steps that neither make a block
\* nor let an execution go past its check of the blocks.
LEMMA KeepsChecked ==
    ASSUME CheckedHolds, blocks' \subseteq blocks,
           \A q \in Requests :
              request'[q] # Idle => \/ request[q] # Idle /\ request'[q].meeting = request[q].meeting
                                      /\ request'[q].overtaken = request[q].overtaken
                                      /\ ("block" \in request[q].todo => "block" \in request'[q].todo)
                                   \/ "block" \in request'[q].todo
    PROVE  CheckedHolds'
BY DEF CheckedHolds, IsBlockedEitherWay, Actor, Target

\* The day of an execution is all that a new day changes of it.
LEMMA NewDayKeeps ==
    ASSUME TypeOK, NewDay, NEW q \in Requests, request'[q] # Idle
    PROVE  /\ request[q] # Idle
           /\ request'[q].op = request[q].op
           /\ request'[q].meeting = request[q].meeting
           /\ request'[q].todo = request[q].todo
           /\ request'[q].overtaken = request[q].overtaken
           /\ request'[q].gone = request[q].gone
<1>1. CASE AwaitsLimit(q)
  <2>1. request[q] \in PendingState
    BY <1>1, ActorType DEF AwaitsLimit
  <2>2. request'[q] = [request[q] EXCEPT !.late = TRUE]
    BY <1>1 DEF NewDay
  <2>3. QED
    BY <1>1, <2>1, <2>2 DEF PendingState, AwaitsLimit
<1>2. CASE ~ AwaitsLimit(q)
  BY <1>2 DEF NewDay
<1>3. QED
  BY <1>1, <1>2

\* A write never finds its pair blocked unless it has been overtaken (CheckedHolds).
THEOREM ChecksHold == Spec => []CheckedHolds
<1>1. Init => CheckedHolds
  BY DEF Init, CheckedHolds
<1>2. TypeOK /\ CheckedHolds /\ [Next]_vars => CheckedHolds'
  <2> SUFFICES ASSUME TypeOK, CheckedHolds, [Next]_vars PROVE CheckedHolds'
    OBVIOUS
  <2> USE DEF PendingState, TypeOK
  <2>1. ASSUME NEW q \in Requests, CheckBlocks(q) PROVE CheckedHolds'
    BY <2>1 DEF CheckBlocks, Checked, Ends, rows, CheckedHolds, IsBlockedEitherWay, Actor, Target
  <2>2. ASSUME NEW q \in Requests, CheckFriendship(q) \/ CheckLimit(q) PROVE CheckedHolds'
    BY <2>2, KeepsChecked DEF CheckFriendship, CheckLimit, Checked, Ends, rows
  <2>3. ASSUME NEW q \in Requests, Block(q) PROVE CheckedHolds'
    <3>1. CASE <<Actor(q), Target(q)>> \in blocks
      BY <2>3, <3>1, KeepsChecked DEF Block, Ends
    <3>2. CASE <<Actor(q), Target(q)>> \notin blocks
      <4> SUFFICES ASSUME NEW e \in Requests, request'[e] # Idle,
                          "block" \notin request'[e].todo, ~ request'[e].overtaken
                   PROVE  ~ IsBlockedEitherWay(Actor(e), Target(e))'
        BY DEF CheckedHolds
      <4>1. e # q /\ request[e] # Idle /\ request'[e].meeting = request[e].meeting
        BY <2>3, <3>2 DEF Block, Overtaken, Deleted
      <4>2. "block" \notin request[e].todo /\ ~ request[e].overtaken
        BY <2>3, <3>2, <4>1 DEF Block, Overtaken, Deleted
      <4>3. {Actor(e), Target(e)} # Pair(q)
        BY <2>3, <3>2, <4>1, <4>2 DEF Block, Overtaken, Deleted, Actor, Target
      <4>4. ~ IsBlockedEitherWay(Actor(e), Target(e))
        BY <4>1, <4>2 DEF CheckedHolds
      <4>5. blocks' = blocks \union {<<Actor(q), Target(q)>>}
        BY <2>3, <3>2 DEF Block
      <4>6. Actor(e)' = Actor(e) /\ Target(e)' = Target(e)
        BY <4>1 DEF Actor, Target
      <4>7. QED
        BY <4>3, <4>4, <4>5, <4>6 DEF IsBlockedEitherWay, Pair
    <3>3. QED
      BY <3>1, <3>2
  <2>4. ASSUME NEW q \in Requests, CreatePendingRequest(q) \/ Abandon(q) PROVE CheckedHolds'
    BY <2>4, KeepsChecked DEF CreatePendingRequest, Abandon, Ends, rows
  <2>5. ASSUME NEW q \in Requests, Accept(q) PROVE CheckedHolds'
    BY <2>5, KeepsChecked DEF Accept, Deleted
  <2>6. ASSUME NEW q \in Requests, NEW m \in Meetings, Start(q, m[1], m[2]) PROVE CheckedHolds'
    BY <2>6, KeepsChecked DEF Start, StartSend, StartAccept, StartBlock,
                              Starts, Pending, Checks, rows
  <2>7. ASSUME NEW m \in Meetings, DeletePendingRequest(m[1], m[2]) PROVE CheckedHolds'
    BY <2>7, KeepsChecked DEF DeletePendingRequest, Deleted
  <2>8. ASSUME NEW m \in Meetings, Unfriend(m[1], m[2]) \/ Unblock(m[1], m[2]) PROVE CheckedHolds'
    BY <2>8, KeepsChecked DEF Unfriend, Unblock
  <2>9. CASE NewDay
    BY <2>9, KeepsChecked, NewDayKeeps DEF NewDay
  <2>10. CASE UNCHANGED vars
    BY <2>10, KeepsChecked DEF vars
  <2>11. QED
    BY <2>1, <2>2, <2>3, <2>4, <2>5, <2>6, <2>7, <2>8, <2>9, <2>10 DEF Next, Check, Write
<1>3. QED
  BY <1>1, <1>2, TypeCorrect, PTL DEF Spec

-----------------------------------------------------------------------------
(* Blocks and what they end                                                *)

\* A blocked pair is apart unless a request that a block had overtaken wrote to it
\* (ApartUnlessCrossed): the invariant is inductive with CheckedHolds.
THEOREM BlockedStayApart == Spec => []ApartUnlessCrossed
<1>1. Init => ApartUnlessCrossed
  BY DEF Init, ApartUnlessCrossed
<1>2. TypeOK /\ CheckedHolds /\ ApartUnlessCrossed /\ [Next]_vars => ApartUnlessCrossed'
  <2> SUFFICES ASSUME TypeOK, CheckedHolds, ApartUnlessCrossed, [Next]_vars
               PROVE  ApartUnlessCrossed'
    OBVIOUS
  <2>1. ASSUME NEW q \in Requests, CreatePendingRequest(q) PROVE ApartUnlessCrossed'
    <3>1. CASE request[q].overtaken \/ <<Actor(q), Target(q)>> \in asked
      BY <2>1, <3>1 DEF CreatePendingRequest, Crosses, ApartUnlessCrossed, Pair
    <3>2. CASE ~ request[q].overtaken /\ <<Actor(q), Target(q)>> \notin asked
      <4>1. ~ IsBlockedEitherWay(Actor(q), Target(q))
        BY <2>1, <3>2 DEF CreatePendingRequest, Writes, CheckedHolds
      <4> DEFINE r == <<Actor(q), Target(q)>>
      <4>2. \A b \in blocks : b # r /\ <<b[2], b[1]>> # r
        BY <4>1, RelationshipAssumption DEF IsBlockedEitherWay, TypeOK
      <4>3. asked' = asked \union {r} /\ UNCHANGED <<friends, blocks, crossed>>
        BY <2>1, <3>2 DEF CreatePendingRequest, Crosses
      <4>4. QED
        BY <4>2, <4>3 DEF ApartUnlessCrossed
    <3>3. QED
      BY <3>1, <3>2
  <2>2. ASSUME NEW q \in Requests, Accept(q) PROVE ApartUnlessCrossed'
    <3>1. CASE request[q].overtaken
      BY <2>2, <3>1 DEF Accept, Crosses, ApartUnlessCrossed
    <3>2. CASE ~ request[q].overtaken
      <4>1. ~ IsBlockedEitherWay(Actor(q), Target(q))
        BY <2>2, <3>2 DEF Accept, Writes, CheckedHolds
      <4>2. \A b \in blocks : {b[1], b[2]} # Pair(q)
        BY <4>1, RelationshipAssumption DEF IsBlockedEitherWay, Pair, TypeOK
      <4>3. QED
        BY <2>2, <3>2, <4>2 DEF Accept, Crosses, ApartUnlessCrossed
    <3>3. QED
      BY <3>1, <3>2
  <2>3. ASSUME NEW q \in Requests, Block(q) PROVE ApartUnlessCrossed'
    <3> DEFINE mine == <<Actor(q), Target(q)>>
    <3>1. CASE mine \in blocks
      BY <2>3, <3>1 DEF Block, ApartUnlessCrossed
    <3>2. CASE mine \notin blocks
      <4>1. ~ request[q].overtaken => ~ IsBlockedEitherWay(Actor(q), Target(q))
        BY <2>3 DEF Block, Writes, CheckedHolds
      <4>2. /\ friends' = friends \ {Pair(q)}
            /\ asked' = asked \ {mine, <<Target(q), Actor(q)>>}
            /\ blocks' = blocks \union {mine}
            /\ crossed' = IF request[q].overtaken THEN crossed \union {Pair(q)} ELSE crossed \ {Pair(q)}
        BY <2>3, <3>2 DEF Block
      <4> SUFFICES ASSUME NEW b \in blocks', {b[1], b[2]} \notin crossed'
                   PROVE  /\ {b[1], b[2]} \notin friends'
                          /\ b \notin asked' /\ <<b[2], b[1]>> \notin asked'
                          /\ <<b[2], b[1]>> \notin blocks'
        BY DEF ApartUnlessCrossed
      <4>3. CASE {b[1], b[2]} # Pair(q)
        BY <4>2, <4>3 DEF ApartUnlessCrossed, Pair
      <4>4. CASE {b[1], b[2]} = Pair(q)
        <5>1. ~ IsBlockedEitherWay(Actor(q), Target(q)) /\ Actor(q) # Target(q)
          BY <2>3, <4>1, <4>2, <4>4, ActorType, RelationshipAssumption DEF Block, Writes
        <5>2. b = mine
          BY <4>2, <4>4, <5>1, RelationshipAssumption DEF IsBlockedEitherWay, Pair, TypeOK
        <5>3. QED
          BY <4>2, <4>4, <5>1, <5>2 DEF IsBlockedEitherWay
      <4>5. QED
        BY <4>3, <4>4
    <3>3. QED
      BY <3>1, <3>2
  <2>4. ASSUME NEW q \in Requests, Check(q) \/ Abandon(q) PROVE ApartUnlessCrossed'
    BY <2>4 DEF Check, CheckBlocks, CheckFriendship, CheckLimit, Checked, Abandon, rows, ApartUnlessCrossed
  <2>5. ASSUME NEW q \in Requests, NEW m \in Meetings, Start(q, m[1], m[2])
        PROVE  ApartUnlessCrossed'
    BY <2>5 DEF Start, StartSend, StartAccept, StartBlock, Starts, rows,
                ApartUnlessCrossed
  <2>6. ASSUME NEW m \in Meetings,
               \/ DeletePendingRequest(m[1], m[2])
               \/ Unfriend(m[1], m[2]) \/ Unblock(m[1], m[2])
        PROVE  ApartUnlessCrossed'
    BY <2>6 DEF DeletePendingRequest, Unfriend, Unblock, ApartUnlessCrossed
  <2>7. CASE NewDay \/ UNCHANGED vars
    BY <2>7 DEF NewDay, vars, ApartUnlessCrossed
  <2>8. QED
    BY <2>1, <2>2, <2>3, <2>4, <2>5, <2>6, <2>7 DEF Next, Write
<1>3. QED
  BY <1>1, <1>2, TypeCorrect, ChecksHold, PTL DEF Spec

-----------------------------------------------------------------------------
(* Friendships and the requests they are made of                           *)

\* An acceptance whose request has not been deleted since it was found still finds it.
AcceptFinds ==
    \A q \in Requests :
       request[q] # Idle /\ request[q].op = "accept" /\ ~ request[q].gone
         => <<Target(q), Actor(q)>> \in asked

\* The steps that delete no request and start no acceptance.
LEMMA KeepsFound ==
    ASSUME AcceptFinds, asked \subseteq asked',
           \A q \in Requests :
              request'[q] # Idle => \/ request[q] # Idle /\ request'[q].meeting = request[q].meeting
                                      /\ request'[q].op = request[q].op
                                      /\ request'[q].gone = request[q].gone
                                   \/ request'[q].op # "accept"
    PROVE  AcceptFinds'
BY DEF AcceptFinds, Actor, Target

\* The steps that delete requests and mark the acceptances of them.
LEMMA DeletesFound ==
    ASSUME TypeOK, AcceptFinds, NEW requests, asked' = asked \ requests,
           \A q \in Requests :
              request'[q] # Idle =>
                 /\ Deleted(requests, request)[q] # Idle
                 /\ request'[q].meeting = Deleted(requests, request)[q].meeting
                 /\ request'[q].op = Deleted(requests, request)[q].op
                 /\ request'[q].gone = Deleted(requests, request)[q].gone
    PROVE  AcceptFinds'
<1> SUFFICES ASSUME NEW q \in Requests, request'[q] # Idle, request'[q].op = "accept",
                    ~ request'[q].gone
             PROVE  <<Target(q), Actor(q)>>' \in asked'
  BY DEF AcceptFinds
<1> DEFINE found == <<request[q].meeting[2], request[q].meeting[1]>>
<1>1. request[q] # Idle
  BY DEF Deleted
<1>2. request[q] \in PendingState
  BY <1>1, ActorType
<1>3. /\ request'[q].meeting = request[q].meeting /\ request[q].op = "accept"
      /\ ~ request[q].gone /\ found \notin requests
  BY <1>1, <1>2 DEF Deleted, PendingState
<1>4. QED
  BY <1>1, <1>3 DEF AcceptFinds, Actor, Target

\* A friendship is made of a request that its acceptance has found, and only a revocation,
\* another acceptance or a block in between can have taken it away (FriendshipWasAsked).
THEOREM FriendsWereAsked == Spec => FriendshipWasAsked
<1>1. Init => AcceptFinds
  BY DEF Init, AcceptFinds
<1>2. TypeOK /\ AcceptFinds /\ [Next]_vars => AcceptFinds'
  <2> SUFFICES ASSUME TypeOK, AcceptFinds, [Next]_vars PROVE AcceptFinds'
    OBVIOUS
  <2> USE DEF PendingState, TypeOK
  <2>1. ASSUME NEW q \in Requests, Check(q) PROVE AcceptFinds'
    BY <2>1, KeepsFound DEF Check, CheckBlocks, CheckFriendship, CheckLimit, Checked, Ends, rows
  <2>2. ASSUME NEW q \in Requests, CreatePendingRequest(q) \/ Abandon(q) PROVE AcceptFinds'
    BY <2>2, KeepsFound DEF CreatePendingRequest, Abandon, Ends, rows
  <2>3. ASSUME NEW q \in Requests, Accept(q) PROVE AcceptFinds'
    <3> DEFINE requests == {<<Target(q), Actor(q)>>}
    <3>1. asked' = asked \ requests /\ request' = [Deleted(requests, request) EXCEPT ![q] = Idle]
      BY <2>3 DEF Accept
    <3> HIDE DEF requests
    <3>2. QED
      BY <3>1, DeletesFound DEF Deleted
  <2>4. ASSUME NEW q \in Requests, Block(q) PROVE AcceptFinds'
    <3>1. CASE <<Actor(q), Target(q)>> \in blocks
      BY <2>4, <3>1, KeepsFound DEF Block, Ends
    <3>2. CASE <<Actor(q), Target(q)>> \notin blocks
      <4> DEFINE both == {<<Actor(q), Target(q)>>, <<Target(q), Actor(q)>>}
      <4>1. /\ asked' = asked \ both
            /\ request' = [Overtaken(Pair(q), Deleted(both, request)) EXCEPT ![q] = Idle]
        BY <2>4, <3>2 DEF Block
      <4> HIDE DEF both
      <4>2. Deleted(both, request) \in [Requests -> PendingState \union {Idle}]
        BY DeletedType
      <4>3. ASSUME NEW e \in Requests, request'[e] # Idle
            PROVE  /\ Deleted(both, request)[e] # Idle
                   /\ request'[e].meeting = Deleted(both, request)[e].meeting
                   /\ request'[e].op = Deleted(both, request)[e].op
                   /\ request'[e].gone = Deleted(both, request)[e].gone
        BY <4>1, <4>2, <4>3 DEF Overtaken
      <4>4. QED
        BY <4>1, <4>3, DeletesFound
    <3>3. QED
      BY <3>1, <3>2
  <2>5. ASSUME NEW q \in Requests, NEW m \in Meetings, Start(q, m[1], m[2]) PROVE AcceptFinds'
    <3>1. CASE StartAccept(q, m[1], m[2])
      BY <3>1 DEF StartAccept, Starts, Pending, rows, AcceptFinds, Actor, Target
    <3>2. CASE ~ StartAccept(q, m[1], m[2])
      BY <2>5, <3>2, KeepsFound DEF Start, StartSend, StartBlock, Starts,
                                    Pending, rows
    <3>3. QED
      BY <3>1, <3>2
  <2>6. ASSUME NEW m \in Meetings, DeletePendingRequest(m[1], m[2]) PROVE AcceptFinds'
    BY <2>6, DeletesFound DEF DeletePendingRequest
  <2>7. ASSUME NEW m \in Meetings, Unfriend(m[1], m[2]) \/ Unblock(m[1], m[2]) PROVE AcceptFinds'
    BY <2>7, KeepsFound DEF Unfriend, Unblock
  <2>8. CASE NewDay
    BY <2>8, KeepsFound, NewDayKeeps DEF NewDay
  <2>9. CASE UNCHANGED vars
    BY <2>9, KeepsFound DEF vars
  <2>10. QED
    BY <2>1, <2>2, <2>3, <2>4, <2>5, <2>6, <2>7, <2>8, <2>9 DEF Next, Write
<1>3. ASSUME TypeOK, AcceptFinds, [Next]_vars, NEW p \in friends' \ friends
      PROVE  \E q \in Requests :
                /\ request[q] # Idle /\ Pair(q) = p
                /\ request[q].gone \/ <<Target(q), Actor(q)>> \in asked
  <2>1. PICK q \in Requests : Accept(q)
    BY <1>3 DEF Next, vars, rows, Check, CheckBlocks, CheckFriendship, CheckLimit, Checked, Write,
                CreatePendingRequest, Block, Abandon, Start,
                StartSend, StartAccept, StartBlock, Starts,
                DeletePendingRequest, Unfriend, Unblock, NewDay
  <2>2. request[q] # Idle /\ Pair(q) = p /\ request[q].op = "accept"
    BY <1>3, <2>1 DEF Accept, Writes
  <2>3. QED
    BY <1>3, <2>2 DEF AcceptFinds
<1>4. TypeOK /\ AcceptFinds /\ [Next]_vars =>
        [\A p \in friends' \ friends :
           \E q \in Requests :
              /\ request[q] # Idle /\ Pair(q) = p
              /\ request[q].gone \/ <<Target(q), Actor(q)>> \in asked]_vars
  BY <1>3
<1>5. QED
  BY <1>1, <1>2, <1>4, TypeCorrect, PTL DEF Spec, FriendshipWasAsked

-----------------------------------------------------------------------------
(* The daily limit                                                         *)

\* The sends of u that today's rows do not keep from inserting: they are past the limit, or
\* they count the rows of a day that is over.
Uncounted(u) ==
    {q \in Requests : /\ request[q] # Idle /\ request[q].op = "send" /\ Actor(q) = u
                      /\ "limit" \notin request[q].todo \/ request[q].late}

Within(u) ==
    Cardinality(SentToday(u)) + Cardinality(Uncounted(u)) < DailyLimit + Cardinality(Requests)

LEMMA FinitePart ==
    ASSUME NEW S, IsFiniteSet(S), NEW T, T \subseteq S
    PROVE  /\ IsFiniteSet(T)
           /\ Cardinality(T) \in Nat /\ Cardinality(S) \in Nat
           /\ Cardinality(T) <= Cardinality(S)
BY FS_Subset, FS_CardinalityType

LEMMA FiniteCounts ==
    ASSUME TypeOK, NEW u
    PROVE  /\ IsFiniteSet(SentToday(u)) /\ IsFiniteSet(Uncounted(u))
           /\ Cardinality(SentToday(u)) \in Nat /\ Cardinality(Uncounted(u)) \in Nat
<1>1. SentToday(u) \subseteq Meetings
  BY DEF SentToday, TypeOK
<1>2. Uncounted(u) \subseteq Requests
  BY DEF Uncounted
<1>3. QED
  BY <1>1, <1>2, FinitePart, RelationshipAssumption

\* Fewer rows and fewer sends to come.
LEMMA FewerWithin ==
    ASSUME TypeOK, NEW u, Within(u),
           SentToday(u)' \subseteq SentToday(u), Uncounted(u)' \subseteq Uncounted(u)
    PROVE  Within(u)'
<1>1. /\ Cardinality(SentToday(u))' \in Nat
      /\ Cardinality(SentToday(u))' <= Cardinality(SentToday(u))
  BY FiniteCounts, FinitePart
<1>2. /\ Cardinality(Uncounted(u))' \in Nat
      /\ Cardinality(Uncounted(u))' <= Cardinality(Uncounted(u))
  BY FiniteCounts, FinitePart
<1>3. Cardinality(Requests) \in Nat /\ DailyLimit \in Nat
  BY RelationshipAssumption, FS_CardinalityType
<1>4. QED
  BY <1>1, <1>2, <1>3, FiniteCounts DEF Within

\* The steps that insert nothing and let no send past the limit.
LEMMA KeepsWithin ==
    ASSUME TypeOK, NEW u, Within(u), askedToday' \subseteq askedToday,
           \A q \in Requests :
              request'[q] # Idle =>
                 \/ request'[q].op # "send"
                 \/ "limit" \in request'[q].todo /\ ~ request'[q].late
                 \/ /\ request[q] # Idle /\ request'[q].meeting = request[q].meeting
                    /\ request'[q].op = request[q].op
                    /\ request'[q].late = request[q].late
                    /\ "limit" \in request[q].todo => "limit" \in request'[q].todo
    PROVE  Within(u)'
<1>1. SentToday(u)' \subseteq SentToday(u)
  BY DEF SentToday
<1>2. Uncounted(u)' \subseteq Uncounted(u)
  BY DEF Uncounted, Actor
<1>3. QED
  BY <1>1, <1>2, FewerWithin

\* As many sends as there are executions, and fewer rows than the limit.
LEMMA FewRowsWithin ==
    ASSUME NEW u, Cardinality(SentToday(u))' \in Nat, Cardinality(SentToday(u))' < DailyLimit
    PROVE  Within(u)'
<1>1. Uncounted(u)' \subseteq Requests
  BY DEF Uncounted
<1>2. /\ Cardinality(Uncounted(u))' \in Nat /\ Cardinality(Requests) \in Nat
      /\ Cardinality(Uncounted(u))' <= Cardinality(Requests)
  BY <1>1, FinitePart, RelationshipAssumption
<1>3. QED
  BY <1>2, RelationshipAssumption DEF Within

\* The insert turns one of the sends to come into a row.
LEMMA InsertWithin ==
    ASSUME TypeOK, NEW u, Within(u), NEW q \in Requests, CreatePendingRequest(q)
    PROVE  Within(u)'
<1> DEFINE r == <<Actor(q), Target(q)>>
<1>1. request[q] # Idle /\ request[q].op = "send" /\ request[q].todo = {}
  BY DEF CreatePendingRequest, Writes
<1>2. request' = [request EXCEPT ![q] = Idle] /\ askedToday' \subseteq askedToday \union {r}
  BY DEF CreatePendingRequest, Ends
<1>3. Uncounted(u)' \subseteq Uncounted(u) \ {q}
  BY <1>2 DEF Uncounted, Actor, TypeOK
<1>4. CASE Actor(q) # u
  <2>1. SentToday(u)' \subseteq SentToday(u)
    BY <1>2, <1>4 DEF SentToday
  <2>2. QED
    BY <1>3, <2>1, FewerWithin
<1>5. CASE Actor(q) = u
  <2>1. SentToday(u)' \subseteq SentToday(u) \union {r}
    BY <1>2 DEF SentToday
  <2>2. q \in Uncounted(u)
    BY <1>1, <1>5 DEF Uncounted
  <2>3. /\ IsFiniteSet(SentToday(u) \union {r})
        /\ Cardinality(SentToday(u) \union {r}) <= Cardinality(SentToday(u)) + 1
    <3>1. IsFiniteSet(SentToday(u)) /\ Cardinality(SentToday(u)) \in Nat
      BY FiniteCounts
    <3> HIDE DEF r
    <3>2. /\ IsFiniteSet(SentToday(u) \union {r})
          /\ Cardinality(SentToday(u) \union {r})
               = IF r \in SentToday(u) THEN Cardinality(SentToday(u)) ELSE Cardinality(SentToday(u)) + 1
      BY <3>1, FS_AddElement
    <3>3. QED
      BY <3>1, <3>2
  <2>4. /\ IsFiniteSet(Uncounted(u) \ {q})
        /\ Cardinality(Uncounted(u) \ {q}) = Cardinality(Uncounted(u)) - 1
    <3>1. IsFiniteSet(Uncounted(u))
      BY FiniteCounts
    <3>2. QED
      BY <2>2, <3>1, FS_RemoveElement
  <2>5. /\ Cardinality(SentToday(u))' \in Nat
        /\ Cardinality(SentToday(u))' <= Cardinality(SentToday(u)) + 1
    BY <2>1, <2>3, FiniteCounts, FinitePart
  <2>6. /\ Cardinality(Uncounted(u))' \in Nat
        /\ Cardinality(Uncounted(u))' <= Cardinality(Uncounted(u)) - 1
    BY <1>3, <2>4, FiniteCounts, FinitePart
  <2>7. Cardinality(Requests) \in Nat /\ DailyLimit \in Nat
    BY RelationshipAssumption, FS_CardinalityType
  <2>8. QED
    BY <2>5, <2>6, <2>7, FiniteCounts DEF Within
<1>6. QED
  BY <1>4, <1>5

\* The count is exceeded by the executions that have it in common, and by no more
\* (LimitPlusConcurrent), for every limit and any number of executions.
THEOREM LimitHolds == Spec => []LimitPlusConcurrent
<1> DEFINE LimitInv == \A u \in Users : Within(u)
<1>1. Init => LimitInv
  <2> SUFFICES ASSUME Init, NEW u \in Users PROVE Within(u)
    OBVIOUS
  <2>1. SentToday(u) = {} /\ Uncounted(u) = {}
    BY DEF Init, SentToday, Uncounted
  <2>2. QED
    BY <2>1, FS_EmptySet, FS_CardinalityType, RelationshipAssumption DEF Within
<1>2. TypeOK /\ LimitInv /\ [Next]_vars => LimitInv'
  <2> SUFFICES ASSUME TypeOK, [Next]_vars, NEW u \in Users, Within(u) PROVE Within(u)'
    OBVIOUS
  <2> USE DEF PendingState, TypeOK
  <2>1. ASSUME NEW q \in Requests, CheckBlocks(q) \/ CheckFriendship(q) PROVE Within(u)'
    BY <2>1, KeepsWithin DEF CheckBlocks, CheckFriendship, Checked, Ends, rows
  <2>2. ASSUME NEW q \in Requests, CheckLimit(q) PROVE Within(u)'
    <3>1. CASE Actor(q) # u \/ request[q].late \/ Ends(q)
      <4>1. Uncounted(u)' \subseteq Uncounted(u)
        BY <2>2, <3>1 DEF CheckLimit, Checked, Ends, Uncounted, Actor
      <4>2. SentToday(u)' \subseteq SentToday(u)
        BY <2>2 DEF CheckLimit, Checked, rows, SentToday
      <4>3. QED
        BY <4>1, <4>2, FewerWithin
    <3>2. CASE Actor(q) = u /\ ~ request[q].late /\ ~ Ends(q)
      <4>1. Cardinality(SentToday(u)) < DailyLimit
        BY <2>2, <3>2 DEF CheckLimit, Checked
      <4>2. SentToday(u)' = SentToday(u)
        BY <2>2 DEF CheckLimit, Checked, rows, SentToday
      <4>3. QED
        BY <4>1, <4>2, FiniteCounts, FewRowsWithin
    <3>3. QED
      BY <3>1, <3>2
  <2>3. ASSUME NEW q \in Requests, CreatePendingRequest(q) PROVE Within(u)'
    BY <2>3, InsertWithin
  <2>4. ASSUME NEW q \in Requests, Abandon(q)
        PROVE  Within(u)'
    BY <2>4, KeepsWithin DEF Abandon, Ends, rows
  <2>5. ASSUME NEW q \in Requests, Accept(q) PROVE Within(u)'
    BY <2>5, KeepsWithin DEF Accept, Deleted
  <2>6. ASSUME NEW q \in Requests, Block(q) PROVE Within(u)'
    <3>1. CASE <<Actor(q), Target(q)>> \in blocks
      BY <2>6, <3>1, KeepsWithin DEF Block, Ends
    <3>2. CASE <<Actor(q), Target(q)>> \notin blocks
      <4> DEFINE both == {<<Actor(q), Target(q)>>, <<Target(q), Actor(q)>>}
      <4>1. /\ askedToday' \subseteq askedToday
            /\ request' = [Overtaken(Pair(q), Deleted(both, request)) EXCEPT ![q] = Idle]
        BY <2>6, <3>2 DEF Block
      <4> HIDE DEF both
      <4>2. Deleted(both, request) \in [Requests -> PendingState \union {Idle}]
        BY DeletedType
      <4>3. ASSUME NEW e \in Requests, request'[e] # Idle
            PROVE  /\ Deleted(both, request)[e] # Idle
                   /\ request'[e].meeting = Deleted(both, request)[e].meeting
                   /\ request'[e].op = Deleted(both, request)[e].op
                   /\ request'[e].todo = Deleted(both, request)[e].todo
                   /\ request'[e].late = Deleted(both, request)[e].late
        BY <4>1, <4>2, <4>3 DEF Overtaken
      <4>4. ASSUME NEW e \in Requests, request'[e] # Idle
            PROVE  /\ request[e] # Idle
                   /\ request'[e].meeting = request[e].meeting
                   /\ request'[e].op = request[e].op
                   /\ request'[e].todo = request[e].todo
                   /\ request'[e].late = request[e].late
        <5>1. request[e] # Idle
          BY <4>3, <4>4 DEF Deleted
        <5>2. request[e] \in PendingState
          BY <5>1, ActorType
        <5>3. QED
          BY <4>3, <4>4, <5>1, <5>2 DEF Deleted
      <4>5. QED
        BY <4>1, <4>4, KeepsWithin
    <3>3. QED
      BY <3>1, <3>2
  <2>7. ASSUME NEW q \in Requests, NEW m \in Meetings, Start(q, m[1], m[2]) PROVE Within(u)'
    BY <2>7, KeepsWithin DEF Start, StartSend, StartAccept, StartBlock,
                             Starts, Pending, Checks, rows
  <2>8. ASSUME NEW m \in Meetings, DeletePendingRequest(m[1], m[2]) PROVE Within(u)'
    BY <2>8, KeepsWithin DEF DeletePendingRequest, Deleted
  <2>9. ASSUME NEW m \in Meetings, Unfriend(m[1], m[2]) \/ Unblock(m[1], m[2]) PROVE Within(u)'
    BY <2>9, KeepsWithin DEF Unfriend, Unblock
  <2>10. CASE NewDay
    <3>1. SentToday(u)' = {}
      BY <2>10 DEF NewDay, SentToday
    <3>2. Cardinality(SentToday(u))' = 0
      BY <3>1, FS_EmptySet
    <3>3. QED
      BY <3>2, FewRowsWithin, RelationshipAssumption
  <2>11. CASE UNCHANGED vars
    BY <2>11, KeepsWithin DEF vars
  <2>12. QED
    BY <2>1, <2>2, <2>3, <2>4, <2>5, <2>6, <2>7, <2>8, <2>9, <2>10, <2>11 DEF Next, Check, Write
<1>3. TypeOK /\ LimitInv => LimitPlusConcurrent
  <2> SUFFICES ASSUME TypeOK, NEW u \in Users, Within(u)
               PROVE  Cardinality(SentToday(u)) + Cardinality(PastLimit(u))
                        < DailyLimit + Cardinality(Requests)
    BY DEF LimitPlusConcurrent
  <2>1. PastLimit(u) \subseteq Uncounted(u)
    BY DEF PastLimit, Uncounted
  <2>2. /\ Cardinality(PastLimit(u)) \in Nat
        /\ Cardinality(PastLimit(u)) <= Cardinality(Uncounted(u))
    BY <2>1, FiniteCounts, FinitePart
  <2>3. Cardinality(Requests) \in Nat /\ DailyLimit \in Nat
    BY RelationshipAssumption, FS_CardinalityType
  <2>4. QED
    BY <2>2, <2>3, FiniteCounts DEF Within
<1>4. QED
  BY <1>1, <1>2, <1>3, TypeCorrect, PTL DEF Spec
=============================================================================
