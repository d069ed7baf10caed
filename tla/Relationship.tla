----------------------------- MODULE Relationship -----------------------------
(***************************************************************************)
(* Friend requests, friendships and blocks between users, under concurrent   *)
(* use cases.                                                               *)
(*                                                                         *)
(* A use case checks blocks, friendship and the daily limit with queries of  *)
(* their own, and then writes with a statement or a transaction that repeats *)
(* none of the checks.                                                      *)
(***************************************************************************)
EXTENDS Integers, FiniteSets

CONSTANTS
    Users,
    Meetings,           \* bound: <<actor, target>> of the use cases
    Requests,           \* concurrent executions of the use cases
    Watched,            \* the user whose friend requests of a day are counted
    DailyLimit          \* OUTGOING_REQUESTS_PER_UTC_DAY

ASSUME RelationshipAssumption ==
    /\ Meetings \subseteq {m \in Users \X Users : m[1] # m[2]}
    /\ IsFiniteSet(Meetings)
    /\ IsFiniteSet(Requests)
    /\ Watched \in Users
    /\ DailyLimit \in Nat \ {0}

VARIABLES
    asked,          \* friend_requests: <<from, to>>
    askedToday,     \* those whose created_at is of this day
    friends,        \* friendships: {low, high}
    blocks,         \* blocks: <<blocker, blocked>>
    request,        \* [Requests -> the execution]
    crossed,        \* history: pairs written to by a request that a block had overtaken
    sent            \* history: friend requests Watched has made this day, up to one above the limit

rows == <<asked, askedToday, friends, blocks>>
vars == <<asked, askedToday, friends, blocks, request, crossed, sent>>

-----------------------------------------------------------------------------
Checks == {"block", "friend", "limit"}

Idle == [op |-> "idle"]

\* todo: the checks not made yet; overtaken: the pair was blocked after the check of its
\* blocks; gone: the friend request was deleted after it was found; late: a day has begun
\* since the range of the day to count was taken.
Pending(op, u, v, todo) ==
    [op |-> op, meeting |-> <<u, v>>, todo |-> todo,
     overtaken |-> FALSE, gone |-> FALSE, late |-> FALSE]

Operations == {"send", "accept", "block"}

Starts(q, pending) ==
    /\ request[q] = Idle
    /\ request' = [request EXCEPT ![q] = pending]
    /\ UNCHANGED <<rows, crossed, sent>>

IsBlockedEitherWay(u, v) == <<u, v>> \in blocks \/ <<v, u>> \in blocks

SentToday(u) == {r \in askedToday : r[1] = u}

Actor(q)  == request[q].meeting[1]
Target(q) == request[q].meeting[2]
Pair(q)   == {Actor(q), Target(q)}

\* A write of q is next: its checks have been made.
Writes(q, op) == request[q] # Idle /\ request[q].op = op /\ request[q].todo = {}

Ends(q) == request' = [request EXCEPT ![q] = Idle]

\* Deleting friend requests leaves the acceptances that have found them without one.
Deleted(requests, executions) ==
    [q \in Requests |->
       IF executions[q] # Idle /\ executions[q].op = "accept"
            /\ <<executions[q].meeting[2], executions[q].meeting[1]>> \in requests
       THEN [executions[q] EXCEPT !.gone = TRUE]
       ELSE executions[q]]

\* A pair written to by a request that a block has overtaken.
Crosses(q) == crossed' = IF request[q].overtaken THEN crossed \union {Pair(q)} ELSE crossed

-----------------------------------------------------------------------------
(* Checks                                                                  *)

Checked(q, check, holds) ==
    /\ request[q] # Idle
    /\ check \in request[q].todo
    /\ \/ holds   /\ request' = [request EXCEPT ![q].todo = @ \ {check}]
       \/ ~ holds /\ Ends(q)
    /\ UNCHANGED <<rows, crossed, sent>>

\* Mutant: only the blocks that the actor has made count.
CheckOwnBlocks(q) == Checked(q, "block", <<Actor(q), Target(q)>> \notin blocks)

CheckBlocks(q) == Checked(q, "block", ~ IsBlockedEitherWay(Actor(q), Target(q)))

CheckFriendship(q) == Checked(q, "friend", Pair(q) \notin friends)

\* Mutant: the comparison is off by one.
CheckLimitLoosely(q) ==
    /\ request[q] # Idle
    /\ Checked(q, "limit", request[q].late \/ Cardinality(SentToday(Actor(q))) <= DailyLimit)

\* The count is of the rows that are still there, and of the day of the start: when that is
\* over, its rows, which the model has dropped, may be enough of them or not.
CheckLimit(q) ==
    /\ request[q] # Idle
    /\ \/ /\ request[q].late
          /\ \E few \in BOOLEAN : Checked(q, "limit", few)
       \/ /\ ~ request[q].late
          /\ Checked(q, "limit", Cardinality(SentToday(Actor(q))) < DailyLimit)

-----------------------------------------------------------------------------
(* Friend requests and friendships                                         *)

\* The three checks run at the same time and end in any order.
StartSend(q, u, v) == Starts(q, Pending("send", u, v, Checks))

\* Counts to one above the limit.
Sends(u) == sent' = IF u = Watched /\ sent <= DailyLimit THEN sent + 1 ELSE sent

\* A second request in the same direction violates the unique index and ends in an error.
CreatePendingRequest(q) ==
    LET r == <<Actor(q), Target(q)>>
    IN  /\ Writes(q, "send")
        /\ asked' = asked \union {r}
        /\ askedToday' = IF r \in asked THEN askedToday ELSE askedToday \union {r}
        /\ IF r \in asked THEN UNCHANGED <<crossed, sent>> ELSE Crosses(q) /\ Sends(Actor(q))
        /\ Ends(q)
        /\ UNCHANGED <<friends, blocks>>

\* Without a pending request there is nothing more to do, friends or not.
StartAccept(q, u, v) ==
    /\ <<v, u>> \in asked
    /\ Starts(q, Pending("accept", u, v, {"block"}))

\* Mutant: the accepter's id is taken for both.
AcceptItself(q) ==
    /\ Writes(q, "accept")
    /\ friends' = friends \union {{Actor(q)}}
    /\ Crosses(q)
    /\ Ends(q)
    /\ UNCHANGED <<asked, askedToday, blocks, sent>>

\* One transaction makes the friendship, if there is none, and deletes the request, if it
\* is still there.
Accept(q) ==
    LET r == <<Target(q), Actor(q)>>
    IN  /\ Writes(q, "accept")
        /\ friends' = friends \union {Pair(q)}
        /\ asked' = asked \ {r}
        /\ askedToday' = askedToday \ {r}
        /\ Crosses(q)
        /\ request' = [Deleted({r}, request) EXCEPT ![q] = Idle]
        /\ UNCHANGED <<blocks, sent>>

\* Decline and revoke are one DELETE, by the receiver or the sender.
DeletePendingRequest(u, v) ==
    /\ <<u, v>> \in asked
    /\ asked' = asked \ {<<u, v>>}
    /\ askedToday' = askedToday \ {<<u, v>>}
    /\ request' = Deleted({<<u, v>>}, request)
    /\ UNCHANGED <<friends, blocks, crossed, sent>>

Unfriend(u, v) ==
    /\ {u, v} \in friends
    /\ friends' = friends \ {{u, v}}
    /\ UNCHANGED <<asked, askedToday, blocks, request, crossed, sent>>

-----------------------------------------------------------------------------
(* Blocks                                                                  *)

StartBlock(q, u, v) == Starts(q, Pending("block", u, v, {"block"}))

Overtaken(pair, executions) ==
    [q \in Requests |->
       IF executions[q] # Idle /\ {executions[q].meeting[1], executions[q].meeting[2]} = pair
            /\ "block" \notin executions[q].todo
       THEN [executions[q] EXCEPT !.overtaken = TRUE]
       ELSE executions[q]]

\* Mutant: only the blocker's own request is deleted.
BlockOneWay(q) ==
    LET b == <<Actor(q), Target(q)>>
    IN  /\ Writes(q, "block")
        /\ b \notin blocks
        /\ friends' = friends \ {Pair(q)}
        /\ asked' = asked \ {b}
        /\ askedToday' = askedToday \ {b}
        /\ blocks' = blocks \union {b}
        /\ crossed' = IF request[q].overtaken THEN crossed ELSE crossed \ {Pair(q)}
        /\ request' = [Overtaken(Pair(q), Deleted({b}, request)) EXCEPT ![q] = Idle]
        /\ UNCHANGED sent

\* One transaction deletes the friendship and the requests both ways and makes the block;
\* a block that is there already violates the unique index and undoes it. What another
\* execution commits between the statements has not seen the block: it is as if it came after.
Block(q) ==
    LET b    == <<Actor(q), Target(q)>>
        both == {b, <<Target(q), Actor(q)>>}
    IN  /\ Writes(q, "block")
        /\ \/ /\ b \in blocks
              /\ Ends(q)
              /\ UNCHANGED <<asked, askedToday, friends, blocks, crossed>>
           \/ /\ b \notin blocks
              /\ friends' = friends \ {Pair(q)}
              /\ asked' = asked \ both
              /\ askedToday' = askedToday \ both
              /\ blocks' = blocks \union {b}
              /\ crossed' = IF request[q].overtaken THEN crossed \union {Pair(q)}
                            ELSE crossed \ {Pair(q)}
              /\ request' = [Overtaken(Pair(q), Deleted(both, request)) EXCEPT ![q] = Idle]
        /\ UNCHANGED sent

Unblock(u, v) ==
    /\ <<u, v>> \in blocks
    /\ blocks' = blocks \ {<<u, v>>}
    /\ UNCHANGED <<asked, askedToday, friends, request, crossed, sent>>

-----------------------------------------------------------------------------
\* The process dies, or the database fails, before the write.
Abandon(q) ==
    /\ request[q] # Idle
    /\ Ends(q)
    /\ UNCHANGED <<rows, crossed, sent>>

AwaitsLimit(q) == request[q] # Idle /\ "limit" \in request[q].todo

\* A UTC day begins: no row was created in it.
NewDay ==
    /\ request' = [q \in Requests |-> IF AwaitsLimit(q) THEN [request[q] EXCEPT !.late = TRUE]
                                     ELSE request[q]]
    /\ askedToday' = {}
    /\ sent' = 0
    /\ UNCHANGED <<asked, friends, blocks, crossed>>

Init ==
    /\ asked = {} /\ askedToday = {} /\ friends = {} /\ blocks = {}
    /\ request = [q \in Requests |-> Idle]
    /\ crossed = {}
    /\ sent = 0

Start(q, u, v) == StartSend(q, u, v) \/ StartAccept(q, u, v) \/ StartBlock(q, u, v)

Check(q) == CheckBlocks(q) \/ CheckFriendship(q) \/ CheckLimit(q)

Write(q) == CreatePendingRequest(q) \/ Accept(q) \/ Block(q)

Next ==
    \/ \E q \in Requests : Check(q) \/ Write(q) \/ Abandon(q)
    \/ \E q \in Requests, m \in Meetings : Start(q, m[1], m[2])
    \/ \E m \in Meetings : \/ DeletePendingRequest(m[1], m[2]) \/ Unfriend(m[1], m[2])
                           \/ Unblock(m[1], m[2])
    \/ NewDay

Spec == Init /\ [][Next]_vars

-----------------------------------------------------------------------------
(* Properties                                                              *)

PendingState ==
    [op : Operations, meeting : Meetings, todo : SUBSET Checks,
     overtaken : BOOLEAN, gone : BOOLEAN, late : BOOLEAN]

Pairs == {{m[1], m[2]} : m \in Meetings}

\* The state keeps its shape: friends are two users that meet, and the requests of today
\* are requests.
TypeOK ==
    /\ asked \subseteq Meetings
    /\ askedToday \subseteq asked
    /\ friends \subseteq Pairs /\ crossed \subseteq Pairs
    /\ blocks \subseteq Meetings
    /\ request \in [Requests -> PendingState \union {Idle}]
    /\ sent \in 0..(DailyLimit + 1)

\* An execution that has found its pair without blocks still finds it so at its write,
\* unless a block has been made in between (isBlockedEitherWay).
CheckedHolds ==
    \A q \in Requests :
       request[q] # Idle /\ "block" \notin request[q].todo /\ ~ request[q].overtaken
         => ~ IsBlockedEitherWay(Actor(q), Target(q))

\* Two users of whom one blocks the other are no friends and ask each other for nothing,
\* unless an acceptance, a request or a second block was between its check and its write
\* when the block was made (BlockUserUseCase and the writers it races with).
ApartUnlessCrossed ==
    \A b \in blocks : {b[1], b[2]} \notin crossed =>
       /\ {b[1], b[2]} \notin friends
       /\ b \notin asked /\ <<b[2], b[1]>> \notin asked
       /\ <<b[2], b[1]>> \notin blocks

\* The sends of u that have found the limit not reached.
PastLimit(u) ==
    {q \in Requests : /\ request[q] # Idle /\ request[q].op = "send"
                      /\ Actor(q) = u /\ "limit" \notin request[q].todo}

\* The sends that pass the limit together are all that can exceed it: however requests are
\* made, answered and revoked, the rows of a sender and a day and the inserts to come are
\* fewer than the limit and the executions together (countOutgoingRequestsCreatedOnUtcDay).
LimitPlusConcurrent ==
    \A u \in Users :
       Cardinality(SentToday(u)) + Cardinality(PastLimit(u)) < DailyLimit + Cardinality(Requests)

\* A friendship is made of a request to the one who accepts it that is still there or was
\* deleted only after the acceptance had found it (AcceptIncomingRequestUseCase).
FriendshipWasAsked ==
    [][\A p \in friends' \ friends :
          \E q \in Requests :
             /\ request[q] # Idle /\ Pair(q) = p
             /\ request[q].gone \/ <<Target(q), Actor(q)>> \in asked]_vars

\* A user makes no more than the limit of friend requests a day (send-friend-request).
AtMostLimitADay == sent <= DailyLimit
=============================================================================
