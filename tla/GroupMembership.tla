--------------------------- MODULE GroupMembership ---------------------------
(***************************************************************************)
(* The members of one group conversation and their roles, under concurrent  *)
(* requests: create, leave, kick, transfer the admin role, change a role,   *)
(* invite.  Every use case reads the rows it needs, checks them, and then   *)
(* writes with a statement that repeats none of the checks, so another      *)
(* request may run between the two.  The friendships an invitation asks     *)
(* for belong to the relationship module and change at any time.            *)
(***************************************************************************)
EXTENDS Integers, FiniteSets

CONSTANTS
    Users,
    NoUser,         \* the creator before the group exists
    Requests        \* concurrent executions of the group's use cases

ASSUME GroupAssumption == NoUser \notin Users /\ IsFiniteSet(Users)

VARIABLES
    members,        \* [Users -> the role in the user's row, "none" without a row]
    creator,        \* createdBy
    friends,        \* the friendships, pairs of users
    request         \* [Requests -> the execution]

vars == <<members, creator, friends, request>>

-----------------------------------------------------------------------------
Roles == {"MEMBER", "MANAGER", "ADMIN"}
Rank  == [none |-> 0, MEMBER |-> 1, MANAGER |-> 2, ADMIN |-> 3]

\* friendships_canonical_pair: two users, never one with itself.
Pairs == {{u, v} : u, v \in Users} \ {{u} : u \in Users}

IsFriendOf(u, v) == {u, v} \in friends

Members == {u \in Users : members[u] # "none"}
Admins  == {u \in Users : members[u] = "ADMIN"}

Idle == [op |-> "idle"]

\* A request past its checks of the two rows it read, at step pc.
Pending(op, actor, target, pc) ==
    [op |-> op, actor |-> actor, target |-> target, pc |-> pc,
     seenActor |-> members[actor], seenTarget |-> members[target], admins |-> 0]

Starts(q, pending) ==
    /\ request[q] = Idle
    /\ request' = [request EXCEPT ![q] = pending]
    /\ UNCHANGED <<members, creator, friends>>

\* The request ends; an exception and an answer look the same.
Ends(q) == request' = [request EXCEPT ![q] = Idle]

\* The step of q about to run.
At(q, op, pc) == request[q] # Idle /\ request[q].op = op /\ request[q].pc = pc

-----------------------------------------------------------------------------
(* Creating the group and leaving it                                       *)

\* The creator is filtered out of the member ids, and somebody must be left.
AreAllFriends(c, others) == c \notin others /\ others # {} /\ \A u \in others : IsFriendOf(c, u)

\* One transaction inserts the group and its members. Nobody else can name the group
\* before, so the check of the friendships is part of the step.
CreateGroup(c, others) ==
    /\ creator = NoUser
    /\ AreAllFriends(c, others)
    /\ members' = [u \in Users |-> IF u = c THEN "ADMIN"
                                   ELSE IF u \in others THEN "MEMBER" ELSE "none"]
    /\ creator' = c
    /\ UNCHANGED <<friends, request>>

\* Only an ADMIN goes on to count the admins.
StartLeave(q, u) ==
    /\ u \in Members
    /\ Starts(q, Pending("leave", u, u, IF members[u] = "ADMIN" THEN "count" ELSE "write"))

\* Mutant: the comparison is off by one.
CountAdminsLate(q) ==
    /\ At(q, "leave", "count")
    /\ IF Cardinality(Admins) = 0
       THEN Ends(q)
       ELSE request' = [request EXCEPT ![q].pc = "write", ![q].admins = Cardinality(Admins)]
    /\ UNCHANGED <<members, creator, friends>>

\* The last admin may not leave.
CountAdmins(q) ==
    /\ At(q, "leave", "count")
    /\ IF Cardinality(Admins) = 1
       THEN Ends(q)
       ELSE request' = [request EXCEPT ![q].pc = "write", ![q].admins = Cardinality(Admins)]
    /\ UNCHANGED <<members, creator, friends>>

\* deleteMember, for the leaver and for the kicked.
DeleteMember(q) ==
    /\ At(q, "leave", "write") \/ At(q, "kick", "write")
    /\ members' = [members EXCEPT ![request[q].target] = "none"]
    /\ Ends(q)
    /\ UNCHANGED <<creator, friends>>

-----------------------------------------------------------------------------
(* Kick, transfer, role changes: one query reads both rows                 *)

\* Mutant: a MANAGER kicks a MANAGER.
StartKickManagers(q, u, target) ==
    /\ u # target
    /\ members[u] \in {"ADMIN", "MANAGER"}
    /\ members[target] \in {"MEMBER", "MANAGER"}
    /\ Starts(q, Pending("kick", u, target, "write"))

StartKick(q, u, target) ==
    /\ u # target
    /\ members[u] \in {"ADMIN", "MANAGER"}
    /\ members[target] \in {"MEMBER", "MANAGER"}
    /\ members[u] = "MANAGER" => members[target] = "MEMBER"
    /\ Starts(q, Pending("kick", u, target, "write"))

StartTransfer(q, u, newAdmin) ==
    /\ u # newAdmin
    /\ members[u] = "ADMIN"
    /\ newAdmin \in Members
    /\ Starts(q, Pending("transfer", u, newAdmin, "write"))

\* Both updates in one transaction, each of whatever row there is by now.
TransferAdminRole(q) ==
    /\ At(q, "transfer", "write")
    /\ members' = [u \in Users |->
                      CASE members[u] = "none" -> "none"
                        [] members[u] # "none" /\ u = request[q].target -> "ADMIN"
                        [] members[u] # "none" /\ u = request[q].actor -> "MANAGER"
                        [] OTHER -> members[u]]
    /\ Ends(q)
    /\ UNCHANGED <<creator, friends>>

\* Mutant: the target may be an ADMIN.
StartUpdateRoleOfAnyone(q, u, target) ==
    /\ members[u] = "ADMIN"
    /\ target \in Members
    /\ Starts(q, Pending("role", u, target, "write"))

\* The requested role is the other one of MEMBER and MANAGER.
StartUpdateRole(q, u, target) ==
    /\ members[u] = "ADMIN"
    /\ members[target] \in {"MEMBER", "MANAGER"}
    /\ Starts(q, Pending("role", u, target, "write"))

NextRole(role) == IF role = "MEMBER" THEN "MANAGER" ELSE "MEMBER"

UpdateRole(q) ==
    /\ At(q, "role", "write")
    /\ members' = [members EXCEPT ![request[q].target] =
                      IF @ = "none" THEN "none" ELSE NextRole(request[q].seenTarget)]
    /\ Ends(q)
    /\ UNCHANGED <<creator, friends>>

-----------------------------------------------------------------------------
(* Invitations                                                             *)

\* The inviter's own row is read first.
StartInvite(q, u, invitee) ==
    /\ u \in Members
    /\ Starts(q, Pending("invite", u, invitee, "look"))

\* The invitee's row and the inviter's friendship are read in parallel; the unique index
\* repeats the first check at the insert.
LookAtInvitee(q) ==
    LET r == request[q]
    IN  /\ At(q, "invite", "look")
        /\ IF r.target \notin Members /\ IsFriendOf(r.actor, r.target)
           THEN request' = [request EXCEPT ![q].pc = "creator", ![q].seenTarget = "none"]
           ELSE Ends(q)
        /\ UNCHANGED <<members, creator, friends>>

\* The creator is asked for, member or not.
CheckCreatorFriend(q) ==
    /\ At(q, "invite", "creator")
    /\ IF IsFriendOf(creator, request[q].target)
       THEN request' = [request EXCEPT ![q].pc = "write"]
       ELSE Ends(q)
    /\ UNCHANGED <<members, creator, friends>>

\* The insert fails on conversation_members_conversation_user_unique if the row exists.
CreateMember(q) ==
    /\ At(q, "invite", "write")
    /\ members' = [members EXCEPT ![request[q].target] = IF @ = "none" THEN "MEMBER" ELSE @]
    /\ Ends(q)
    /\ UNCHANGED <<creator, friends>>

-----------------------------------------------------------------------------
\* A request dies before its write: a crash, or a database call that throws.
Abandon(q) ==
    /\ request[q] # Idle
    /\ Ends(q)
    /\ UNCHANGED <<members, creator, friends>>

\* The relationship module makes and ends friendships.
FriendshipChanges(pair) ==
    /\ friends' = IF pair \in friends THEN friends \ {pair} ELSE friends \union {pair}
    /\ UNCHANGED <<members, creator, request>>

Init ==
    /\ members = [u \in Users |-> "none"]
    /\ creator = NoUser
    /\ friends \in SUBSET Pairs
    /\ request = [q \in Requests |-> Idle]

Write(q) == DeleteMember(q) \/ TransferAdminRole(q) \/ UpdateRole(q) \/ CreateMember(q)

Start(q, u, v) == \/ StartKick(q, u, v) \/ StartTransfer(q, u, v)
                  \/ StartUpdateRole(q, u, v) \/ StartInvite(q, u, v)

Next ==
    \/ \E c \in Users, others \in SUBSET Users : CreateGroup(c, others)
    \/ \E q \in Requests, u \in Users : StartLeave(q, u)
    \/ \E q \in Requests, u, v \in Users : Start(q, u, v)
    \/ \E q \in Requests : \/ CountAdmins(q) \/ LookAtInvitee(q) \/ CheckCreatorFriend(q)
                           \/ Write(q) \/ Abandon(q)
    \/ \E pair \in Pairs : FriendshipChanges(pair)

Spec == Init /\ [][Next]_vars

-----------------------------------------------------------------------------
(* Properties                                                              *)

\* What the checks of a use case leave pending.
PendingState ==
    {p \in [op : {"leave", "kick", "transfer", "role", "invite"}, actor : Users, target : Users,
            pc : {"count", "look", "creator", "write"}, seenActor : Roles,
            seenTarget : Roles \union {"none"}, admins : Nat] :
        /\ p.op = "leave" => /\ p.actor = p.target
                             /\ p.pc = "write" /\ p.seenActor = "ADMIN" => p.admins # 1
        /\ p.op = "kick" => Rank[p.seenActor] > Rank[p.seenTarget]
        /\ p.op = "transfer" => p.seenActor = "ADMIN" /\ p.seenTarget \in Roles
        /\ p.op = "role" => p.seenActor = "ADMIN"
        /\ p.op \in {"kick", "role"} => p.seenTarget \in {"MEMBER", "MANAGER"}
        /\ p.op \in {"kick", "transfer", "role"} => p.actor # p.target /\ p.pc = "write"
        /\ p.op = "invite" /\ p.pc # "look" => p.seenTarget = "none"}

\* The state's shape; nobody is a member before the group exists.
TypeOK ==
    /\ members \in [Users -> Roles \union {"none"}]
    /\ creator \in Users \union {NoUser}
    /\ friends \subseteq Pairs
    /\ request \in [Requests -> PendingState \union {Idle}]
    /\ creator = NoUser => Members = {} /\ \A q \in Requests : request[q] = Idle

\* Nothing q checked has changed since.
Undisturbed(q) ==
    /\ members[request[q].actor] = request[q].seenActor
    /\ members[request[q].target] = request[q].seenTarget
    /\ request[q].op = "leave" /\ request[q].seenActor = "ADMIN"
         => Cardinality(Admins) = request[q].admins

\* The step is q's write, on the rows it checked.
UndisturbedWrite(q) ==
    /\ request[q] # Idle /\ request'[q] = Idle /\ members' # members
    /\ Undisturbed(q)

OneAdmin == \E u \in Users : Admins = {u}

\* The group has exactly one admin, until a write comes through whose checks another
\* request has overtaken: leave, kick, transfer and role changes keep it one by one.
OneAdminUnlessOvertaken ==
    [][OneAdmin => OneAdmin' \/ \E q \in Requests :
           /\ request[q] # Idle /\ request[q].pc = "write" /\ request'[q] = Idle
           /\ ~Undisturbed(q)]_vars

\* Ranks hold for what is not overtaken: the row of somebody else is removed by a higher
\* rank, changed by an ADMIN, and inserted as MEMBER (kick-member, update-member-role,
\* transfer-admin, invite-member).
UndisturbedObeysRanks ==
    [][\A q \in Requests : UndisturbedWrite(q) =>
           \A u \in Users \ {request[q].actor} : members'[u] # members[u] =>
               CASE members'[u] = "none" -> Rank[members[request[q].actor]] > Rank[members[u]]
                 [] members[u] = "none" -> members'[u] = "MEMBER"
                 [] OTHER -> members[request[q].actor] = "ADMIN"]_vars

TransferPending == \E q \in Requests : request[q] # Idle /\ request[q].op = "transfer"

\* A group that has lost its last admin, with no transfer under way, never finds another:
\* nobody can start a transfer, and nothing else makes an ADMIN, not even of the creator.
OrphanStays ==
    [][creator # NoUser /\ Admins = {} /\ ~TransferPending
           => Admins' = {} /\ ~TransferPending']_vars

\* A creator who has left is out for good: an invitation asks for the invitee's friendship
\* with the creator, and nobody is a friend of their own (invite-member).
CreatorGoneForGood ==
    [][creator # NoUser /\ creator \notin Members => creator \notin Members']_vars

\* "Do not allow the last admin to leave a group and leave it without any admin"
\* (leave-conversation): whoever is the only admin stays a member.
LastAdminNeverLeaves == [][\A u \in Users : Admins = {u} => u \in Members']_vars
=============================================================================
