----------------------------- MODULE GroupProofs -----------------------------
(***************************************************************************)
(* Proofs about GroupMembership, for every finite set of users and every    *)
(* number of concurrent requests.                                           *)
(***************************************************************************)
EXTENDS GroupMembership, FiniteSetTheorems, TLAPS

-----------------------------------------------------------------------------
(* Type correctness                                                        *)

\* No pending request is the idle one: their fields differ.
LEMMA IdleIsNotPending == Idle \notin PendingState
BY DEF Idle, PendingState

LEMMA AdminsCount == Cardinality(Admins) \in Nat
<1>1. IsFiniteSet(Admins)
  BY GroupAssumption, FS_Subset DEF Admins
<1> QED
  BY <1>1, FS_CardinalityType

\* A request that starts with a state its checks allow keeps the types.
LEMMA StartsType ==
    ASSUME TypeOK, NEW q \in Requests, NEW p \in PendingState, Starts(q, p),
           creator # NoUser
    PROVE  TypeOK'
BY DEF Starts, TypeOK, Members

\* The step of a request past its checks.
LEMMA PendingType ==
    ASSUME TypeOK, NEW q \in Requests, request[q] # Idle
    PROVE  /\ request[q] \in PendingState
           /\ creator \in Users
           /\ request[q].actor \in Users /\ request[q].target \in Users
BY DEF TypeOK, PendingState

\* A request that ends leaves the others as they are.
LEMMA EndsType ==
    ASSUME TypeOK, NEW q \in Requests, request[q] # Idle, Ends(q),
           members' \in [Users -> Roles \union {"none"}],
           UNCHANGED <<creator, friends>>
    PROVE  TypeOK'
<1>1. creator # NoUser
  BY DEF TypeOK
<1>2. request' \in [Requests -> PendingState \union {Idle}]
  BY DEF Ends, TypeOK
<1> QED
  BY <1>1, <1>2 DEF TypeOK, Members

\* A request that goes on without writing.
LEMMA GoesOnType ==
    ASSUME TypeOK, NEW q \in Requests, request[q] # Idle, NEW p \in PendingState,
           request' = [request EXCEPT ![q] = p],
           UNCHANGED <<members, creator, friends>>
    PROVE  TypeOK'
<1>1. creator # NoUser
  BY DEF TypeOK
<1> QED
  BY <1>1 DEF TypeOK, Members

LEMMA MembersExist ==
    ASSUME TypeOK, NEW u \in Users, members[u] # "none"
    PROVE  creator # NoUser /\ members[u] \in Roles
BY DEF TypeOK, Members, Roles

LEMMA CreateGroupType ==
    ASSUME TypeOK, NEW c \in Users, NEW others \in SUBSET Users, CreateGroup(c, others)
    PROVE  TypeOK'
<1>1. members' \in [Users -> Roles \union {"none"}]
  BY DEF CreateGroup, Roles
<1> QED
  BY <1>1, GroupAssumption DEF CreateGroup, TypeOK

LEMMA StartType ==
    ASSUME TypeOK, NEW q \in Requests, NEW u \in Users, NEW v \in Users,
           Start(q, u, v) \/ StartLeave(q, u)
    PROVE  TypeOK'
<1>1. CASE StartLeave(q, u)
  <2>1. creator # NoUser /\ members[u] \in Roles
    BY <1>1, MembersExist DEF StartLeave, Members
  <2>2. PICK p \in PendingState : Starts(q, p)
    <3>1. Pending("leave", u, u, IF members[u] = "ADMIN" THEN "count" ELSE "write")
             \in PendingState
      BY <2>1 DEF Pending, PendingState, Roles
    <3> QED
      BY <3>1, <1>1 DEF StartLeave
  <2> QED
    BY <2>1, <2>2, StartsType
<1>2. CASE StartKick(q, u, v)
  <2>1. creator # NoUser
    BY <1>2, MembersExist DEF StartKick
  <2>2. Pending("kick", u, v, "write") \in PendingState
    BY <1>2 DEF StartKick, Pending, PendingState, Roles, Rank
  <2> QED
    BY <1>2, <2>1, <2>2, StartsType DEF StartKick
<1>3. CASE StartTransfer(q, u, v)
  <2>1. creator # NoUser /\ members[v] \in Roles
    BY <1>3, MembersExist DEF StartTransfer, Members
  <2>2. Pending("transfer", u, v, "write") \in PendingState
    BY <1>3, <2>1 DEF StartTransfer, Pending, PendingState, Roles
  <2> QED
    BY <1>3, <2>1, <2>2, StartsType DEF StartTransfer
<1>4. CASE StartUpdateRole(q, u, v)
  <2>1. creator # NoUser
    BY <1>4, MembersExist DEF StartUpdateRole
  <2>2. Pending("role", u, v, "write") \in PendingState
    BY <1>4 DEF StartUpdateRole, Pending, PendingState, Roles
  <2> QED
    BY <1>4, <2>1, <2>2, StartsType DEF StartUpdateRole
<1>5. CASE StartInvite(q, u, v)
  <2>1. creator # NoUser /\ members[u] \in Roles
    BY <1>5, MembersExist DEF StartInvite, Members
  <2>2. Pending("invite", u, v, "look") \in PendingState
    BY <2>1 DEF TypeOK, Pending, PendingState, Roles
  <2> QED
    BY <1>5, <2>1, <2>2, StartsType DEF StartInvite
<1> QED
  BY <1>1, <1>2, <1>3, <1>4, <1>5 DEF Start

LEMMA GoesOn ==
    ASSUME TypeOK, NEW q \in Requests,
           CountAdmins(q) \/ LookAtInvitee(q) \/ CheckCreatorFriend(q)
    PROVE  TypeOK'
<1>1. request[q] # Idle /\ UNCHANGED <<members, creator, friends>>
  BY DEF CountAdmins, LookAtInvitee, CheckCreatorFriend, At
<1>2. request[q] \in PendingState
  BY <1>1, PendingType
<1>3. CASE Ends(q)
  <2>1. members' \in [Users -> Roles \union {"none"}]
    BY <1>1 DEF TypeOK
  <2> QED
    BY <1>1, <1>3, <2>1, EndsType
<1>4. CASE CountAdmins(q) /\ ~Ends(q)
  <2> DEFINE next == [request[q] EXCEPT !.pc = "write", !.admins = Cardinality(Admins)]
  <2>1. /\ Cardinality(Admins) # 1
        /\ request[q].op = "leave"
        /\ request' = [request EXCEPT ![q] = next]
    BY <1>1, <1>4 DEF CountAdmins, At
  <2>2. next \in PendingState
    BY <1>2, <2>1, AdminsCount DEF PendingState
  <2> QED
    BY <1>1, <2>1, <2>2, GoesOnType
<1>5. CASE LookAtInvitee(q) /\ ~Ends(q)
  <2> DEFINE next == [request[q] EXCEPT !.pc = "creator", !.seenTarget = "none"]
  <2>1. request[q].op = "invite" /\ request' = [request EXCEPT ![q] = next]
    BY <1>1, <1>5 DEF LookAtInvitee, At
  <2>2. next \in PendingState
    BY <1>2, <2>1 DEF PendingState
  <2> QED
    BY <1>1, <2>1, <2>2, GoesOnType
<1>6. CASE CheckCreatorFriend(q) /\ ~Ends(q)
  <2> DEFINE next == [request[q] EXCEPT !.pc = "write"]
  <2>1. /\ request[q].op = "invite" /\ request[q].pc = "creator"
        /\ request' = [request EXCEPT ![q] = next]
    BY <1>1, <1>6 DEF CheckCreatorFriend, At
  <2>2. next \in PendingState
    BY <1>2, <2>1 DEF PendingState
  <2> QED
    BY <1>1, <2>1, <2>2, GoesOnType
<1> QED
  BY <1>3, <1>4, <1>5, <1>6

\* What a write leaves of the members table.
LEMMA WriteType ==
    ASSUME TypeOK, NEW q \in Requests, Write(q)
    PROVE  TypeOK' /\ request[q] # Idle /\ request[q].pc = "write" /\ Ends(q)
<1>1. /\ request[q] # Idle /\ request[q].pc = "write" /\ Ends(q)
      /\ UNCHANGED <<creator, friends>>
  BY DEF Write, DeleteMember, TransferAdminRole, UpdateRole, CreateMember, At
<1>2. request[q] \in PendingState /\ request[q].target \in Users
  BY <1>1, PendingType
<1>3. members \in [Users -> Roles \union {"none"}]
  BY DEF TypeOK
<1>4. members' \in [Users -> Roles \union {"none"}]
  <2>1. CASE DeleteMember(q)
    BY <1>3, <2>1 DEF DeleteMember
  <2>2. CASE TransferAdminRole(q)
    BY <1>3, <2>2 DEF TransferAdminRole, Roles
  <2>3. CASE UpdateRole(q)
    BY <1>3, <2>3 DEF UpdateRole, NextRole, Roles
  <2>4. CASE CreateMember(q)
    BY <1>3, <2>4 DEF CreateMember, Roles
  <2> QED
    BY <2>1, <2>2, <2>3, <2>4 DEF Write
<1> QED
  BY <1>1, <1>4, EndsType

LEMMA AbandonType ==
    ASSUME TypeOK, NEW q \in Requests, Abandon(q)
    PROVE  TypeOK'
<1>1. members' \in [Users -> Roles \union {"none"}]
  BY DEF Abandon, TypeOK
<1> QED
  BY <1>1, EndsType DEF Abandon

LEMMA InitType == Init => TypeOK
BY DEF Init, TypeOK, Members

LEMMA NextType == TypeOK /\ [Next]_vars => TypeOK'
<1> SUFFICES ASSUME TypeOK, [Next]_vars
             PROVE  TypeOK'
  OBVIOUS
<1>1. CASE \E c \in Users, others \in SUBSET Users : CreateGroup(c, others)
  BY <1>1, CreateGroupType
<1>2. CASE \E q \in Requests, u \in Users : StartLeave(q, u)
  BY <1>2, StartType
<1>3. CASE \E q \in Requests, u, v \in Users : Start(q, u, v)
  BY <1>3, StartType
<1>4. ASSUME NEW q \in Requests,
             CountAdmins(q) \/ LookAtInvitee(q) \/ CheckCreatorFriend(q)
      PROVE  TypeOK'
  BY <1>4, GoesOn
<1>5. ASSUME NEW q \in Requests, Write(q)
      PROVE  TypeOK'
  BY <1>5, WriteType
<1>6. ASSUME NEW q \in Requests, Abandon(q)
      PROVE  TypeOK'
  BY <1>6, AbandonType
<1>7. CASE \E pair \in Pairs : FriendshipChanges(pair)
  BY <1>7 DEF FriendshipChanges, TypeOK, Members
<1>8. CASE UNCHANGED vars
  BY <1>8 DEF vars, TypeOK, Members
<1> QED
  BY <1>1, <1>2, <1>3, <1>4, <1>5, <1>6, <1>7, <1>8 DEF Next

\* Every pending request passed the checks of its use case, on the rows it read.
THEOREM TypeCorrect == Spec => []TypeOK
BY InitType, NextType, PTL DEF Spec

-----------------------------------------------------------------------------
(* Ranks and the one admin                                                 *)

\* Only CreateGroup and the writes touch the members table.
LEMMA OnlyWritesChangeMembers ==
    ASSUME TypeOK, creator # NoUser, [Next]_vars, members' # members
    PROVE  \E q \in Requests : Write(q)
BY DEF Next, vars, CreateGroup, StartLeave, Start, StartKick, StartTransfer, StartUpdateRole,
       StartInvite, Starts, CountAdmins, LookAtInvitee, CheckCreatorFriend, Abandon,
       FriendshipChanges

\* A leave that was not overtaken is not the last admin's.
LEMMA LeaverIsNotLast ==
    ASSUME TypeOK, NEW q \in Requests, At(q, "leave", "write"), Undisturbed(q), NEW a \in Users,
           Admins = {a}
    PROVE  request[q].target # a
<1> SUFFICES ASSUME request[q].target = a
             PROVE  FALSE
  OBVIOUS
<1>1. request[q] \in PendingState /\ request[q].op = "leave" /\ request[q].pc = "write"
  BY PendingType DEF At
<1>2. request[q].actor = a /\ members[a] = "ADMIN"
  BY <1>1 DEF PendingState, Admins
<1>3. request[q].seenActor = "ADMIN" /\ request[q].admins # 1
  BY <1>1, <1>2 DEF Undisturbed, PendingState
<1>4. Cardinality(Admins) = request[q].admins
  BY <1>1, <1>3 DEF Undisturbed
<1>5. Cardinality({a}) = 1
  BY FS_Singleton
<1> QED
  BY <1>3, <1>4, <1>5

\* The write of a request that was not overtaken hands the one admin role on or leaves it.
LEMMA WriteKeepsOneAdmin ==
    ASSUME TypeOK, NEW q \in Requests, Write(q), Undisturbed(q), OneAdmin
    PROVE  OneAdmin'
<1>1. request[q] \in PendingState /\ members \in [Users -> Roles \union {"none"}]
  BY WriteType, PendingType DEF TypeOK
<1>2. PICK a \in Users : Admins = {a}
  BY DEF OneAdmin
<1>3. members[a] = "ADMIN" /\ \A u \in Users : members[u] = "ADMIN" => u = a
  BY <1>2 DEF Admins
<1>4. CASE DeleteMember(q)
  <2>1. request[q].target # a
    <3>1. CASE At(q, "leave", "write")
      BY <1>2, <3>1, LeaverIsNotLast
    <3>2. CASE At(q, "kick", "write")
      BY <1>1, <1>3, <3>2 DEF At, PendingState, Undisturbed
    <3> QED
      BY <1>4, <3>1, <3>2 DEF DeleteMember
  <2>2. Admins' = {a}
    BY <1>1, <1>3, <1>4, <2>1 DEF DeleteMember, Admins
  <2> QED
    BY <2>2 DEF OneAdmin
<1>5. CASE TransferAdminRole(q)
  <2>1. /\ request[q].actor \in Users /\ request[q].target \in Users
        /\ request[q].actor # request[q].target
        /\ request[q].seenActor = "ADMIN" /\ request[q].seenTarget # "none"
    BY <1>1, <1>5 DEF TransferAdminRole, At, PendingState, Roles
  <2>2. request[q].actor = a /\ members[request[q].target] # "none"
    BY <1>3, <2>1 DEF Undisturbed
  <2>3. Admins' = {request[q].target}
    BY <1>1, <1>3, <1>5, <2>1, <2>2 DEF TransferAdminRole, Admins
  <2> QED
    BY <2>1, <2>3 DEF OneAdmin
<1>6. CASE UpdateRole(q)
  <2>1. request[q].target # a /\ NextRole(request[q].seenTarget) # "ADMIN"
    BY <1>1, <1>3, <1>6 DEF UpdateRole, At, PendingState, Undisturbed, NextRole
  <2>2. Admins' = {a}
    BY <1>1, <1>3, <1>6, <2>1 DEF UpdateRole, Admins
  <2> QED
    BY <2>2 DEF OneAdmin
<1>7. CASE CreateMember(q)
  <2>1. Admins' = {a}
    BY <1>1, <1>3, <1>7 DEF CreateMember, Admins
  <2> QED
    BY <2>1 DEF OneAdmin
<1> QED
  BY <1>4, <1>5, <1>6, <1>7 DEF Write

LEMMA MembersTellAdmins ==
    ASSUME members' = members
    PROVE  Admins' = Admins /\ Members' = Members
BY DEF Admins, Members

\* Leave, kick, transfer and role changes keep the group's one admin, unless one of them
\* writes after another request has changed what it checked.
THEOREM OneAdminKept == Spec => OneAdminUnlessOvertaken
<1>1. ASSUME TypeOK, [Next]_vars, OneAdmin, ~OneAdmin'
      PROVE  \E q \in Requests :
                /\ request[q] # Idle /\ request[q].pc = "write" /\ request'[q] = Idle
                /\ ~Undisturbed(q)
  <2>1. creator # NoUser
    BY <1>1, MembersExist DEF OneAdmin, Admins
  <2>2. members' # members
    BY <1>1, MembersTellAdmins DEF OneAdmin
  <2>3. PICK q \in Requests : Write(q)
    BY <1>1, <2>1, <2>2, OnlyWritesChangeMembers
  <2>4. ~Undisturbed(q)
    BY <1>1, <2>3, WriteKeepsOneAdmin
  <2>5. request[q] # Idle /\ request[q].pc = "write" /\ request'[q] = Idle
    BY <1>1, <2>3, WriteType DEF Ends, TypeOK
  <2> QED
    BY <2>4, <2>5
<1>2. TypeOK /\ [Next]_vars =>
        [OneAdmin => OneAdmin' \/ \E q \in Requests :
           /\ request[q] # Idle /\ request[q].pc = "write" /\ request'[q] = Idle
           /\ ~Undisturbed(q)]_vars
  BY <1>1
<1> QED
  BY <1>2, TypeCorrect, PTL DEF Spec, OneAdminUnlessOvertaken

\* What a write that was not overtaken may do to somebody else's row.
LEMMA UndisturbedWriteObeysRanks ==
    ASSUME TypeOK, NEW q \in Requests, Write(q), Undisturbed(q),
           NEW u \in Users, u # request[q].actor, members'[u] # members[u]
    PROVE  /\ members'[u] = "none" => Rank[members[request[q].actor]] > Rank[members[u]]
           /\ members[u] = "none" => members'[u] = "MEMBER"
           /\ members[u] # "none" /\ members'[u] # "none" => members[request[q].actor] = "ADMIN"
<1>1. request[q] \in PendingState /\ members \in [Users -> Roles \union {"none"}]
  BY WriteType, PendingType DEF TypeOK
<1>2. CASE DeleteMember(q)
  <2>1. u = request[q].target /\ members'[u] = "none" /\ members[u] # "none"
    BY <1>1, <1>2 DEF DeleteMember
  <2>2. At(q, "kick", "write")
    BY <1>1, <1>2, <2>1 DEF DeleteMember, At, PendingState
  <2>3. Rank[request[q].seenActor] > Rank[request[q].seenTarget]
    BY <1>1, <2>2 DEF At, PendingState
  <2> QED
    BY <2>1, <2>3 DEF Undisturbed
<1>3. CASE TransferAdminRole(q)
  <2>1. request[q].seenActor = "ADMIN"
    BY <1>1, <1>3 DEF TransferAdminRole, At, PendingState
  <2>2. members[u] # "none" /\ members'[u] # "none"
    BY <1>1, <1>3 DEF TransferAdminRole
  <2> QED
    BY <2>1, <2>2 DEF Undisturbed
<1>4. CASE UpdateRole(q)
  <2>1. request[q].seenActor = "ADMIN"
    BY <1>1, <1>4 DEF UpdateRole, At, PendingState
  <2>2. members[u] # "none" /\ members'[u] # "none"
    BY <1>1, <1>4 DEF UpdateRole, NextRole
  <2> QED
    BY <2>1, <2>2 DEF Undisturbed
<1>5. CASE CreateMember(q)
  <2>1. members[u] = "none" /\ members'[u] = "MEMBER"
    BY <1>1, <1>5 DEF CreateMember
  <2> QED
    BY <2>1
<1> QED
  BY <1>2, <1>3, <1>4, <1>5 DEF Write

\* The ranks the use cases promise hold for every write no other request overtook.
THEOREM RanksObeyed == Spec => UndisturbedObeysRanks
<1> DEFINE Obeys ==
      \A q \in Requests : UndisturbedWrite(q) =>
           \A u \in Users \ {request[q].actor} : members'[u] # members[u] =>
               CASE members'[u] = "none" -> Rank[members[request[q].actor]] > Rank[members[u]]
                 [] members[u] = "none" -> members'[u] = "MEMBER"
                 [] OTHER -> members[request[q].actor] = "ADMIN"
<1>1. ASSUME TypeOK, [Next]_vars
      PROVE  Obeys
  <2> SUFFICES ASSUME NEW q \in Requests, UndisturbedWrite(q),
                      NEW u \in Users \ {request[q].actor}, members'[u] # members[u]
               PROVE  CASE members'[u] = "none" ->
                             Rank[members[request[q].actor]] > Rank[members[u]]
                        [] members[u] = "none" -> members'[u] = "MEMBER"
                        [] OTHER -> members[request[q].actor] = "ADMIN"
    BY Zenon
  <2>1. creator # NoUser /\ request[q] # Idle /\ request'[q] = Idle /\ Undisturbed(q)
    BY <1>1, PendingType, GroupAssumption DEF UndisturbedWrite
  <2>2. PICK p \in Requests : Write(p)
    BY <1>1, <2>1, OnlyWritesChangeMembers DEF UndisturbedWrite
  <2>3. p = q
    BY <1>1, <2>1, <2>2, WriteType DEF Ends, TypeOK
  <2>4. /\ members'[u] = "none" => Rank[members[request[q].actor]] > Rank[members[u]]
        /\ members[u] = "none" => members'[u] = "MEMBER"
        /\ members[u] # "none" /\ members'[u] # "none" => members[request[q].actor] = "ADMIN"
    BY <1>1, <2>1, <2>2, <2>3, UndisturbedWriteObeysRanks
  <2> QED
    BY <2>4
<1>2. TypeOK /\ [Next]_vars => [Obeys]_vars
  BY <1>1
<1> QED
  BY <1>2, TypeCorrect, PTL DEF Spec, UndisturbedObeysRanks

-----------------------------------------------------------------------------
(* Groups without an admin, groups without their creator                   *)

\* Only a pending transfer makes an ADMIN.
LEMMA NoTransferNoAdmin ==
    ASSUME TypeOK, NEW q \in Requests, Write(q), Admins = {}, ~TransferPending
    PROVE  Admins' = {}
<1>1. request[q] \in PendingState /\ members \in [Users -> Roles \union {"none"}]
  BY WriteType, PendingType DEF TypeOK
<1>2. \A u \in Users : members[u] # "ADMIN"
  BY DEF Admins
<1>3. ~TransferAdminRole(q)
  BY DEF TransferAdminRole, TransferPending, At
<1>4. CASE DeleteMember(q)
  BY <1>1, <1>2, <1>4 DEF DeleteMember, Admins
<1>5. CASE UpdateRole(q)
  BY <1>1, <1>2, <1>5 DEF UpdateRole, NextRole, Admins
<1>6. CASE CreateMember(q)
  BY <1>1, <1>2, <1>6 DEF CreateMember, Admins
<1> QED
  BY <1>3, <1>4, <1>5, <1>6 DEF Write

\* How the state of one request changes: it ends, it starts, or it makes its next read.
LEMMA RequestStep ==
    ASSUME TypeOK, [Next]_vars, NEW q \in Requests, request'[q] # request[q]
    PROVE  \/ request'[q] = Idle
           \/ \E u, v \in Users : Start(q, u, v)
           \/ \E u \in Users : StartLeave(q, u)
           \/ CountAdmins(q) \/ LookAtInvitee(q) \/ CheckCreatorFriend(q)
<1>1. request \in [Requests -> PendingState \union {Idle}]
  BY DEF TypeOK
<1>2. ASSUME NEW p \in Requests, NEW r, request' = [request EXCEPT ![p] = r]
      PROVE  p = q /\ request'[q] = r
  BY <1>1, <1>2
<1>3. ASSUME NEW p \in Requests, Ends(p)
      PROVE  request'[q] = Idle
  BY <1>2, <1>3 DEF Ends
<1>4. ASSUME NEW p \in Requests, NEW r, Starts(p, r)
      PROVE  p = q
  BY <1>2, <1>4 DEF Starts
<1>5. ASSUME NEW p \in Requests, CountAdmins(p) \/ LookAtInvitee(p) \/ CheckCreatorFriend(p)
      PROVE  p = q
  BY <1>2, <1>5 DEF CountAdmins, LookAtInvitee, CheckCreatorFriend, Ends
<1>6. ASSUME NEW p \in Requests, NEW u \in Users, StartLeave(p, u)
      PROVE  p = q
  BY <1>4, <1>6 DEF StartLeave
<1>7. ASSUME NEW p \in Requests, NEW u \in Users, NEW v \in Users, Start(p, u, v)
      PROVE  p = q
  BY <1>4, <1>7 DEF Start, StartKick, StartTransfer, StartUpdateRole, StartInvite
<1>8. ASSUME NEW p \in Requests, Write(p) \/ Abandon(p)
      PROVE  request'[q] = Idle
  BY <1>3, <1>8, WriteType DEF Abandon
<1>9. \/ \E p \in Requests, u \in Users : StartLeave(p, u)
      \/ \E p \in Requests, u, v \in Users : Start(p, u, v)
      \/ \E p \in Requests : \/ CountAdmins(p) \/ LookAtInvitee(p) \/ CheckCreatorFriend(p)
                             \/ Write(p) \/ Abandon(p)
  BY DEF Next, vars, CreateGroup, FriendshipChanges
<1> QED
  BY <1>5, <1>6, <1>7, <1>8, <1>9

\* The state a start leaves, by use case.
LEMMA StartState ==
    ASSUME TypeOK, NEW q \in Requests, NEW u \in Users, NEW v \in Users,
           Start(q, u, v) \/ StartLeave(q, u)
    PROVE  /\ request'[q].op = "transfer" => members[u] = "ADMIN"
           /\ request'[q].op = "invite" => request'[q].pc = "look"
<1>1. ASSUME NEW r, Starts(q, r)
      PROVE  request'[q] = r
  BY <1>1 DEF Starts, TypeOK
<1> QED
  BY <1>1 DEF Start, StartKick, StartTransfer, StartUpdateRole, StartInvite, StartLeave, Pending

\* The state a read that does not end the request leaves.
LEMMA ReadState ==
    ASSUME TypeOK, NEW q \in Requests, request'[q] # Idle,
           CountAdmins(q) \/ LookAtInvitee(q) \/ CheckCreatorFriend(q)
    PROVE  /\ request[q] # Idle
           /\ request'[q].op = request[q].op /\ request'[q].op # "transfer"
           /\ At(q, "invite", "write")' =>
                 IsFriendOf(creator, request[q].target) /\ request'[q].target = request[q].target
<1>1. request[q] \in PendingState /\ request[q] # Idle
  BY PendingType DEF CountAdmins, LookAtInvitee, CheckCreatorFriend, At
<1>2. ~Ends(q)
  BY DEF Ends, TypeOK
<1>3. CASE CountAdmins(q)
  <2>1. request[q].op = "leave"
    BY <1>3 DEF CountAdmins, At
  <2>2. request'[q] = [request[q] EXCEPT !.pc = "write", !.admins = Cardinality(Admins)]
    BY <1>2, <1>3 DEF CountAdmins, TypeOK
  <2>3. request'[q].op = "leave"
    BY <1>1, <2>1, <2>2 DEF PendingState
  <2> QED
    BY <1>1, <2>1, <2>3 DEF At
<1>4. CASE LookAtInvitee(q)
  <2>1. request[q].op = "invite"
    BY <1>4 DEF LookAtInvitee, At
  <2>2. request'[q] = [request[q] EXCEPT !.pc = "creator", !.seenTarget = "none"]
    BY <1>2, <1>4 DEF LookAtInvitee, TypeOK
  <2>3. request'[q].op = "invite" /\ request'[q].pc = "creator"
    BY <1>1, <2>1, <2>2 DEF PendingState
  <2> QED
    BY <1>1, <2>1, <2>3 DEF At
<1>5. CASE CheckCreatorFriend(q)
  <2>1. request[q].op = "invite" /\ IsFriendOf(creator, request[q].target)
    BY <1>2, <1>5 DEF CheckCreatorFriend, At
  <2>2. request'[q] = [request[q] EXCEPT !.pc = "write"]
    BY <1>2, <1>5 DEF CheckCreatorFriend, TypeOK
  <2>3. request'[q].op = "invite" /\ request'[q].target = request[q].target
    BY <1>1, <2>1, <2>2 DEF PendingState
  <2> QED
    BY <1>1, <2>1, <2>3 DEF At
<1> QED
  BY <1>3, <1>4, <1>5

\* Only an ADMIN starts a transfer.
LEMMA NoAdminNoTransfer ==
    ASSUME TypeOK, [Next]_vars, Admins = {}, ~TransferPending
    PROVE  ~TransferPending'
<1> SUFFICES ASSUME NEW q \in Requests, request'[q] # Idle, request'[q].op = "transfer"
             PROVE  FALSE
  BY DEF TransferPending
<1>1. request'[q] # request[q]
  BY DEF TransferPending
<1>2. ~(CountAdmins(q) \/ LookAtInvitee(q) \/ CheckCreatorFriend(q))
  BY ReadState
<1>3. PICK u, v \in Users : Start(q, u, v) \/ StartLeave(q, u)
  BY <1>1, <1>2, RequestStep
<1>4. members[u] = "ADMIN"
  BY <1>3, StartState
<1> QED
  BY <1>4 DEF Admins

\* Without an admin and without a transfer under way a group stays so for ever.
THEOREM OrphansStay == Spec => OrphanStays
<1>1. ASSUME TypeOK, [Next]_vars, creator # NoUser, Admins = {}, ~TransferPending
      PROVE  Admins' = {} /\ ~TransferPending'
  <2>1. CASE members' = members
    BY <1>1, <2>1, MembersTellAdmins, NoAdminNoTransfer
  <2>2. CASE members' # members
    BY <1>1, <2>2, OnlyWritesChangeMembers, NoTransferNoAdmin, NoAdminNoTransfer
  <2> QED
    BY <2>1, <2>2
<1>2. TypeOK /\ [Next]_vars =>
        [creator # NoUser /\ Admins = {} /\ ~TransferPending
           => Admins' = {} /\ ~TransferPending']_vars
  BY <1>1
<1> QED
  BY <1>2, TypeCorrect, PTL DEF Spec, OrphanStays

\* An invitation about to write is not the creator's: nobody is a friend of their own.
CreatorNotInvited ==
    \A q \in Requests : At(q, "invite", "write") => request[q].target # creator

LEMMA NobodyIsTheirOwnFriend ==
    ASSUME TypeOK, NEW u \in Users
    PROVE  ~IsFriendOf(u, u)
BY DEF TypeOK, Pairs, IsFriendOf

LEMMA CreatorStaysCreator ==
    ASSUME creator # NoUser, [Next]_vars
    PROVE  creator' = creator
BY DEF Next, vars, CreateGroup, StartLeave, Start, StartKick, StartTransfer, StartUpdateRole,
       StartInvite, Starts, CountAdmins, LookAtInvitee, CheckCreatorFriend, Write,
       DeleteMember, TransferAdminRole, UpdateRole, CreateMember, Abandon, FriendshipChanges

LEMMA CreatorNotInvitedNext ==
    ASSUME TypeOK, CreatorNotInvited, [Next]_vars
    PROVE  CreatorNotInvited'
<1> SUFFICES ASSUME NEW q \in Requests, At(q, "invite", "write")',
                    request'[q].target = creator'
             PROVE  FALSE
  BY DEF CreatorNotInvited
<1>1. request'[q] # Idle /\ request'[q].op = "invite" /\ request'[q].pc = "write"
  BY DEF At
<1>2. creator \in Users /\ creator # NoUser
  <2>1. CASE request'[q] = request[q]
    BY <1>1, <2>1, PendingType, GroupAssumption
  <2>2. CASE request'[q] # request[q]
    <3>1. CASE CountAdmins(q) \/ LookAtInvitee(q) \/ CheckCreatorFriend(q)
      BY <1>1, <3>1, ReadState, PendingType, GroupAssumption
    <3>2. CASE \E u, v \in Users : Start(q, u, v) \/ StartLeave(q, u)
      BY <1>1, <3>2, StartState
    <3> QED
      BY <1>1, <2>2, <3>1, <3>2, RequestStep
  <2> QED
    BY <2>1, <2>2
<1>3. creator' = creator
  BY <1>2, CreatorStaysCreator
<1>4. CASE request'[q] = request[q]
  BY <1>1, <1>3, <1>4 DEF CreatorNotInvited, At
<1>5. CASE request'[q] # request[q]
  <2>1. CASE CountAdmins(q) \/ LookAtInvitee(q) \/ CheckCreatorFriend(q)
    BY <1>1, <1>2, <1>3, <2>1, ReadState, NobodyIsTheirOwnFriend
  <2>2. CASE \E u, v \in Users : Start(q, u, v) \/ StartLeave(q, u)
    BY <1>1, <2>2, StartState
  <2> QED
    BY <1>1, <1>5, <2>1, <2>2, RequestStep
<1> QED
  BY <1>4, <1>5

\* A creator who has left is never a member again.
THEOREM CreatorGone == Spec => CreatorGoneForGood
<1> DEFINE Inv == TypeOK /\ CreatorNotInvited
<1>1. Init => Inv
  BY InitType DEF Init, CreatorNotInvited, At
<1>2. Inv /\ [Next]_vars => Inv'
  BY NextType, CreatorNotInvitedNext
<1>3. ASSUME Inv, [Next]_vars, creator # NoUser, creator \notin Members
      PROVE  creator \notin Members'
  <2>1. creator \in Users /\ members[creator] = "none"
    BY <1>3 DEF TypeOK, Members
  <2>2. ASSUME NEW q \in Requests, Write(q)
        PROVE  members'[creator] = "none"
    <3>1. CASE DeleteMember(q)
      BY <1>3, <2>1, <3>1 DEF DeleteMember, TypeOK
    <3>2. CASE TransferAdminRole(q)
      BY <1>3, <2>1, <3>2 DEF TransferAdminRole
    <3>3. CASE UpdateRole(q)
      BY <1>3, <2>1, <3>3 DEF UpdateRole, TypeOK
    <3>4. CASE CreateMember(q)
      BY <1>3, <2>1, <3>4 DEF CreateMember, CreatorNotInvited, TypeOK
    <3> QED
      BY <2>2, <3>1, <3>2, <3>3, <3>4 DEF Write
  <2>3. CASE members' = members
    BY <1>3, <2>3, MembersTellAdmins
  <2>4. CASE members' # members
    BY <1>3, <2>2, <2>4, OnlyWritesChangeMembers DEF Members
  <2> QED
    BY <2>3, <2>4
<1>4. Inv /\ [Next]_vars =>
        [creator # NoUser /\ creator \notin Members => creator \notin Members']_vars
  BY <1>3
<1> QED
  BY <1>1, <1>2, <1>4, PTL DEF Spec, CreatorGoneForGood
=============================================================================
