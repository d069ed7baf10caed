----------------------------- MODULE AccessProofs ------------------------------
(***************************************************************************)
(* Theorems about who may do what, and to whom: the roles with their           *)
(* permissions and the users with their names, which MCAdministration runs side *)
(* by side, and the posts that a user is shown, deletes and reads page by page,  *)
(* which MCPosts runs side by side; for any number of roles, permissions, users, *)
(* names, requests, posts and rows.                                            *)
(***************************************************************************)
EXTENDS MCAdministration, MCPosts, FiniteSetTheorems, WellFoundedInduction, NaturalsInduction, TLAPS

-----------------------------------------------------------------------------
(* Authorization: the type invariant                                          *)

\* What the checks of a use case have left of it when it is about to write, and what the
\* synchronisation has read when it is about to commit.
CallOK(q) ==
    /\ q.pc = "write" /\ q.op \in {"create", "move"} => q.route \in Routes
    /\ q.pc = "write" /\ q.op = "update" =>
          /\ q.role \in Roles /\ q.active \in {{}, {TRUE}, {FALSE}}
          /\ q.role = Admin => q.active = {TRUE}
    /\ q.pc = "write" /\ q.op = "deleteRole" => q.role \in CustomRoles
    /\ q.pc \in {"list", "commit"} => q.op = "sync"
    /\ q.pc = "commit" => /\ Admin \in q.seen
                          /\ q.allowed \subseteq q.listed /\ q.listed \intersect q.drop = {}

LiveRouted == \A p \in Live : route[p] \in Routes

AuthorizationBase == AuthorizationTypeOK /\ LiveRouted /\ \A c \in Callers : CallOK(caller[c])

LEMMA FreeType == Free \in Calls /\ CallOK(Free)
BY DEF Free, Calls, NoCopyOfRole, Copied, CallOK

LEMMA NoRoleEntryType == NoRoleEntry \in [set : BOOLEAN, copy : Copied, spoilt : BOOLEAN]
BY DEF NoRoleEntry, NoCopyOfRole, Copied

\* A copy that a reader loads is one that the cache may hold.
LEMMA LoadedType ==
    ASSUME AuthorizationBase, NEW r \in Roles
    PROVE  RoleWithPermissions(r) \in Copied
<1>1. role[r].active \in BOOLEAN
  BY DEF AuthorizationBase, AuthorizationTypeOK
<1>2. {route[p] : p \in role[r].grants \intersect Live} \subseteq Routes
  BY DEF AuthorizationBase, LiveRouted
<1> QED
  BY <1>1, <1>2 DEF RoleWithPermissions, NoCopyOfRole, Copied

\* A step of one use case that changes nothing else.
LEMMA GoesOnBase ==
    ASSUME AuthorizationBase, NEW c \in Callers, NEW q \in Calls, CallOK(q),
           GoesOn(c, q), calls' \in 0..MaxCalls
    PROVE  AuthorizationBase'
<1>1. caller' \in [Callers -> Calls] /\ \A d \in Callers : caller'[d] = IF d = c THEN q ELSE caller[d]
  BY DEF GoesOn, AuthorizationBase, AuthorizationTypeOK
<1>2. \A d \in Callers : CallOK(caller[d])'
  BY <1>1, ZenonT(60) DEF AuthorizationBase, CallOK
<1>3. UNCHANGED <<role, standing, route, watched, cached>>
  BY DEF GoesOn, permissionVars
<1>4. Live' = Live /\ Referable' = Referable
  BY <1>3 DEF Live, Referable
<1>5. LiveRouted'
  BY <1>3, <1>4 DEF AuthorizationBase, LiveRouted
<1>6. AuthorizationTypeOK'
  BY <1>1, <1>3, <1>4 DEF AuthorizationBase, AuthorizationTypeOK
<1> QED
  BY <1>2, <1>5, <1>6 DEF AuthorizationBase

\* A step that ends one use case, whatever it does to the entry.
LEMMA EndsBase ==
    ASSUME AuthorizationBase, NEW c \in Callers, caller' = [caller EXCEPT ![c] = Free],
           cached' \in [set : BOOLEAN, copy : Copied, spoilt : BOOLEAN],
           UNCHANGED <<role, permissionVars, watched, calls>>
    PROVE  AuthorizationBase'
<1>1. caller' \in [Callers -> Calls] /\ \A d \in Callers : caller'[d] = IF d = c THEN Free ELSE caller[d]
  BY FreeType DEF AuthorizationBase, AuthorizationTypeOK
<1>2. \A d \in Callers : CallOK(caller[d])'
  BY <1>1, FreeType DEF AuthorizationBase, CallOK
<1>3. UNCHANGED <<role, standing, route, watched, calls>>
  BY DEF permissionVars
<1>4. Live' = Live /\ Referable' = Referable
  BY <1>3 DEF Live, Referable
<1>5. LiveRouted'
  BY <1>3, <1>4 DEF AuthorizationBase, LiveRouted
<1>6. AuthorizationTypeOK'
  BY <1>1, <1>3, <1>4 DEF AuthorizationBase, AuthorizationTypeOK
<1> QED
  BY <1>2, <1>5, <1>6 DEF AuthorizationBase

\* What a write leaves of the use cases and of the entry.
LEMMA WrittenBase ==
    ASSUME AuthorizationBase, NEW c \in Callers, NEW q \in Calls, CallOK(q), Written(c, q)
    PROVE  /\ caller' \in [Callers -> Calls]
           /\ \A d \in Callers : CallOK(caller[d])'
           /\ cached' \in [set : BOOLEAN, copy : Copied, spoilt : BOOLEAN]
           /\ watched' \in Roles /\ calls' \in 0..MaxCalls
<1>1. ASSUME NEW d \in Callers
      PROVE  caller'[d] \in Calls /\ CallOK(caller[d])'
  <2>1. CASE d = c
    BY <2>1 DEF Written, CallOK
  <2>2. CASE d # c
    <3>1. PICK b \in BOOLEAN : caller'[d] = [caller[d] EXCEPT !.overtaken = b]
      BY <2>2 DEF Written, AuthorizationBase, AuthorizationTypeOK, Calls
    <3>2. caller[d] \in Calls /\ CallOK(caller[d])
      BY DEF AuthorizationBase, AuthorizationTypeOK
    <3>3. caller'[d] \in Calls
      BY <3>1, <3>2 DEF Calls
    <3>4. CallOK(caller'[d])
      BY <3>1, <3>2 DEF CallOK, Calls
    <3> QED
      BY <3>3, <3>4 DEF CallOK
  <2> QED
    BY <2>1, <2>2
<1>2. caller' \in [Callers -> Calls]
  BY <1>1 DEF Written
<1>3. cached' \in [set : BOOLEAN, copy : Copied, spoilt : BOOLEAN]
  BY DEF Written, AuthorizationBase, AuthorizationTypeOK
<1> QED
  BY <1>1, <1>2, <1>3 DEF Written, AuthorizationBase, AuthorizationTypeOK

\* The steps before a write: what they put in the request is of its type.
LEMMA ReadsBase ==
    ASSUME AuthorizationBase, NEW c \in Callers,
           LoadRole(c) \/ StartWarmUp(c) \/ WarmLoad(c) \/ StoreRole(c)
    PROVE  AuthorizationBase'
<1> watched \in Roles /\ calls \in 0..MaxCalls /\ caller[c] \in Calls
  BY DEF AuthorizationBase, AuthorizationTypeOK
<1> DEFINE copy == RoleWithPermissions(watched)
<1>1. copy \in Copied
  BY LoadedType
<1> HIDE DEF copy
<1>2. CASE LoadRole(c)
  <2>1. PICK q : /\ q = [Free EXCEPT !.pc = "store", !.op = "guard", !.copy = copy]
                 /\ GoesOn(c, q) /\ UNCHANGED calls
    BY <1>2 DEF LoadRole, Reads, copy
  <2>2. q \in Calls /\ CallOK(q)
    BY <2>1, <1>1, FreeType DEF Calls, CallOK
  <2> QED
    BY <2>1, <2>2, GoesOnBase
<1>3. CASE StartWarmUp(c)
  <2>1. PICK q : /\ q = [Free EXCEPT !.pc = "load", !.op = "warm"]
                 /\ GoesOn(c, q) /\ UNCHANGED calls
    BY <1>3 DEF StartWarmUp, Reads
  <2>2. q \in Calls /\ CallOK(q)
    BY <2>1, FreeType DEF Calls, CallOK
  <2> QED
    BY <2>1, <2>2, GoesOnBase
<1>4. CASE WarmLoad(c)
  <2>1. PICK q : /\ q = (IF copy.found THEN [caller[c] EXCEPT !.pc = "store", !.copy = copy] ELSE Free)
                 /\ GoesOn(c, q) /\ UNCHANGED calls
    BY <1>4 DEF WarmLoad, copy
  <2>2. q \in Calls /\ CallOK(q)
    <3>1. [caller[c] EXCEPT !.pc = "store", !.copy = copy] \in Calls
      BY <1>1 DEF Calls
    <3>2. CallOK([caller[c] EXCEPT !.pc = "store", !.copy = copy])
      BY DEF Calls, CallOK
    <3> QED
      BY <2>1, <3>1, <3>2, FreeType
  <2> QED
    BY <2>1, <2>2, GoesOnBase
<1>5. CASE StoreRole(c)
  <2>1. cached' \in [set : BOOLEAN, copy : Copied, spoilt : BOOLEAN]
    BY <1>5 DEF StoreRole, Calls
  <2> QED
    BY <1>5, <2>1, EndsBase DEF StoreRole
<1> QED
  BY <1>2, <1>3, <1>4, <1>5

LEMMA StartsBase ==
    ASSUME AuthorizationBase, NEW c \in Callers,
           \/ StartUpdateRole(c) \/ StartDeleteRole(c) \/ StartCreatePermission(c)
           \/ StartUpdatePermission(c) \/ StartDeletePermission(c)
    PROVE  AuthorizationBase'
<1>0. ASSUME calls < MaxCalls, calls' = calls + 1
      PROVE  calls' \in 0..MaxCalls
  BY <1>0, AuthorizationAssumption DEF AuthorizationBase, AuthorizationTypeOK
<1> Live \subseteq Permissions /\ Referable \subseteq Permissions
  BY DEF Live, Referable
<1>1. CASE StartUpdateRole(c)
  <2>0. PICK r \in Roles, active \in {{}, {TRUE}, {FALSE}},
             grants \in {{}} \union {{g} : g \in SUBSET Referable} :
          /\ r = Admin => active = {TRUE}
          /\ GoesOn(c, [Free EXCEPT !.pc = "write", !.op = "update", !.role = r, !.active = active, !.grants = grants])
          /\ calls < MaxCalls /\ calls' = calls + 1
    BY <1>1 DEF StartUpdateRole, Begins
  <2>1. PICK q : /\ q = [Free EXCEPT !.pc = "write", !.op = "update", !.role = r, !.active = active, !.grants = grants]
                 /\ GoesOn(c, q) /\ calls < MaxCalls /\ calls' = calls + 1
    BY <2>0
  <2>2. grants \in SUBSET SUBSET Permissions /\ active \in SUBSET BOOLEAN
    <3>1. active \subseteq BOOLEAN
      OBVIOUS
    <3>2. grants \subseteq SUBSET Permissions
      OBVIOUS
    <3> QED
      BY <3>1, <3>2
  <2>3. q \in Calls
    BY <2>1, <2>2, FreeType DEF Calls
  <2>4. CallOK(q)
    BY <2>0, <2>1, FreeType DEF Calls, CallOK
  <2> QED
    BY <1>0, <2>1, <2>3, <2>4, GoesOnBase, SMTT(40)
<1>2. CASE StartDeleteRole(c)
  <2>0. PICK r \in CustomRoles :
          /\ GoesOn(c, [Free EXCEPT !.pc = "write", !.op = "deleteRole", !.role = r])
          /\ calls < MaxCalls /\ calls' = calls + 1
    BY <1>2 DEF StartDeleteRole, Begins
  <2>1. PICK q : /\ q = [Free EXCEPT !.pc = "write", !.op = "deleteRole", !.role = r]
                 /\ GoesOn(c, q) /\ calls < MaxCalls /\ calls' = calls + 1
    BY <2>0
  <2>2. q \in Calls /\ CallOK(q)
    BY <2>1, FreeType DEF Calls, CallOK, Roles
  <2> QED
    BY <1>0, <2>1, <2>2, GoesOnBase
<1>3. CASE StartCreatePermission(c)
  <2>0. PICK m \in Routes :
          /\ GoesOn(c, [Free EXCEPT !.pc = "write", !.op = "create", !.route = m])
          /\ calls < MaxCalls /\ calls' = calls + 1
    BY <1>3 DEF StartCreatePermission, Begins
  <2>1. PICK q : /\ q = [Free EXCEPT !.pc = "write", !.op = "create", !.route = m]
                 /\ GoesOn(c, q) /\ calls < MaxCalls /\ calls' = calls + 1
    BY <2>0
  <2>2. q \in Calls /\ CallOK(q)
    <3>1. q \in Calls
      BY <2>1, FreeType DEF Calls
    <3>2. q.pc = "write" /\ q.op = "create" /\ q.route = m
      BY <2>1, FreeType DEF Calls
    <3> QED
      BY <3>1, <3>2 DEF CallOK
  <2> QED
    BY <1>0, <2>1, <2>2, GoesOnBase
<1>4. CASE StartUpdatePermission(c)
  <2>0. PICK p \in Live, m \in Routes :
          /\ GoesOn(c, [Free EXCEPT !.pc = "write", !.op = "move", !.permissions = {p}, !.route = m])
          /\ calls < MaxCalls /\ calls' = calls + 1
    BY <1>4 DEF StartUpdatePermission, Begins
  <2>1. PICK q : /\ q = [Free EXCEPT !.pc = "write", !.op = "move", !.permissions = {p}, !.route = m]
                 /\ GoesOn(c, q) /\ calls < MaxCalls /\ calls' = calls + 1
    BY <2>0
  <2> {p} \in SUBSET Permissions
    OBVIOUS
  <2>2. q \in Calls /\ CallOK(q)
    <3>1. q \in Calls
      BY <2>1, FreeType DEF Calls
    <3>2. q.pc = "write" /\ q.op = "move" /\ q.route = m
      BY <2>1, FreeType DEF Calls
    <3> QED
      BY <3>1, <3>2 DEF CallOK
  <2> QED
    BY <1>0, <2>1, <2>2, GoesOnBase
<1>5. CASE StartDeletePermission(c)
  <2>0. PICK p \in Live :
          /\ GoesOn(c, [Free EXCEPT !.pc = "write", !.op = "delete", !.permissions = {p}])
          /\ calls < MaxCalls /\ calls' = calls + 1
    BY <1>5 DEF StartDeletePermission, Begins
  <2>1. PICK q : /\ q = [Free EXCEPT !.pc = "write", !.op = "delete", !.permissions = {p}]
                 /\ GoesOn(c, q) /\ calls < MaxCalls /\ calls' = calls + 1
    BY <2>0
  <2> {p} \in SUBSET Permissions
    OBVIOUS
  <2>2. q \in Calls /\ CallOK(q)
    <3>1. q \in Calls
      BY <2>1, FreeType DEF Calls
    <3>2. q.pc = "write" /\ q.op = "delete"
      BY <2>1, FreeType DEF Calls
    <3> QED
      BY <3>1, <3>2 DEF CallOK
  <2> QED
    BY <1>0, <2>1, <2>2, GoesOnBase
<1> QED
  BY <1>1, <1>2, <1>3, <1>4, <1>5

LEMMA SyncReadsBase ==
    ASSUME AuthorizationBase, NEW c \in Callers, SyncPermissions(c) \/ SyncRoles(c)
    PROVE  AuthorizationBase'
<1> caller[c] \in Calls /\ Live \subseteq Permissions
  BY DEF AuthorizationBase, AuthorizationTypeOK, Live
<1>1. CASE SyncPermissions(c)
  <2> DEFINE drop == {p \in Live : route[p] \notin Catalogue}
             missing == Catalogue \ {route[p] : p \in Live}
  <2>1. drop \subseteq Permissions /\ missing \subseteq Catalogue
    OBVIOUS
  <2>2. PICK q : /\ q = [Free EXCEPT !.pc = "list", !.op = "sync", !.drop = drop, !.missing = missing]
                 /\ GoesOn(c, q) /\ calls < MaxCalls /\ calls' = calls + 1
    BY <1>1 DEF SyncPermissions, Begins
  <2> HIDE DEF drop, missing
  <2>3. q \in Calls /\ CallOK(q)
    BY <2>1, <2>2, FreeType DEF Calls, CallOK
  <2>4. calls' \in 0..MaxCalls
    BY <2>2, AuthorizationAssumption DEF AuthorizationBase, AuthorizationTypeOK
  <2> QED
    BY <2>2, <2>3, <2>4, GoesOnBase
<1>2. CASE SyncRoles(c)
  <2> DEFINE remaining == Live \ caller[c].drop
             allowed == {p \in remaining : route[p] \in UserRoutes}
             activeRoles == {r \in SystemRoles : role[r].active}
  <2>1. /\ remaining \subseteq Permissions /\ allowed \subseteq remaining
        /\ remaining \intersect caller[c].drop = {}
    OBVIOUS
  <2>2. Admin \in activeRoles /\ activeRoles \subseteq SystemRoles
    BY DEF SystemRoles, AuthorizationBase, AuthorizationTypeOK
  <2>3. PICK q : /\ q = [caller[c] EXCEPT !.pc = "commit", !.listed = remaining, !.allowed = allowed, !.seen = activeRoles]
                 /\ GoesOn(c, q) /\ UNCHANGED calls
    BY <1>2 DEF SyncRoles
  <2> HIDE DEF remaining, allowed, activeRoles
  <2>4. q \in Calls
    BY <2>1, <2>2, <2>3 DEF Calls
  <2>5. CallOK(q)
    <3>1. caller[c].pc = "list" /\ caller[c].op = "sync"
      BY <1>2 DEF SyncRoles, AuthorizationBase, CallOK
    <3> QED
      BY <2>1, <2>2, <2>3, <3>1 DEF Calls, CallOK
  <2>6. calls' \in 0..MaxCalls
    BY <2>3 DEF AuthorizationBase, AuthorizationTypeOK
  <2> QED
    BY <2>3, <2>4, <2>5, <2>6, GoesOnBase
<1> QED
  BY <1>1, <1>2

\* The request for the deletion of an entry, and what Replaced keeps of a column.
LEMMA InvalidatesType ==
    ASSUME NEW r \in Roles
    PROVE  Invalidates(r) \in Calls /\ CallOK(Invalidates(r))
BY FreeType, ZenonT(60) DEF Invalidates, Calls, CallOK

LEMMA ReplacedOf ==
    ASSUME NEW old_, NEW new
    PROVE  /\ new = {} => Replaced(old_, new) = old_
           /\ new # {} => Replaced(old_, new) \in new
BY DEF Replaced

\* An update, deletion or creation of a role gives it what its caller was allowed to ask for.
LEMMA RoleWritesBase ==
    ASSUME AuthorizationBase, NEW c \in Callers, UpdateRole(c) \/ DeleteRole(c) \/ CreateRole(c)
    PROVE  AuthorizationBase'
<1> caller[c] \in Calls /\ CallOK(caller[c])
  BY DEF AuthorizationBase, AuthorizationTypeOK
<1>1. Live' = Live /\ Referable' = Referable /\ LiveRouted'
  BY DEF UpdateRole, DeleteRole, CreateRole, permissionVars, Live, Referable, LiveRouted, AuthorizationBase
<1>2. UNCHANGED <<standing, route>>
  BY DEF UpdateRole, DeleteRole, CreateRole, permissionVars
<1>3. CASE UpdateRole(c)
  <2> DEFINE r == caller[c].role
             switched == Replaced(role[r].active, caller[c].active)
             grants == Replaced(role[r].grants, caller[c].grants)
  <2>1. r \in Roles /\ caller[c].active \in {{}, {TRUE}, {FALSE}} /\ (r = Admin => caller[c].active = {TRUE})
    BY <1>3 DEF UpdateRole, CallOK
  <2>2. switched \in BOOLEAN /\ (r = Admin => switched = TRUE)
    <3>1. role[r].active \in BOOLEAN
      BY <2>1 DEF AuthorizationBase, AuthorizationTypeOK
    <3>2. /\ caller[c].active = {} => switched = role[r].active
          /\ caller[c].active # {} => switched \in caller[c].active
      BY ReplacedOf
    <3> HIDE DEF switched, r
    <3>3. CASE caller[c].active = {}
      BY <2>1, <3>1, <3>2, <3>3
    <3>4. CASE caller[c].active = {TRUE}
      BY <3>2, <3>4
    <3>5. CASE caller[c].active = {FALSE}
      BY <2>1, <3>2, <3>5
    <3> QED
      BY <2>1, <3>3, <3>4, <3>5
  <2>3. grants \subseteq Permissions /\ grants \subseteq Referable
    <3>1. role[r].grants \subseteq Referable
      BY <2>1 DEF AuthorizationBase, AuthorizationTypeOK
    <3>2. \A g \in caller[c].grants : g \subseteq Referable
      BY <1>3 DEF UpdateRole
    <3>3. grants \subseteq Referable
      BY <3>1, <3>2, ReplacedOf
    <3> QED
      BY <3>3 DEF Referable
  <2>4. role' = [role EXCEPT ![r].active = switched, ![r].grants = grants]
    BY <1>3 DEF UpdateRole
  <2>5. Written(c, Invalidates(r))
    BY <1>3 DEF UpdateRole
  <2> HIDE DEF switched, grants, r
  <2>6. /\ role' \in [Roles -> [state : {"unborn", "live", "deleted"}, active : BOOLEAN, grants : SUBSET Permissions]]
        /\ \A s \in Roles : role'[s].grants \subseteq Referable
        /\ role'[Admin].state = "live" /\ role'[Admin].active
    <3>1. role \in [Roles -> [state : {"unborn", "live", "deleted"}, active : BOOLEAN, grants : SUBSET Permissions]]
      BY DEF AuthorizationBase, AuthorizationTypeOK
    <3>2. /\ \A s \in Roles \ {r} : role'[s] = role[s]
          /\ role'[r].state = role[r].state /\ role'[r].active = switched /\ role'[r].grants = grants
      BY <2>1, <2>4, <3>1
    <3>3. role' \in [Roles -> [state : {"unborn", "live", "deleted"}, active : BOOLEAN, grants : SUBSET Permissions]]
      BY <2>1, <2>2, <2>3, <2>4, <3>1
    <3>4. \A s \in Roles : role'[s].grants \subseteq Referable
      BY <2>3, <3>2 DEF AuthorizationBase, AuthorizationTypeOK
    <3>5. role'[Admin].state = "live" /\ role'[Admin].active
      <4>1. CASE r = Admin
        BY <2>2, <3>2, <4>1 DEF AuthorizationBase, AuthorizationTypeOK
      <4>2. CASE r # Admin
        BY <3>2, <4>2 DEF AuthorizationBase, AuthorizationTypeOK, Roles, SystemRoles
      <4> QED
        BY <4>1, <4>2
    <3> QED
      BY <3>3, <3>4, <3>5
  <2>7. /\ caller' \in [Callers -> Calls] /\ \A d \in Callers : CallOK(caller[d])'
        /\ cached' \in [set : BOOLEAN, copy : Copied, spoilt : BOOLEAN]
        /\ watched' \in Roles /\ calls' \in 0..MaxCalls
    BY <2>1, <2>5, InvalidatesType, WrittenBase
  <2> QED
    BY <1>1, <1>2, <2>6, <2>7 DEF AuthorizationBase, AuthorizationTypeOK
<1>4. CASE DeleteRole(c)
  <2> DEFINE r == caller[c].role
  <2>1. r \in CustomRoles /\ r \in Roles /\ r # Admin
    BY <1>4, AuthorizationAssumption DEF DeleteRole, CallOK, Roles, SystemRoles
  <2>2. role' = [role EXCEPT ![r].state = "deleted"] /\ Written(c, Invalidates(r))
    BY <1>4 DEF DeleteRole
  <2> HIDE DEF r
  <2>3. /\ role' \in [Roles -> [state : {"unborn", "live", "deleted"}, active : BOOLEAN, grants : SUBSET Permissions]]
        /\ \A s \in Roles : role'[s].grants \subseteq Referable
        /\ role'[Admin].state = "live" /\ role'[Admin].active
    BY <2>1, <2>2 DEF AuthorizationBase, AuthorizationTypeOK
  <2>4. /\ caller' \in [Callers -> Calls] /\ \A d \in Callers : CallOK(caller[d])'
        /\ cached' \in [set : BOOLEAN, copy : Copied, spoilt : BOOLEAN]
        /\ watched' \in Roles /\ calls' \in 0..MaxCalls
    BY <2>1, <2>2, InvalidatesType, WrittenBase
  <2> QED
    BY <1>1, <1>2, <2>3, <2>4 DEF AuthorizationBase, AuthorizationTypeOK
<1>5. CASE CreateRole(c)
  <2>1. PICK r \in CustomRoles, active \in BOOLEAN, grants \in SUBSET Referable :
          role' = [role EXCEPT ![r] = [state |-> "live", active |-> active, grants |-> grants]]
    BY <1>5 DEF CreateRole
  <2>2. r \in Roles /\ r # Admin /\ grants \subseteq Permissions
    BY AuthorizationAssumption DEF Roles, SystemRoles, Referable
  <2>3. /\ role' \in [Roles -> [state : {"unborn", "live", "deleted"}, active : BOOLEAN, grants : SUBSET Permissions]]
        /\ \A s \in Roles : role'[s].grants \subseteq Referable
        /\ role'[Admin].state = "live" /\ role'[Admin].active
    BY <2>1, <2>2 DEF AuthorizationBase, AuthorizationTypeOK
  <2>4. UNCHANGED <<watched, cached, caller>> /\ calls' \in 0..MaxCalls
    BY <1>5, AuthorizationAssumption DEF CreateRole, AuthorizationBase, AuthorizationTypeOK
  <2>5. \A d \in Callers : CallOK(caller[d])'
    BY <2>4 DEF AuthorizationBase, CallOK
  <2> QED
    BY <1>1, <1>2, <2>3, <2>4, <2>5 DEF AuthorizationBase, AuthorizationTypeOK
<1> QED
  BY <1>3, <1>4, <1>5

\* What is left to show of a write that changes no role: the permissions have routes of their
\* own, and what roles are granted is still there.
LEMMA PermissionWriteBase ==
    ASSUME AuthorizationBase, NEW c \in Callers, Written(c, Free), UNCHANGED role,
           standing' \in [Permissions -> {"unborn", "live", "deleted", "removed"}],
           route' \in [Permissions -> Routes \union {NoRoute}],
           LiveRouted', \A p, q \in Live' : route'[p] = route'[q] => p = q,
           Referable \subseteq Referable'
    PROVE  AuthorizationBase'
<1>1. /\ caller' \in [Callers -> Calls] /\ \A d \in Callers : CallOK(caller[d])'
      /\ cached' \in [set : BOOLEAN, copy : Copied, spoilt : BOOLEAN]
      /\ watched' \in Roles /\ calls' \in 0..MaxCalls
  BY FreeType, WrittenBase
<1>2. \A r \in Roles : role'[r].grants \subseteq Referable'
  BY DEF AuthorizationBase, AuthorizationTypeOK
<1> QED
  BY <1>1, <1>2 DEF AuthorizationBase, AuthorizationTypeOK

LEMMA PermissionsBase ==
    ASSUME AuthorizationBase, NEW c \in Callers,
           CreatePermission(c) \/ UpdatePermission(c) \/ DeletePermission(c)
    PROVE  AuthorizationBase'
<1>0. /\ standing \in [Permissions -> {"unborn", "live", "deleted", "removed"}]
      /\ route \in [Permissions -> Routes \union {NoRoute}]
      /\ LiveRouted /\ \A p, q \in Live : route[p] = route[q] => p = q
      /\ CallOK(caller[c])
  BY DEF AuthorizationBase, AuthorizationTypeOK
<1>1. CASE CreatePermission(c)
  <2> DEFINE m == caller[c].route
  <2>1. PICK p \in Permissions : /\ standing[p] = "unborn" /\ standing' = [standing EXCEPT ![p] = "live"]
                                 /\ route' = [route EXCEPT ![p] = m]
    BY <1>1 DEF CreatePermission
  <2>2. m \in Routes /\ (\A q \in Live : route[q] # m) /\ UNCHANGED role /\ Written(c, Free)
    BY <1>0, <1>1 DEF CreatePermission, CallOK, HasRoute
  <2> HIDE DEF m
  <2>3. Live' = Live \union {p} /\ p \notin Live /\ Referable \subseteq Referable'
    BY <1>0, <2>1 DEF Live, Referable
  <2>4. /\ standing' \in [Permissions -> {"unborn", "live", "deleted", "removed"}]
        /\ route' \in [Permissions -> Routes \union {NoRoute}]
        /\ route'[p] = m /\ \A q \in Live : route'[q] = route[q]
    BY <1>0, <2>1, <2>2, <2>3 DEF Live
  <2>5. LiveRouted'
    BY <1>0, <2>2, <2>3, <2>4 DEF LiveRouted
  <2>6. \A q, t \in Live' : route'[q] = route'[t] => q = t
    BY <1>0, <2>2, <2>3, <2>4
  <2> QED
    BY <2>2, <2>3, <2>4, <2>5, <2>6, PermissionWriteBase
<1>2. CASE UpdatePermission(c)
  <2> DEFINE m == caller[c].route
  <2>1. PICK p \in caller[c].permissions \intersect Live :
          ~HasRoute(m, {p}) /\ route' = [route EXCEPT ![p] = m]
    BY <1>2 DEF UpdatePermission
  <2>2. m \in Routes /\ (\A q \in Live \ {p} : route[q] # m) /\ UNCHANGED <<role, standing>> /\ Written(c, Free)
    BY <1>0, <1>2, <2>1 DEF UpdatePermission, CallOK, HasRoute
  <2> HIDE DEF m
  <2>3. Live' = Live /\ Referable \subseteq Referable' /\ p \in Live /\ p \in Permissions
    BY <2>2 DEF Live, Referable
  <2>4. /\ route' \in [Permissions -> Routes \union {NoRoute}]
        /\ route'[p] = m /\ \A q \in Live \ {p} : route'[q] = route[q]
    BY <1>0, <2>1, <2>2, <2>3 DEF Live
  <2>5. LiveRouted'
    BY <1>0, <2>2, <2>3, <2>4 DEF LiveRouted
  <2>6. \A q, t \in Live' : route'[q] = route'[t] => q = t
    BY <1>0, <2>2, <2>3, <2>4
  <2> QED
    BY <1>0, <2>2, <2>3, <2>4, <2>5, <2>6, PermissionWriteBase
<1>3. CASE DeletePermission(c)
  <2>1. PICK p \in caller[c].permissions \intersect Live : standing' = [standing EXCEPT ![p] = "deleted"]
    BY <1>3 DEF DeletePermission
  <2>2. UNCHANGED <<role, route>> /\ Written(c, Free)
    BY <1>3 DEF DeletePermission
  <2>3. Live' \subseteq Live /\ Referable \subseteq Referable'
    BY <1>0, <2>1 DEF Live, Referable
  <2>4. standing' \in [Permissions -> {"unborn", "live", "deleted", "removed"}]
    BY <1>0, <2>1
  <2>5. LiveRouted' /\ \A q, t \in Live' : route'[q] = route'[t] => q = t
    BY <1>0, <2>2, <2>3 DEF LiveRouted
  <2> QED
    BY <1>0, <2>2, <2>3, <2>4, <2>5, PermissionWriteBase
<1> QED
  BY <1>1, <1>2, <1>3

\* What a synchronisation that commits gives a role, and what it makes and writes.
Granted(q, r, created) ==
    IF r = Admin THEN q.listed \union created
    ELSE q.allowed \union {p \in created : route'[p] \in UserRoutes}

MadeBy(q, made) == {made[m] : m \in q.missing}

\* A synchronisation creates permissions for the routes that had none, drops others, and
\* writes the roles that it leaves some.
LEMMA CommitPicks ==
    ASSUME NEW c \in Callers, SyncCommits(c)
    PROVE  \E made \in [caller[c].missing -> {p \in Permissions : standing[p] = "unborn"}] :
           LET created == MadeBy(caller[c], made)
               written == {r \in SystemRoles : Granted(caller[c], r, created) # {}}
           IN  /\ \A m, n \in caller[c].missing : made[m] = made[n] => m = n
               /\ standing' = [p \in Permissions |-> IF p \in created THEN "live"
                                 ELSE IF p \in caller[c].drop THEN "removed" ELSE standing[p]]
               /\ route' = [p \in Permissions |-> IF p \in created
                              THEN CHOOSE m \in caller[c].missing : made[m] = p ELSE route[p]]
               /\ role' = [r \in Roles |->
                     IF r \in written
                     THEN [state |-> role[r].state, active |-> r \in caller[c].seen,
                           grants |-> Granted(caller[c], r, created)]
                     ELSE [role[r] EXCEPT !.grants = @ \ caller[c].drop]]
BY DEF SyncCommits, Granted, MadeBy

\* Of the roles, it keeps the rows; of Admin and User, it writes what it has read of them.
LEMMA CommitRoles ==
    ASSUME NEW c \in Callers, SyncCommits(c), NEW r \in Roles, AuthorizationTypeOK
    PROVE  /\ role'[r].state = role[r].state
           /\ role'[r].active # role[r].active => r \in SystemRoles /\ role'[r].active = (r \in caller[c].seen)
<1> DEFINE q == caller[c]
<1>0. PICK made \in [q.missing -> {p \in Permissions : standing[p] = "unborn"}] :
        LET created == MadeBy(q, made)
            written == {s \in SystemRoles : Granted(q, s, created) # {}}
        IN  role' = [s \in Roles |->
              IF s \in written
              THEN [state |-> role[s].state, active |-> s \in q.seen, grants |-> Granted(q, s, created)]
              ELSE [role[s] EXCEPT !.grants = @ \ q.drop]]
  BY CommitPicks
<1> DEFINE created == MadeBy(q, made)
           written == {s \in SystemRoles : Granted(q, s, created) # {}}
<1>1. /\ written \subseteq SystemRoles
      /\ role' = [s \in Roles |->
            IF s \in written
            THEN [state |-> role[s].state, active |-> s \in q.seen, grants |-> Granted(q, s, created)]
            ELSE [role[s] EXCEPT !.grants = @ \ q.drop]]
  BY <1>0
<1> HIDE DEF created, written
<1> HIDE DEF q
<1>2. role[r] \in [state : {"unborn", "live", "deleted"}, active : BOOLEAN, grants : SUBSET Permissions]
  BY DEF AuthorizationTypeOK
<1>3. CASE r \in written
  <2>1. role'[r] = [state |-> role[r].state, active |-> r \in q.seen, grants |-> Granted(q, r, created)]
    BY <1>1, <1>3
  <2> QED
    BY <1>1, <1>3, <2>1 DEF q
<1>4. CASE r \notin written
  <2>1. role'[r] = [role[r] EXCEPT !.grants = @ \ q.drop]
    BY <1>1, <1>4
  <2> QED
    BY <1>2, <2>1
<1> QED
  BY <1>3, <1>4

LEMMA RoleRow ==
    ASSUME NEW state \in {"unborn", "live", "deleted"}, NEW grants, grants \subseteq Permissions
    PROVE  /\ [state |-> state, active |-> TRUE, grants |-> grants]
              \in [state : {"unborn", "live", "deleted"}, active : BOOLEAN, grants : SUBSET Permissions]
           /\ [state |-> state, active |-> FALSE, grants |-> grants]
              \in [state : {"unborn", "live", "deleted"}, active : BOOLEAN, grants : SUBSET Permissions]
OBVIOUS

LEMMA CommitBase ==
    ASSUME AuthorizationBase, NEW c \in Callers, SyncCommits(c)
    PROVE  AuthorizationBase'
<1> DEFINE q == caller[c]
<1>0. /\ standing \in [Permissions -> {"unborn", "live", "deleted", "removed"}]
      /\ route \in [Permissions -> Routes \union {NoRoute}]
      /\ LiveRouted /\ \A p, t \in Live : route[p] = route[t] => p = t
      /\ role \in [Roles -> [state : {"unborn", "live", "deleted"}, active : BOOLEAN, grants : SUBSET Permissions]]
      /\ \A r \in Roles : role[r].grants \subseteq Referable
      /\ role[Admin].state = "live" /\ role[Admin].active
      /\ q \in Calls /\ CallOK(q)
  BY DEF AuthorizationBase, AuthorizationTypeOK
<1>1. /\ q.listed \subseteq Referable /\ (\A m \in q.missing : ~HasRoute(m, q.drop))
      /\ Written(c, Free) /\ q.pc = "commit"
  BY DEF SyncCommits
<1>2. /\ Admin \in q.seen /\ q.allowed \subseteq q.listed /\ q.listed \intersect q.drop = {}
      /\ q.missing \subseteq Routes /\ q.drop \subseteq Permissions
  BY <1>0, <1>1, AuthorizationAssumption DEF CallOK, Calls
<1>3. PICK made \in [q.missing -> {p \in Permissions : standing[p] = "unborn"}] :
        LET created == MadeBy(q, made)
            written == {r \in SystemRoles : Granted(q, r, created) # {}}
        IN  /\ \A m, n \in q.missing : made[m] = made[n] => m = n
            /\ standing' = [p \in Permissions |-> IF p \in created THEN "live"
                              ELSE IF p \in q.drop THEN "removed" ELSE standing[p]]
            /\ route' = [p \in Permissions |-> IF p \in created
                           THEN CHOOSE m \in q.missing : made[m] = p ELSE route[p]]
            /\ role' = [r \in Roles |->
                  IF r \in written
                  THEN [state |-> role[r].state, active |-> r \in q.seen, grants |-> Granted(q, r, created)]
                  ELSE [role[r] EXCEPT !.grants = @ \ q.drop]]
  BY CommitPicks
<1> DEFINE created == MadeBy(q, made)
           written == {r \in SystemRoles : Granted(q, r, created) # {}}
<1>14. created = {made[m] : m \in q.missing}
  BY DEF MadeBy
<1>15. /\ standing' = [p \in Permissions |-> IF p \in created THEN "live"
                         ELSE IF p \in q.drop THEN "removed" ELSE standing[p]]
       /\ route' = [p \in Permissions |-> IF p \in created
                      THEN CHOOSE m \in q.missing : made[m] = p ELSE route[p]]
       /\ role' = [r \in Roles |->
             IF r \in written
             THEN [state |-> role[r].state, active |-> r \in q.seen, grants |-> Granted(q, r, created)]
             ELSE [role[r] EXCEPT !.grants = @ \ q.drop]]
  BY <1>3
<1>16. \A m, n \in q.missing : made[m] = made[n] => m = n
  BY <1>3
<1> HIDE DEF q, created, written
<1>4. created \subseteq Permissions /\ \A p \in created : standing[p] = "unborn"
  BY <1>3, <1>14
<1>5. Live' = created \union (Live \ q.drop) /\ Referable' = created \union (Referable \ q.drop)
  BY <1>4, <1>15 DEF Live, Referable
<1>6. /\ \A m \in q.missing : made[m] \in created /\ route'[made[m]] = m
      /\ \A p \in Permissions \ created : route'[p] = route[p]
  BY <1>4, <1>14, <1>15, <1>16
<1>7. \A p \in created : route'[p] \in q.missing /\ made[route'[p]] = p
  BY <1>6, <1>14
<1>8. \A p \in Live \ q.drop : route'[p] = route[p] /\ route[p] \notin q.missing /\ route[p] \in Routes
  BY <1>0, <1>1, <1>4, <1>6 DEF Live, HasRoute, LiveRouted
<1>9. LiveRouted' /\ \A p, t \in Live' : route'[p] = route'[t] => p = t
  <2>1. LiveRouted'
    BY <1>2, <1>5, <1>7, <1>8 DEF LiveRouted
  <2>2. \A p, t \in Live' : route'[p] = route'[t] => p = t
    BY <1>0, <1>5, <1>7, <1>8
  <2> QED
    BY <2>1, <2>2
<1>10. /\ standing' \in [Permissions -> {"unborn", "live", "deleted", "removed"}]
       /\ route' \in [Permissions -> Routes \union {NoRoute}]
  <2>1. standing' \in [Permissions -> {"unborn", "live", "deleted", "removed"}]
    BY <1>0, <1>15
  <2>2. \A p \in Permissions : route'[p] \in Routes \union {NoRoute}
    BY <1>0, <1>2, <1>6, <1>7
  <2> QED
    BY <1>15, <2>1, <2>2
<1>11. ASSUME NEW r \in Roles
       PROVE  /\ role'[r] \in [state : {"unborn", "live", "deleted"}, active : BOOLEAN, grants : SUBSET Permissions]
              /\ role'[r].grants \subseteq Referable' /\ role'[r].state = role[r].state
              /\ r = Admin => role'[r].active
  <2>1. CASE r \in written
    <3>1. /\ role'[r].state = role[r].state /\ role'[r].grants = Granted(q, r, created)
          /\ role'[r].active = (r \in q.seen)
          /\ role'[r] = [state |-> role[r].state, active |-> r \in q.seen, grants |-> Granted(q, r, created)]
      BY <1>15, <2>1
    <3>2. Granted(q, r, created) \subseteq q.listed \union created
      BY <1>2 DEF Granted
    <3>3. Granted(q, r, created) \subseteq Referable'
      BY <1>1, <1>2, <1>5, <3>2
    <3>4. Granted(q, r, created) \subseteq Permissions
      BY <1>1, <1>4, <3>2 DEF Referable
    <3>5. role[r].state \in {"unborn", "live", "deleted"}
      BY <1>0
    <3>6. r = Admin => role'[r].active
      BY <1>2, <3>1
    <3>7. role'[r] \in [state : {"unborn", "live", "deleted"}, active : BOOLEAN, grants : SUBSET Permissions]
      <4>1. CASE r \in q.seen
        <5>1. role'[r] = [state |-> role[r].state, active |-> TRUE, grants |-> Granted(q, r, created)]
          BY <3>1, <4>1
        <5>2. [state |-> role[r].state, active |-> TRUE, grants |-> Granted(q, r, created)]
              \in [state : {"unborn", "live", "deleted"}, active : BOOLEAN, grants : SUBSET Permissions]
          BY <3>4, <3>5, RoleRow
        <5> QED
          BY <5>1, <5>2
      <4>2. CASE r \notin q.seen
        <5>0. (r \in q.seen) = FALSE
          BY <4>2
        <5>1. role'[r] = [state |-> role[r].state, active |-> FALSE, grants |-> Granted(q, r, created)]
          BY <3>1, <5>0, Zenon
        <5>2. [state |-> role[r].state, active |-> FALSE, grants |-> Granted(q, r, created)]
              \in [state : {"unborn", "live", "deleted"}, active : BOOLEAN, grants : SUBSET Permissions]
          BY <3>4, <3>5, RoleRow
        <5> QED
          BY <5>1, <5>2
      <4> QED
        BY <4>1, <4>2
    <3> QED
      BY <3>1, <3>3, <3>6, <3>7
  <2>2. CASE r \notin written
    <3>1. role'[r] = [role[r] EXCEPT !.grants = @ \ q.drop]
      BY <1>15, <2>2
    <3>2. role[r].grants \ q.drop \subseteq Referable' /\ role[r].grants \ q.drop \subseteq Permissions
      BY <1>0, <1>5
    <3> QED
      BY <1>0, <3>1, <3>2
  <2> QED
    BY <2>1, <2>2
<1>12. /\ caller' \in [Callers -> Calls] /\ \A d \in Callers : CallOK(caller[d])'
       /\ cached' \in [set : BOOLEAN, copy : Copied, spoilt : BOOLEAN]
       /\ watched' \in Roles /\ calls' \in 0..MaxCalls
  BY <1>1, FreeType, WrittenBase
<1>13. /\ role' \in [Roles -> [state : {"unborn", "live", "deleted"}, active : BOOLEAN, grants : SUBSET Permissions]]
       /\ role'[Admin].state = "live" /\ role'[Admin].active
  BY <1>0, <1>11, <1>15 DEF Roles, SystemRoles
<1> QED
  BY <1>9, <1>10, <1>11, <1>12, <1>13 DEF AuthorizationBase, AuthorizationTypeOK

LEMMA AuthorizationBaseStep ==
    ASSUME AuthorizationBase, [AuthorizationNext]_authorizationVars
    PROVE  AuthorizationBase'
<1>1. ASSUME NEW c \in Callers, ReadsOfRole(c) PROVE AuthorizationBase'
  BY <1>1, ReadsBase DEF ReadsOfRole
<1>2. ASSUME NEW c \in Callers, Administers(c) PROVE AuthorizationBase'
  <2>1. CASE InvalidateRole(c)
    <3>1. cached' \in [set : BOOLEAN, copy : Copied, spoilt : BOOLEAN]
      BY <2>1, NoRoleEntryType DEF InvalidateRole, AuthorizationBase, AuthorizationTypeOK
    <3> QED
      BY <2>1, <3>1, EndsBase DEF InvalidateRole
  <2> QED
    BY <1>2, <2>1, StartsBase, RoleWritesBase, PermissionsBase DEF Administers
<1>3. ASSUME NEW c \in Callers, Synchronises(c) PROVE AuthorizationBase'
  BY <1>3, SyncReadsBase, CommitBase DEF Synchronises
<1>4. ASSUME NEW c \in Callers, CallerFails(c) PROVE AuthorizationBase'
  <2>1. cached' \in [set : BOOLEAN, copy : Copied, spoilt : BOOLEAN]
    <3>1. cached \in [set : BOOLEAN, copy : Copied, spoilt : BOOLEAN]
      BY DEF AuthorizationBase, AuthorizationTypeOK
    <3>2. PICK b \in BOOLEAN : cached' = [cached EXCEPT !.spoilt = b]
      BY <1>4, <3>1 DEF CallerFails
    <3> QED
      BY <3>1, <3>2
  <2> QED
    BY <1>4, <2>1, EndsBase DEF CallerFails
<1>5. CASE RoleEntryExpires
  <2>1. /\ cached' \in [set : BOOLEAN, copy : Copied, spoilt : BOOLEAN]
        /\ UNCHANGED <<role, standing, route, watched, caller, calls>>
    BY <1>5, NoRoleEntryType DEF RoleEntryExpires, permissionVars
  <2>2. Live' = Live /\ Referable' = Referable
    BY <2>1 DEF Live, Referable
  <2> QED
    BY <2>1, <2>2 DEF AuthorizationBase, AuthorizationTypeOK, LiveRouted, CallOK
<1>6. CASE UNCHANGED authorizationVars
  <2>1. UNCHANGED <<role, standing, route, watched, cached, caller, calls>>
    BY <1>6 DEF authorizationVars
  <2>2. Live' = Live /\ Referable' = Referable
    BY <2>1 DEF Live, Referable
  <2> QED
    BY <2>1, <2>2 DEF AuthorizationBase, AuthorizationTypeOK, LiveRouted, CallOK
<1> QED
  BY <1>1, <1>2, <1>3, <1>4, <1>5, <1>6 DEF AuthorizationNext

LEMMA AuthorizationBaseInit == AuthorizationInit => AuthorizationBase
<1> SUFFICES ASSUME AuthorizationInit PROVE AuthorizationBase
  OBVIOUS
<1>1. PICK f \in [Catalogue -> Permissions] :
        /\ \A m, n \in Catalogue : f[m] = f[n] => m = n
        /\ standing = [p \in Permissions |-> IF \E m \in Catalogue : f[m] = p THEN "live" ELSE "unborn"]
        /\ route = [p \in Permissions |->
              IF \E m \in Catalogue : f[m] = p THEN CHOOSE m \in Catalogue : f[m] = p ELSE NoRoute]
  BY DEF AuthorizationInit
<1>2. /\ Live = {p \in Permissions : \E m \in Catalogue : f[m] = p} /\ Live \subseteq Referable
      /\ Live \subseteq Permissions
  BY <1>1 DEF Live, Referable
<1>3. \A p \in Live : route[p] \in Catalogue /\ f[route[p]] = p
  BY <1>1, <1>2
<1>4. LiveRouted /\ \A p, t \in Live : route[p] = route[t] => p = t
  BY <1>3, AuthorizationAssumption DEF LiveRouted
<1>5. /\ standing \in [Permissions -> {"unborn", "live", "deleted", "removed"}]
      /\ route \in [Permissions -> Routes \union {NoRoute}]
  <2>1. \A p \in Permissions \ Live : route[p] = NoRoute
    BY <1>1, <1>2
  <2>2. \A p \in Permissions : route[p] \in Routes \union {NoRoute}
    BY <1>3, <2>1, AuthorizationAssumption
  <2> QED
    BY <1>1, <2>2
<1>6. role = [r \in Roles |->
          [state |-> IF r \in SystemRoles THEN "live" ELSE "unborn", active |-> r \in SystemRoles,
           grants |-> CASE r = Admin -> Live
                        [] r = User  -> {p \in Live : route[p] \in UserRoutes}
                        [] OTHER     -> {}]]
  BY DEF AuthorizationInit
<1>7. ASSUME NEW r \in Roles
      PROVE  /\ role[r] \in [state : {"unborn", "live", "deleted"}, active : BOOLEAN, grants : SUBSET Permissions]
             /\ role[r].grants \subseteq Referable
  <2>1. role[r].grants \subseteq Live
    BY <1>6
  <2>2. role[r].grants \subseteq Permissions /\ role[r].grants \subseteq Referable
    BY <1>2, <2>1
  <2>3. CASE r \in SystemRoles
    <3>1. role[r] = [state |-> "live", active |-> TRUE, grants |-> role[r].grants]
      BY <1>6, <2>3
    <3>2. [state |-> "live", active |-> TRUE, grants |-> role[r].grants] \in
            [state : {"unborn", "live", "deleted"}, active : BOOLEAN, grants : SUBSET Permissions]
      BY <2>2, RoleRow
    <3> QED
      BY <2>2, <3>1, <3>2
  <2>4. CASE r \notin SystemRoles
    <3>0. (r \in SystemRoles) = FALSE /\ (IF r \in SystemRoles THEN "live" ELSE "unborn") = "unborn"
      BY <2>4
    <3>1. role[r] = [state |-> "unborn", active |-> FALSE, grants |-> role[r].grants]
      <4>1. role[r] = [state |-> IF r \in SystemRoles THEN "live" ELSE "unborn", active |-> r \in SystemRoles,
                       grants |-> role[r].grants]
        BY <1>6
      <4> QED
        BY <3>0, <4>1, Zenon
    <3>2. [state |-> "unborn", active |-> FALSE, grants |-> role[r].grants] \in
            [state : {"unborn", "live", "deleted"}, active : BOOLEAN, grants : SUBSET Permissions]
      BY <2>2, RoleRow
    <3> QED
      BY <2>2, <3>1, <3>2
  <2> QED
    BY <2>3, <2>4
<1>8. role[Admin].state = "live" /\ role[Admin].active
  BY <1>6 DEF Roles, SystemRoles
<1>9. role \in [Roles -> [state : {"unborn", "live", "deleted"}, active : BOOLEAN, grants : SUBSET Permissions]]
  BY <1>6, <1>7
<1>10. /\ watched \in Roles /\ cached \in [set : BOOLEAN, copy : Copied, spoilt : BOOLEAN]
       /\ caller \in [Callers -> Calls] /\ calls \in 0..MaxCalls
       /\ \A c \in Callers : CallOK(caller[c])
  BY FreeType, NoRoleEntryType, AuthorizationAssumption DEF AuthorizationInit
<1> QED
  BY <1>4, <1>5, <1>7, <1>8, <1>9, <1>10 DEF AuthorizationBase, AuthorizationTypeOK

\* The roles, the permissions and the entry keep their shape; no two live permissions have one
\* route, roles are granted rows that are there (with PostgreSQL's foreign key), and Admin is there
\* and active.
THEOREM AuthorizationTypeCorrect == AuthorizationSpec => []AuthorizationTypeOK
<1>1. AuthorizationBase => AuthorizationTypeOK
  BY DEF AuthorizationBase
<1>2. AuthorizationBase /\ [AuthorizationNext]_authorizationVars => AuthorizationBase'
  BY AuthorizationBaseStep
<1> QED
  BY <1>1, <1>2, AuthorizationBaseInit, PTL DEF AuthorizationSpec

-----------------------------------------------------------------------------
(* Authorization: what the guards decide by                                   *)

\* What a load is about to store is what the role is and may, unless a write overtook it.
LoadsTrue ==
    \A c \in Callers : caller[c].pc = "store" =>
        /\ role[watched].state # "unborn"
        /\ ~ caller[c].overtaken => caller[c].copy = RoleWithPermissions(watched)

\* There is no entry of a role before the role.
EntryOfRole == cached.set => role[watched].state # "unborn"

\* A synchronisation that was not overtaken knows which of the system roles are active.
SeenUnlessOvertaken ==
    \A c \in Callers : caller[c].pc = "commit" /\ ~ caller[c].overtaken =>
        caller[c].seen = {r \in SystemRoles : role[r].active}

AuthorizationInv == AuthorizationBase /\ LoadsTrue /\ EntryOfRole /\ SeenUnlessOvertaken /\ RolesAreObeyed

LEMMA UnchangedRole ==
    ASSUME UNCHANGED <<role, standing, route, watched>>
    PROVE  RoleWithPermissions(watched)' = RoleWithPermissions(watched)
BY DEF RoleWithPermissions, Live

\* A step of one use case keeps the rest, if what it has read is true, and if it had no entry
\* to delete.
LEMMA GoesOnInv ==
    ASSUME AuthorizationInv, NEW c \in Callers, NEW q, GoesOn(c, q), AuthorizationBase',
           caller[c].pc # "invalidate",
           q.pc = "store" => /\ role[watched].state # "unborn"
                             /\ q.copy = RoleWithPermissions(watched),
           q.pc = "commit" => q.seen = {r \in SystemRoles : role[r].active}
    PROVE  AuthorizationInv'
<1>1. UNCHANGED <<role, standing, route, watched, cached>>
  BY DEF GoesOn, permissionVars
<1>2. RoleWithPermissions(watched)' = RoleWithPermissions(watched)
  BY <1>1, UnchangedRole
<1>3. \A d \in Callers : caller'[d] = IF d = c THEN q ELSE caller[d]
  BY DEF GoesOn, AuthorizationInv, AuthorizationBase, AuthorizationTypeOK
<1>4. LoadsTrue'
  BY <1>1, <1>2, <1>3 DEF AuthorizationInv, LoadsTrue
<1>5. EntryOfRole'
  BY <1>1 DEF AuthorizationInv, EntryOfRole
<1>6. SeenUnlessOvertaken'
  BY <1>1, <1>3 DEF AuthorizationInv, SeenUnlessOvertaken
<1>7. RolesAreObeyed'
  BY <1>1, <1>2, <1>3 DEF AuthorizationInv, RolesAreObeyed
<1> QED
  BY <1>4, <1>5, <1>6, <1>7 DEF AuthorizationInv

\* A use case that ends, and what becomes of the entry.
LEMMA EndsInv ==
    ASSUME AuthorizationInv, NEW c \in Callers, caller' = [caller EXCEPT ![c] = Free],
           UNCHANGED <<role, permissionVars, watched>>, AuthorizationBase', EntryOfRole', RolesAreObeyed'
    PROVE  AuthorizationInv'
<1>1. UNCHANGED <<role, standing, route, watched>>
  BY DEF permissionVars
<1>2. RoleWithPermissions(watched)' = RoleWithPermissions(watched)
  BY <1>1, UnchangedRole
<1>3. \A d \in Callers : caller'[d] = IF d = c THEN Free ELSE caller[d]
  BY DEF AuthorizationInv, AuthorizationBase, AuthorizationTypeOK
<1>4. Free.pc = "idle"
  BY DEF Free
<1>5. LoadsTrue'
  BY <1>1, <1>2, <1>3, <1>4 DEF AuthorizationInv, LoadsTrue
<1>6. SeenUnlessOvertaken'
  BY <1>1, <1>3, <1>4 DEF AuthorizationInv, SeenUnlessOvertaken
<1> QED
  BY <1>5, <1>6 DEF AuthorizationInv

\* A write that changes what the role is and may outdates what others have read of it, and
\* spoils the entry, unless its request goes on to delete the entry.
LEMMA WrittenInv ==
    ASSUME AuthorizationInv, NEW c \in Callers, NEW q, Written(c, q), AuthorizationBase',
           caller[c].pc # "invalidate", q.pc \notin {"store", "commit"},
           \A r \in Roles : role[r].state # "unborn" => role'[r].state # "unborn",
           RoleWithPermissions(watched)' # RoleWithPermissions(watched) =>
               \/ caller[c].op \notin {"update", "deleteRole"}
               \/ q.pc = "invalidate" /\ q.role = watched
    PROVE  AuthorizationInv'
<1> DEFINE changed == RoleWithPermissions(watched)' # RoleWithPermissions(watched)
           other == \E r \in SystemRoles : role'[r].active # role[r].active
<1>1. watched' = watched /\ watched \in Roles /\ caller' \in [Callers -> Calls] /\ caller'[c] = q
  BY DEF Written, AuthorizationInv, AuthorizationBase, AuthorizationTypeOK
<1>2. ASSUME NEW d \in Callers \ {c}
      PROVE  /\ caller'[d].pc = caller[d].pc /\ caller'[d].role = caller[d].role
             /\ caller'[d].copy = caller[d].copy /\ caller'[d].seen = caller[d].seen
             /\ ~ caller'[d].overtaken => /\ ~ caller[d].overtaken
                                          /\ caller[d].pc = "store" => ~ changed
                                          /\ caller[d].pc = "commit" => ~ other
  <2>1. caller'[d] = [caller[d] EXCEPT !.overtaken =
                        @ \/ (caller[d].pc = "store" /\ changed) \/ (caller[d].pc = "commit" /\ other)]
    BY DEF Written
  <2> HIDE DEF changed, other
  <2>2. caller[d] \in Calls
    BY DEF AuthorizationInv, AuthorizationBase, AuthorizationTypeOK
  <2>3. caller'[d].overtaken = (\/ caller[d].overtaken
                                \/ caller[d].pc = "store" /\ changed
                                \/ caller[d].pc = "commit" /\ other)
    BY <2>1, <2>2 DEF Calls
  <2>4. /\ caller'[d].pc = caller[d].pc /\ caller'[d].role = caller[d].role
        /\ caller'[d].copy = caller[d].copy /\ caller'[d].seen = caller[d].seen
    BY <2>1, <2>2 DEF Calls
  <2> QED
    BY <2>3, <2>4
<1>3. cached' = IF cached.set /\ changed /\ caller[c].op \notin {"update", "deleteRole"}
                THEN [cached EXCEPT !.spoilt = TRUE] ELSE cached
  BY DEF Written
<1>4. cached'.set = cached.set /\ cached'.copy = cached.copy /\ (cached.spoilt => cached'.spoilt)
  BY <1>3 DEF AuthorizationInv, AuthorizationBase, AuthorizationTypeOK
<1>5. changed => \/ caller[c].op \notin {"update", "deleteRole"}
                 \/ q.pc = "invalidate" /\ q.role = watched
  OBVIOUS
<1>6. LoadsTrue'
  <2> SUFFICES ASSUME NEW d \in Callers, caller'[d].pc = "store"
               PROVE  /\ role'[watched'].state # "unborn"
                      /\ ~ caller'[d].overtaken => caller'[d].copy = RoleWithPermissions(watched)'
    BY DEF LoadsTrue
  <2>1. d # c
    BY <1>1
  <2>2. caller[d].pc = "store" /\ (~ caller'[d].overtaken => ~ caller[d].overtaken /\ ~ changed)
    BY <1>2, <2>1
  <2>3. role'[watched'].state # "unborn"
    BY <1>1, <2>2 DEF AuthorizationInv, LoadsTrue
  <2>4. ~ caller'[d].overtaken => caller'[d].copy = RoleWithPermissions(watched)'
    BY <1>2, <2>1, <2>2 DEF AuthorizationInv, LoadsTrue
  <2> QED
    BY <2>3, <2>4
<1>7. EntryOfRole'
  BY <1>1, <1>4 DEF AuthorizationInv, EntryOfRole
<1>8. SeenUnlessOvertaken'
  <2> SUFFICES ASSUME NEW d \in Callers, caller'[d].pc = "commit", ~ caller'[d].overtaken
               PROVE  caller'[d].seen = {r \in SystemRoles : role'[r].active}
    BY DEF SeenUnlessOvertaken
  <2>1. d # c
    BY <1>1
  <2>2. caller[d].pc = "commit" /\ ~ caller[d].overtaken /\ ~ other /\ caller'[d].seen = caller[d].seen
    BY <1>2, <2>1
  <2>3. \A r \in SystemRoles : role'[r].active = role[r].active
    BY <2>2
  <2> HIDE DEF other
  <2> QED
    BY <2>2, <2>3 DEF AuthorizationInv, SeenUnlessOvertaken
<1>9. RolesAreObeyed'
  <2> SUFFICES ASSUME cached'.set, cached'.copy # RoleWithPermissions(watched)', ~ cached'.spoilt
               PROVE  \E d \in Callers : caller'[d].pc = "invalidate" /\ caller'[d].role = watched'
    BY DEF RolesAreObeyed
  <2>1. cached.set /\ ~ cached.spoilt
    BY <1>4
  <2>2. CASE changed
    <3>1. caller[c].op \in {"update", "deleteRole"}
      BY <1>3, <2>1, <2>2 DEF AuthorizationInv, AuthorizationBase, AuthorizationTypeOK
    <3> QED
      BY <1>1, <1>5, <2>2, <3>1
  <2>3. CASE ~ changed
    <3>1. PICK d \in Callers : caller[d].pc = "invalidate" /\ caller[d].role = watched
      BY <1>4, <2>1, <2>3 DEF AuthorizationInv, RolesAreObeyed
    <3>2. d # c
      BY <3>1
    <3> QED
      BY <1>1, <1>2, <3>1, <3>2
  <2> QED
    BY <2>2, <2>3
<1> QED
  BY <1>6, <1>7, <1>8, <1>9 DEF AuthorizationInv

LEMMA ReadsInv ==
    ASSUME AuthorizationInv, NEW c \in Callers, AuthorizationBase',
           LoadRole(c) \/ StartWarmUp(c) \/ WarmLoad(c)
    PROVE  AuthorizationInv'
<1> Free.pc = "idle" /\ caller[c] \in Calls
  BY DEF Free, AuthorizationInv, AuthorizationBase, AuthorizationTypeOK
<1>1. CASE LoadRole(c)
  <2>1. PICK q : q = [Free EXCEPT !.pc = "store", !.op = "guard", !.copy = RoleWithPermissions(watched)] /\ GoesOn(c, q)
    BY <1>1 DEF LoadRole, Reads
  <2>2. q.pc = "store" /\ q.copy = RoleWithPermissions(watched)
    BY <2>1 DEF Free
  <2>3. caller[c].pc # "invalidate" /\ role[watched].state # "unborn"
    BY <1>1 DEF LoadRole, Reads
  <2> QED
    BY <2>1, <2>2, <2>3, GoesOnInv
<1>2. CASE StartWarmUp(c)
  <2>1. PICK q : q = [Free EXCEPT !.pc = "load", !.op = "warm"] /\ GoesOn(c, q)
    BY <1>2 DEF StartWarmUp, Reads
  <2>2. q.pc = "load" /\ caller[c].pc # "invalidate"
    BY <1>2, <2>1 DEF StartWarmUp, Reads, Free
  <2> QED
    BY <2>1, <2>2, GoesOnInv
<1>3. CASE WarmLoad(c)
  <2> DEFINE copy == RoleWithPermissions(watched)
  <2>1. PICK q : /\ q = (IF copy.found THEN [caller[c] EXCEPT !.pc = "store", !.copy = copy] ELSE Free)
                 /\ GoesOn(c, q) /\ caller[c].pc = "load"
    BY <1>3 DEF WarmLoad
  <2>2. copy.found => role[watched].state # "unborn"
    BY DEF RoleWithPermissions, NoCopyOfRole
  <2>3. q.pc # "commit" /\ (q.pc = "store" => copy.found /\ q.copy = copy)
    BY <2>1 DEF Calls
  <2> QED
    BY <2>1, <2>2, <2>3, GoesOnInv
<1> QED
  BY <1>1, <1>2, <1>3

LEMMA StoreInv ==
    ASSUME AuthorizationInv, NEW c \in Callers, AuthorizationBase', StoreRole(c)
    PROVE  AuthorizationInv'
<1>1. /\ caller[c].pc = "store" /\ caller' = [caller EXCEPT ![c] = Free]
      /\ cached' = [set |-> TRUE, copy |-> caller[c].copy, spoilt |-> caller[c].overtaken]
      /\ UNCHANGED <<role, permissionVars, watched>>
  BY DEF StoreRole
<1>2. UNCHANGED <<role, standing, route, watched>>
  BY <1>1 DEF permissionVars
<1>3. RoleWithPermissions(watched)' = RoleWithPermissions(watched)
  BY <1>2, UnchangedRole
<1>4. role[watched].state # "unborn" /\ (~ caller[c].overtaken => caller[c].copy = RoleWithPermissions(watched))
  BY <1>1 DEF AuthorizationInv, LoadsTrue
<1>5. cached'.copy = caller[c].copy /\ (~ cached'.spoilt => ~ caller[c].overtaken)
  BY <1>1
<1>6. EntryOfRole'
  BY <1>2, <1>4 DEF EntryOfRole
<1>7. RolesAreObeyed'
  BY <1>3, <1>4, <1>5 DEF RolesAreObeyed
<1> QED
  BY <1>1, <1>6, <1>7, EndsInv

LEMMA BeginsInv ==
    ASSUME AuthorizationInv, NEW c \in Callers, AuthorizationBase',
           NEW q, Begins(c, q), q.pc \in {"write", "list"}
    PROVE  AuthorizationInv'
BY GoesOnInv DEF Begins, Free

LEMMA StartsInv ==
    ASSUME AuthorizationInv, NEW c \in Callers, AuthorizationBase',
           \/ StartUpdateRole(c) \/ StartDeleteRole(c) \/ StartCreatePermission(c)
           \/ StartUpdatePermission(c) \/ StartDeletePermission(c)
           \/ SyncPermissions(c) \/ SyncRoles(c)
    PROVE  AuthorizationInv'
<1>1. CASE StartUpdateRole(c)
  <2>1. PICK r \in Roles, active \in {{}, {TRUE}, {FALSE}}, grants \in {{}} \union {{g} : g \in SUBSET Referable} :
          Begins(c, [Free EXCEPT !.pc = "write", !.op = "update", !.role = r, !.active = active, !.grants = grants])
    BY <1>1 DEF StartUpdateRole
  <2>2. [Free EXCEPT !.pc = "write", !.op = "update", !.role = r, !.active = active, !.grants = grants].pc = "write"
    BY DEF Free
  <2> QED
    BY <2>1, <2>2, BeginsInv
<1>3. CASE StartDeleteRole(c)
  <2>1. PICK r \in CustomRoles : Begins(c, [Free EXCEPT !.pc = "write", !.op = "deleteRole", !.role = r])
    BY <1>3 DEF StartDeleteRole
  <2>2. [Free EXCEPT !.pc = "write", !.op = "deleteRole", !.role = r].pc = "write"
    BY DEF Free
  <2> QED
    BY <2>1, <2>2, BeginsInv
<1>4. CASE StartCreatePermission(c)
  <2>1. PICK m \in Routes : Begins(c, [Free EXCEPT !.pc = "write", !.op = "create", !.route = m])
    BY <1>4 DEF StartCreatePermission
  <2>2. [Free EXCEPT !.pc = "write", !.op = "create", !.route = m].pc = "write"
    BY DEF Free
  <2> QED
    BY <2>1, <2>2, BeginsInv
<1>5. CASE StartUpdatePermission(c)
  <2>1. PICK p \in Live, m \in Routes :
          Begins(c, [Free EXCEPT !.pc = "write", !.op = "move", !.permissions = {p}, !.route = m])
    BY <1>5 DEF StartUpdatePermission
  <2>2. [Free EXCEPT !.pc = "write", !.op = "move", !.permissions = {p}, !.route = m].pc = "write"
    BY DEF Free
  <2> QED
    BY <2>1, <2>2, BeginsInv
<1>6. CASE StartDeletePermission(c)
  <2>1. PICK p \in Live : Begins(c, [Free EXCEPT !.pc = "write", !.op = "delete", !.permissions = {p}])
    BY <1>6 DEF StartDeletePermission
  <2>2. [Free EXCEPT !.pc = "write", !.op = "delete", !.permissions = {p}].pc = "write"
    BY DEF Free
  <2> QED
    BY <2>1, <2>2, BeginsInv
<1>7. CASE SyncPermissions(c)
  <2> DEFINE drop == {p \in Live : route[p] \notin Catalogue}
             missing == Catalogue \ {route[p] : p \in Live}
  <2>1. Begins(c, [Free EXCEPT !.pc = "list", !.op = "sync", !.drop = drop, !.missing = missing])
    BY <1>7 DEF SyncPermissions
  <2> HIDE DEF drop, missing
  <2>2. [Free EXCEPT !.pc = "list", !.op = "sync", !.drop = drop, !.missing = missing].pc = "list"
    BY DEF Free
  <2> QED
    BY <2>1, <2>2, BeginsInv
<1>2. CASE SyncRoles(c)
  <2> DEFINE activeRoles == {r \in SystemRoles : role[r].active}
  <2>1. PICK q : /\ q = [caller[c] EXCEPT !.pc = "commit", !.listed = Live \ caller[c].drop,
                           !.allowed = {p \in Live \ caller[c].drop : route[p] \in UserRoutes}, !.seen = activeRoles]
                 /\ GoesOn(c, q) /\ caller[c].pc = "list"
    BY <1>2 DEF SyncRoles
  <2>2. caller[c] \in Calls
    BY DEF AuthorizationInv, AuthorizationBase, AuthorizationTypeOK
  <2>3. q.pc = "commit" /\ q.seen = activeRoles
    BY <2>1, <2>2 DEF Calls
  <2> QED
    BY <2>1, <2>3, GoesOnInv
<1> QED
  BY <1>1, <1>2, <1>3, <1>4, <1>5, <1>6, <1>7

LEMMA RoleWritesInv ==
    ASSUME AuthorizationInv, NEW c \in Callers, AuthorizationBase', UpdateRole(c) \/ DeleteRole(c)
    PROVE  AuthorizationInv'
<1> DEFINE r == caller[c].role
<1>0. /\ role \in [Roles -> [state : {"unborn", "live", "deleted"}, active : BOOLEAN, grants : SUBSET Permissions]]
      /\ CallOK(caller[c])
  BY DEF AuthorizationInv, AuthorizationBase, AuthorizationTypeOK
<1>1. r \in Roles /\ Written(c, Invalidates(r)) /\ caller[c].pc = "write" /\ UNCHANGED <<standing, route>>
  BY <1>0 DEF UpdateRole, DeleteRole, CallOK, permissionVars, Roles
<1>2. /\ \A s \in Roles \ {r} : role'[s] = role[s]
      /\ role[r].state = "live" /\ role'[r].state \in {"live", "deleted"}
  <2>1. CASE UpdateRole(c)
    BY <1>0, <1>1, <2>1 DEF UpdateRole
  <2>2. CASE DeleteRole(c)
    BY <1>0, <1>1, <2>2 DEF DeleteRole
  <2> QED
    BY <2>1, <2>2
<1>3. Invalidates(r).pc = "invalidate" /\ Invalidates(r).role = r
  BY DEF Invalidates, Free
<1>4. watched' = watched /\ watched \in Roles
  BY <1>1 DEF Written, AuthorizationInv, AuthorizationBase, AuthorizationTypeOK
<1> HIDE DEF r
<1>5. RoleWithPermissions(watched)' # RoleWithPermissions(watched) => r = watched
  <2> SUFFICES ASSUME r # watched PROVE RoleWithPermissions(watched)' = RoleWithPermissions(watched)
    OBVIOUS
  <2>1. role'[watched'] = role[watched] /\ Live' = Live
    BY <1>1, <1>2, <1>4 DEF Live
  <2> QED
    BY <1>1, <2>1 DEF RoleWithPermissions
<1>6. \A s \in Roles : role[s].state # "unborn" => role'[s].state # "unborn"
  BY <1>2
<1> QED
  BY <1>1, <1>3, <1>5, <1>6, WrittenInv

LEMMA PermissionWritesInv ==
    ASSUME AuthorizationInv, NEW c \in Callers, AuthorizationBase',
           CreatePermission(c) \/ UpdatePermission(c) \/ DeletePermission(c) \/ SyncCommits(c)
    PROVE  AuthorizationInv'
<1>1. Written(c, Free) /\ caller[c].pc \in {"write", "commit"} /\ caller[c].op \notin {"update", "deleteRole"}
  <2>1. CallOK(caller[c])
    BY DEF AuthorizationInv, AuthorizationBase
  <2> QED
    BY <2>1 DEF CreatePermission, UpdatePermission, DeletePermission, SyncCommits, CallOK
<1>2. \A r \in Roles : role'[r].state = role[r].state
  <2>1. CASE SyncCommits(c)
    BY <2>1, CommitRoles DEF AuthorizationInv, AuthorizationBase
  <2> QED
    BY <2>1 DEF CreatePermission, UpdatePermission, DeletePermission
<1>3. Free.pc = "idle"
  BY DEF Free
<1> QED
  BY <1>1, <1>2, <1>3, WrittenInv

LEMMA CreateRoleInv ==
    ASSUME AuthorizationInv, NEW c \in Callers, AuthorizationBase', CreateRole(c)
    PROVE  AuthorizationInv'
<1>1. PICK r \in CustomRoles : /\ role[r].state = "unborn"
                               /\ \E new : new.state = "live" /\ role' = [role EXCEPT ![r] = new]
  BY DEF CreateRole
<1>2. UNCHANGED <<standing, route, watched, cached, caller>>
  BY DEF CreateRole, permissionVars
<1>3. /\ role \in [Roles -> [state : {"unborn", "live", "deleted"}, active : BOOLEAN, grants : SUBSET Permissions]]
      /\ watched \in Roles
  BY DEF AuthorizationInv, AuthorizationBase, AuthorizationTypeOK
<1>4. (\A s \in Roles \ {r} : role'[s] = role[s]) /\ role'[r].state = "live" /\ r \in Roles
  BY <1>1, <1>3 DEF Roles
<1>5. role[watched].state # "unborn" =>
        role'[watched].state # "unborn" /\ RoleWithPermissions(watched)' = RoleWithPermissions(watched)
  <2> SUFFICES ASSUME role[watched].state # "unborn"
               PROVE  role'[watched].state # "unborn" /\ RoleWithPermissions(watched)' = RoleWithPermissions(watched)
    OBVIOUS
  <2>1. role'[watched'] = role[watched] /\ Live' = Live
    BY <1>1, <1>2, <1>3, <1>4 DEF Live
  <2> QED
    BY <1>2, <2>1 DEF RoleWithPermissions
<1>6. LoadsTrue'
  BY <1>2, <1>5 DEF AuthorizationInv, LoadsTrue
<1>7. EntryOfRole'
  BY <1>2, <1>5 DEF AuthorizationInv, EntryOfRole
<1>8. SeenUnlessOvertaken'
  <2>1. \A s \in SystemRoles : role'[s].active = role[s].active
    BY <1>4, AuthorizationAssumption DEF Roles
  <2> QED
    BY <1>2, <2>1 DEF AuthorizationInv, SeenUnlessOvertaken
<1>9. RolesAreObeyed'
  <2> SUFFICES ASSUME cached.set PROVE RolesAreObeyed'
    BY <1>2 DEF RolesAreObeyed
  <2>1. RoleWithPermissions(watched)' = RoleWithPermissions(watched)
    BY <1>5 DEF AuthorizationInv, EntryOfRole
  <2> QED
    BY <1>2, <2>1 DEF AuthorizationInv, RolesAreObeyed
<1> QED
  BY <1>6, <1>7, <1>8, <1>9 DEF AuthorizationInv

LEMMA AuthorizationInvStep ==
    ASSUME AuthorizationInv, [AuthorizationNext]_authorizationVars
    PROVE  AuthorizationInv'
<1> AuthorizationBase'
  BY AuthorizationBaseStep DEF AuthorizationInv
<1>1. ASSUME NEW c \in Callers, ReadsOfRole(c) PROVE AuthorizationInv'
  BY <1>1, ReadsInv, StoreInv DEF ReadsOfRole
<1>2. ASSUME NEW c \in Callers, InvalidateRole(c) PROVE AuthorizationInv'
  <2>1. /\ caller' = [caller EXCEPT ![c] = Free] /\ UNCHANGED <<role, permissionVars, watched>>
        /\ cached' = (IF caller[c].role = watched THEN NoRoleEntry ELSE cached) /\ ~ NoRoleEntry.set
    BY <1>2 DEF InvalidateRole, NoRoleEntry
  <2>2. EntryOfRole'
    BY <2>1 DEF AuthorizationInv, EntryOfRole
  <2>3. RoleWithPermissions(watched)' = RoleWithPermissions(watched)
    BY <2>1, UnchangedRole DEF permissionVars
  <2>4. RolesAreObeyed'
    <3>1. CASE caller[c].role = watched
      BY <2>1, <3>1 DEF RolesAreObeyed
    <3>2. CASE caller[c].role # watched
      <4>1. \A d \in Callers : caller[d].pc = "invalidate" /\ caller[d].role = watched => caller'[d] = caller[d]
        BY <2>1, <3>2 DEF AuthorizationInv, AuthorizationBase, AuthorizationTypeOK
      <4> QED
        BY <2>1, <2>3, <3>2, <4>1 DEF AuthorizationInv, RolesAreObeyed
    <3> QED
      BY <3>1, <3>2
  <2> QED
    BY <2>1, <2>2, <2>4, EndsInv
<1>3. ASSUME NEW c \in Callers, Administers(c) PROVE AuthorizationInv'
  BY <1>2, <1>3, StartsInv, RoleWritesInv, CreateRoleInv, PermissionWritesInv DEF Administers
<1>4. ASSUME NEW c \in Callers, Synchronises(c) PROVE AuthorizationInv'
  BY <1>4, StartsInv, PermissionWritesInv DEF Synchronises
<1>5. ASSUME NEW c \in Callers, CallerFails(c) PROVE AuthorizationInv'
  <2> DEFINE lost == cached.set /\ caller[c].role = watched /\ caller[c].pc = "invalidate"
  <2>1. /\ caller' = [caller EXCEPT ![c] = Free] /\ UNCHANGED <<role, permissionVars, watched>>
        /\ cached' = [cached EXCEPT !.spoilt = @ \/ lost]
    BY <1>5 DEF CallerFails
  <2> HIDE DEF lost
  <2>2. cached' = [cached EXCEPT !.spoilt = cached.spoilt \/ lost]
    BY <2>1
  <2>3. cached'.spoilt = (cached.spoilt \/ lost)
    BY <2>2 DEF AuthorizationInv, AuthorizationBase, AuthorizationTypeOK
  <2>4. cached'.set = cached.set /\ cached'.copy = cached.copy
    BY <2>2 DEF AuthorizationInv, AuthorizationBase, AuthorizationTypeOK
  <2>5. EntryOfRole'
    BY <2>1, <2>4 DEF AuthorizationInv, EntryOfRole
  <2>6. RoleWithPermissions(watched)' = RoleWithPermissions(watched)
    BY <2>1, UnchangedRole DEF permissionVars
  <2>7. RolesAreObeyed'
    <3> SUFFICES ASSUME cached'.set, cached'.copy # RoleWithPermissions(watched)', ~ cached'.spoilt
                 PROVE  \E d \in Callers : caller'[d].pc = "invalidate" /\ caller'[d].role = watched'
      BY DEF RolesAreObeyed
    <3>1. ~ lost /\ ~ cached.spoilt
      BY <2>3
    <3>2. PICK d \in Callers : caller[d].pc = "invalidate" /\ caller[d].role = watched
      BY <2>4, <2>6, <3>1 DEF AuthorizationInv, RolesAreObeyed
    <3>3. d # c
      BY <2>4, <3>1, <3>2 DEF lost
    <3>4. caller'[d] = caller[d]
      BY <2>1, <3>3 DEF AuthorizationInv, AuthorizationBase, AuthorizationTypeOK
    <3> QED
      BY <2>1, <3>2, <3>4
  <2> QED
    BY <2>1, <2>5, <2>7, EndsInv
<1>6. CASE RoleEntryExpires
  <2>1. ~ cached'.set /\ UNCHANGED <<role, standing, route, watched, caller>>
    BY <1>6 DEF RoleEntryExpires, NoRoleEntry, permissionVars
  <2>2. RoleWithPermissions(watched)' = RoleWithPermissions(watched)
    BY <2>1, UnchangedRole
  <2> QED
    BY <2>1, <2>2 DEF AuthorizationInv, LoadsTrue, EntryOfRole, SeenUnlessOvertaken, RolesAreObeyed
<1>7. CASE UNCHANGED authorizationVars
  <2>1. UNCHANGED <<role, standing, route, watched, cached, caller>>
    BY <1>7 DEF authorizationVars
  <2>2. RoleWithPermissions(watched)' = RoleWithPermissions(watched)
    BY <2>1, UnchangedRole
  <2> QED
    BY <2>1, <2>2 DEF AuthorizationInv, LoadsTrue, EntryOfRole, SeenUnlessOvertaken, RolesAreObeyed
<1> QED
  BY <1>1, <1>3, <1>4, <1>5, <1>6, <1>7 DEF AuthorizationNext

LEMMA AuthorizationInvInit == AuthorizationInit => AuthorizationInv
<1> SUFFICES ASSUME AuthorizationInit PROVE AuthorizationInv
  OBVIOUS
<1>1. AuthorizationBase
  BY AuthorizationBaseInit
<1>2. ~ cached.set /\ \A c \in Callers : caller[c].pc = "idle"
  BY DEF AuthorizationInit, NoRoleEntry, Free
<1> QED
  BY <1>1, <1>2 DEF AuthorizationInv, LoadsTrue, EntryOfRole, SeenUnlessOvertaken, RolesAreObeyed

\* RolesAreObeyed: what the entry of a role says is what the role is and may, unless a write
\* overtook the load that stored it, or deletes no entry, or died before it did, or is about to
\* delete it (verifyRole, update-role, delete-role).
THEOREM RolesAreTrue == AuthorizationSpec => []RolesAreObeyed
<1>1. AuthorizationInv => RolesAreObeyed
  BY DEF AuthorizationInv
<1>2. AuthorizationInv /\ [AuthorizationNext]_authorizationVars => AuthorizationInv'
  BY AuthorizationInvStep
<1> QED
  BY <1>1, <1>2, AuthorizationInvInit, PTL DEF AuthorizationSpec

\* Who changes whether a role is active has been asked to, or is a synchronisation that was
\* overtaken by such a change.
LEMMA ActiveStep ==
    ASSUME AuthorizationInv, AuthorizationNext, NEW r \in Roles,
           role[r].state = "live", role'[r].active # role[r].active
    PROVE  \E c \in Callers :
              \/ caller[c].pc = "write" /\ caller[c].role = r /\ caller[c].active = {role'[r].active}
              \/ caller[c].pc = "commit" /\ caller[c].overtaken
<1>0. role \in [Roles -> [state : {"unborn", "live", "deleted"}, active : BOOLEAN, grants : SUBSET Permissions]]
  BY SMTT(40) DEF AuthorizationInv, AuthorizationBase, AuthorizationTypeOK
<1>1. PICK c \in Callers : UpdateRole(c) \/ DeleteRole(c) \/ CreateRole(c) \/ SyncCommits(c)
  BY ZenonT(60) DEF AuthorizationNext, ReadsOfRole, LoadRole, StartWarmUp, WarmLoad, StoreRole, Administers,
         StartUpdateRole, StartDeleteRole, StartCreatePermission, CreatePermission, StartUpdatePermission,
         UpdatePermission, StartDeletePermission, DeletePermission, InvalidateRole, Synchronises,
         SyncPermissions, SyncRoles, CallerFails, RoleEntryExpires, Reads, Begins, GoesOn
<1>2. CASE UpdateRole(c)
  <2> DEFINE active == caller[c].active
             grants == Replaced(role[caller[c].role].grants, caller[c].grants)
  <2>1. /\ caller[c].pc = "write" /\ caller[c].role \in Roles /\ active \in {{}, {TRUE}, {FALSE}}
        /\ role' = [role EXCEPT ![caller[c].role].active = Replaced(role[caller[c].role].active, active),
                                ![caller[c].role].grants = grants]
    BY <1>2 DEF UpdateRole, CallOK, AuthorizationInv, AuthorizationBase
  <2> HIDE DEF active, grants
  <2>2. caller[c].role = r
    BY <1>0, <2>1
  <2>3. role'[r].active = Replaced(role[r].active, active)
    BY <1>0, <2>1, <2>2
  <2>4. active # {} /\ role'[r].active \in active
    BY <2>3, ReplacedOf
  <2>5. active = {role'[r].active}
    BY <2>1, <2>4
  <2> QED
    BY <2>1, <2>2, <2>5 DEF active
<1>3. CASE DeleteRole(c)
  BY <1>0, <1>3 DEF DeleteRole
<1>4. CASE CreateRole(c)
  <2>1. PICK s \in CustomRoles : /\ role[s].state = "unborn"
                                 /\ \E new : new.state = "live" /\ role' = [role EXCEPT ![s] = new]
    BY <1>4 DEF CreateRole
  <2> QED
    BY <1>0, <2>1
<1>5. CASE SyncCommits(c)
  <2>1. r \in SystemRoles /\ role'[r].active = (r \in caller[c].seen)
    BY <1>5, CommitRoles DEF AuthorizationInv, AuthorizationBase
  <2>2. caller[c].pc = "commit"
    BY <1>5 DEF SyncCommits
  <2>3. ASSUME ~ caller[c].overtaken PROVE FALSE
    <3>1. caller[c].seen = {s \in SystemRoles : role[s].active}
      BY <2>2, <2>3 DEF AuthorizationInv, SeenUnlessOvertaken
    <3>2. (r \in caller[c].seen) <=> role[r].active
      BY <2>1, <3>1
    <3>3. role[r].active \in BOOLEAN
      BY <1>0
    <3> QED
      BY <2>1, <3>2, <3>3
  <2> QED
    BY <2>2, <2>3
<1> QED
  BY <1>1, <1>2, <1>3, <1>4, <1>5

\* ActiveIsKept: a role is switched on or off only by an update that asks for it, or by a
\* synchronisation that had read the roles before such an update (syncPermissionsToRole).
THEOREM ActiveStays == AuthorizationSpec => ActiveIsKept
<1>1. AuthorizationInv /\ [AuthorizationNext]_authorizationVars
      => [\A r \in Roles : role[r].state = "live" /\ role'[r].active # role[r].active =>
            \E c \in Callers :
               \/ caller[c].pc = "write" /\ caller[c].role = r /\ caller[c].active = {role'[r].active}
               \/ caller[c].pc = "commit" /\ caller[c].overtaken]_authorizationVars
  BY ActiveStep
<1>2. AuthorizationInv /\ [AuthorizationNext]_authorizationVars => AuthorizationInv'
  BY AuthorizationInvStep
<1> QED
  BY <1>1, <1>2, AuthorizationInvInit, PTL DEF AuthorizationSpec, ActiveIsKept

-----------------------------------------------------------------------------
(* Profiles: the owner of a name                                              *)

OwnerAmong(users, names, n) ==
    IF \E u \in users : names[u] = n THEN CHOOSE u \in users : names[u] = n ELSE Nobody

LEMMA OwnerIsAmong == \A n : Owner(n) = OwnerAmong(present, userName, n)
BY DEF Owner, OwnerAmong

\* The one user who has the name, or nobody.
LEMMA OwnerAmongIs ==
    ASSUME NEW users, NEW names, NEW n, Nobody \notin users,
           \A u, v \in users : names[u] = n /\ names[v] = n => u = v
    PROVE  /\ OwnerAmong(users, names, n) \in users \union {Nobody}
           /\ \A u \in users : names[u] = n <=> OwnerAmong(users, names, n) = u
<1>1. CASE \E u \in users : names[u] = n
  <2> DEFINE who == CHOOSE u \in users : names[u] = n
  <2>1. who \in users /\ names[who] = n
    BY <1>1
  <2>2. OwnerAmong(users, names, n) = who
    BY <1>1 DEF OwnerAmong
  <2> HIDE DEF who
  <2> QED
    BY <2>1, <2>2
<1>2. CASE ~ \E u \in users : names[u] = n
  <2>1. OwnerAmong(users, names, n) = Nobody
    BY <1>2 DEF OwnerAmong
  <2> QED
    BY <1>2, <2>1
<1> QED
  BY <1>1, <1>2

\* Whoever has the name has it still, and nobody else got it.
LEMMA OwnerAgrees ==
    ASSUME NEW users, NEW names, NEW later, NEW renamed, NEW n, Nobody \notin users, Nobody \notin later,
           \A u, v \in users : names[u] = n /\ names[v] = n => u = v,
           \A u : u \in users /\ names[u] = n <=> u \in later /\ renamed[u] = n
    PROVE  OwnerAmong(later, renamed, n) = OwnerAmong(users, names, n)
<1>1. \A u, v \in later : renamed[u] = n /\ renamed[v] = n => u = v
  OBVIOUS
<1>2. /\ OwnerAmong(users, names, n) \in users \union {Nobody}
      /\ \A u \in users : names[u] = n <=> OwnerAmong(users, names, n) = u
  BY OwnerAmongIs
<1>3. /\ OwnerAmong(later, renamed, n) \in later \union {Nobody}
      /\ \A u \in later : renamed[u] = n <=> OwnerAmong(later, renamed, n) = u
  BY <1>1, OwnerAmongIs
<1> QED
  BY <1>2, <1>3

-----------------------------------------------------------------------------
(* Profiles: the type invariant                                               *)

\* A request that is past its look at the user, and has decided on an update.
Deciding == {"check", "storeOwner", "write"}

\* What a request carries at each of its places.
RequestOK(q) ==
    /\ q.pc \in {"current", "storeUser"} => q.op \in {"read", "me"}
    /\ q.pc \in {"check", "storeOwner"} => q.newName \in UserNames /\ q.op \in {"read", "me", "update", "create"}
    /\ q.pc = "write" => q.op \in {"me", "update", "delete", "create"}
    /\ q.op = "me" => q.user = Self
    /\ q.op \in {"update", "delete"} => q.user \in Accounts \ unborn
    /\ q.op = "create" => q.user \in unborn
    /\ q.pc = "storeUser" \/ (q.op = "me" /\ q.pc \in Deciding) => q.current.title \in Titles

\* Two administrators do not create one user.
OneCreates ==
    \A c, d \in Clients :
        client[c].op = "create" /\ client[d].op = "create" /\ client[c].user = client[d].user => c = d

ProfilesBase ==
    /\ ProfilesTypeOK /\ OneCreates
    /\ byId.set => byId.copy.title \in Titles
    /\ \A c \in Clients : RequestOK(client[c])

EntryOfName == [set : BOOLEAN, who : Accounts \union {Nobody}, spoilt : BOOLEAN]
EntryOfUser == [set : BOOLEAN, copy : Copies, spoilt : BOOLEAN]

LEMMA OwnerType ==
    ASSUME ProfilesBase, NEW n
    PROVE  Owner(n) \in Accounts \union {Nobody}
BY DEF ProfilesBase, ProfilesTypeOK, Owner

\* Of a name of a user, Owner finds that user.
LEMMA OwnerOf ==
    ASSUME ProfilesBase, NEW n \in UserNames
    PROVE  /\ Owner(n) \in present \union {Nobody} /\ Nobody \notin present
           /\ \A u \in present : userName[u] = n <=> Owner(n) = u
<1>1. Nobody \notin present /\ \A u, v \in present : userName[u] = n /\ userName[v] = n => u = v
  BY ProfileAssumption DEF ProfilesBase, ProfilesTypeOK, Accounts
<1> QED
  BY <1>1, OwnerAmongIs, OwnerIsAmong

LEMMA ReadyType == Ready \in Requests /\ RequestOK(Ready) /\ Ready.keys = {} /\ Ready.pc = "idle" /\ Ready.op = "none"
<1>1. Ready \in Requests
  BY DEF Ready, Requests, NoCopy, Copies
<1>2. RequestOK(Ready)
  BY DEF Ready, RequestOK, Deciding
<1> QED
  BY <1>1, <1>2 DEF Ready

LEMMA NoEntryTypes == NoEntry \in EntryOfName /\ NoProfile \in EntryOfUser /\ ~ NoProfile.set /\ ~ NoEntry.set
BY DEF NoEntry, NoProfile, NoCopy, Copies, EntryOfName, EntryOfUser

\* A step of one request, which changes no row.
LEMMA MoveBase ==
    ASSUME ProfilesBase, NEW c \in Clients, NEW q \in Requests, RequestOK(q),
           q.keys # {} <=> q.pc = "invalidate",
           q.op = "create" =>
               \/ client[c].op = "create" /\ client[c].user = q.user
               \/ \A d \in Clients : client[d].user # q.user,
           client' = [client EXCEPT ![c] = q], UNCHANGED <<userName, present, unborn, title>>,
           byId' \in EntryOfUser, byId'.set => byId'.copy.title \in Titles,
           byName' \in [UserNames -> EntryOfName]
    PROVE  ProfilesBase'
<1>1. client' \in [Clients -> Requests] /\ \A d \in Clients : client'[d] = IF d = c THEN q ELSE client[d]
  BY DEF ProfilesBase, ProfilesTypeOK
<1>2. \A d \in Clients : RequestOK(client[d])'
  BY <1>1 DEF ProfilesBase, RequestOK
<1>3. OneCreates'
  BY <1>1 DEF ProfilesBase, OneCreates
<1>4. \A d \in Clients : client'[d].keys # {} <=> client'[d].pc = "invalidate"
  BY <1>1 DEF ProfilesBase, ProfilesTypeOK
<1>5. ProfilesTypeOK'
  BY <1>1, <1>4 DEF ProfilesBase, ProfilesTypeOK, EntryOfUser, EntryOfName
<1> QED
  BY <1>2, <1>3, <1>5 DEF ProfilesBase

\* A write overtakes the others, which go on where they are.
LEMMA OvertakesIs ==
    ASSUME NEW q \in Requests, NEW w, NEW names
    PROVE  LET o == Overtakes(q, w, names)
           IN  /\ o \in Requests /\ o.pc = q.pc /\ o.op = q.op /\ o.user = q.user /\ o.newName = q.newName
               /\ o.newTitle = q.newTitle /\ o.current = q.current /\ o.found = q.found /\ o.keys = q.keys
               /\ ~ o.old => /\ ~ q.old /\ ~ (q.user = w /\ q.pc \in Deciding)
                             /\ ~ (q.pc = "storeUser" /\ w = Self)
               /\ ~ o.late => ~ q.late /\ ~ (q.pc = "storeOwner" /\ q.newName \in names)
<1> DEFINE o == Overtakes(q, w, names)
           a == q.old \/ (q.user = w /\ q.pc \in {"check", "storeOwner", "write"})
                      \/ (q.pc = "storeUser" /\ w = Self)
           b == q.late \/ (q.pc = "storeOwner" /\ q.newName \in names)
<1>1. o = [q EXCEPT !.old = a, !.late = b]
  BY DEF Overtakes
<1>2. a \in BOOLEAN /\ b \in BOOLEAN
  BY DEF Requests
<1>3. /\ ~ a => /\ ~ q.old /\ ~ (q.user = w /\ q.pc \in Deciding)
                /\ ~ (q.pc = "storeUser" /\ w = Self)
      /\ ~ b => ~ q.late /\ ~ (q.pc = "storeOwner" /\ q.newName \in names)
  BY DEF Deciding
<1> HIDE DEF a, b, o
<1>4. /\ o \in Requests /\ o.pc = q.pc /\ o.op = q.op /\ o.user = q.user /\ o.newName = q.newName
      /\ o.newTitle = q.newTitle /\ o.current = q.current /\ o.found = q.found /\ o.keys = q.keys
  BY <1>1, <1>2 DEF Requests
<1>5. o.old = a /\ o.late = b
  BY <1>1 DEF Requests
<1>6. /\ ~ o.old => /\ ~ q.old /\ ~ (q.user = w /\ q.pc \in Deciding)
                    /\ ~ (q.pc = "storeUser" /\ w = Self)
      /\ ~ o.late => ~ q.late /\ ~ (q.pc = "storeOwner" /\ q.newName \in names)
  BY <1>3, <1>5
<1> QED
  BY <1>4, <1>6 DEF o

LEMMA InvalidatingIs ==
    ASSUME NEW keys \in SUBSET (UserNames \union {Self})
    PROVE  LET q == Invalidating(keys)
           IN  /\ q \in Requests /\ RequestOK(q) /\ q.keys = keys /\ q.op = "none"
               /\ q.pc \in {"idle", "invalidate"} /\ (q.keys # {} <=> q.pc = "invalidate")
<1>1. CASE keys = {}
  BY <1>1, ReadyType DEF Invalidating
<1>2. CASE keys # {}
  <2> DEFINE q == [Ready EXCEPT !.pc = "invalidate", !.keys = keys]
  <2>1. q \in Requests /\ q.keys = keys /\ q.pc = "invalidate" /\ q.op = "none"
    BY ReadyType DEF Requests
  <2>2. RequestOK(q)
    BY <2>1 DEF RequestOK, Deciding
  <2> QED
    BY <1>2, <2>1, <2>2 DEF Invalidating
<1> QED
  BY <1>1, <1>2

LEMMA SpoilType ==
    ASSUME ProfilesBase, NEW names, Spoil(names) \/ UNCHANGED byName
    PROVE  byName' \in [UserNames -> EntryOfName]
<1>1. byName \in [UserNames -> EntryOfName]
  BY DEF ProfilesBase, ProfilesTypeOK, EntryOfName
<1>2. CASE Spoil(names)
  <2>1. ASSUME NEW n \in UserNames PROVE byName'[n] \in EntryOfName
    BY <1>1, <1>2 DEF Spoil, EntryOfName
  <2> QED
    BY <1>2, <2>1 DEF Spoil
<1> QED
  BY <1>1, <1>2

\* Where a request goes on: as it is, to another place, or it ends.
LEMMA AfterCurrentIs ==
    ASSUME NEW q \in Requests, q.op \in {"read", "me"}, q.keys = {},
           q.op = "me" => q.user = Self, q.current.title \in Titles
    PROVE  LET a == AfterCurrent(q)
           IN  /\ a \in Requests /\ RequestOK(a) /\ a.keys = {} /\ a.pc \in {"idle", "write", "check"}
               /\ a.op # "create"
               /\ a = Ready \/ (/\ a.op = "me" /\ a.user = Self /\ a.old = q.old /\ a.current = q.current)
<1>1. CASE q.op = "read"
  BY <1>1, ReadyType DEF AfterCurrent
<1>2. CASE q.op # "read"
  <2> DEFINE pc_ == IF q.newName = Nobody THEN "write" ELSE "check"
             a == [q EXCEPT !.pc = pc_]
  <2>1. AfterCurrent(q) = a /\ q.op = "me" /\ q.user = Self
    BY <1>2 DEF AfterCurrent
  <2>2. pc_ \in {"write", "check"} /\ (pc_ = "check" => q.newName \in UserNames)
    BY DEF Requests
  <2> HIDE DEF pc_
  <2>3. /\ a \in Requests /\ a.keys = {} /\ a.pc = pc_ /\ a.op = "me" /\ a.user = Self
        /\ a.old = q.old /\ a.current = q.current /\ a.newName = q.newName
    BY <2>1, <2>2 DEF Requests
  <2> HIDE DEF a
  <2>4. RequestOK(a)
    BY <2>2, <2>3 DEF RequestOK
  <2> QED
    BY <2>1, <2>2, <2>3, <2>4
<1> QED
  BY <1>1, <1>2

LEMMA AfterCheckIs ==
    ASSUME NEW q \in Requests, NEW who, q.pc \in {"check", "storeOwner"}, RequestOK(q), q.keys = {}
    PROVE  LET a == AfterCheck(q, who)
           IN  /\ a \in Requests /\ RequestOK(a) /\ a.keys = {} /\ a.pc \in {"idle", "write"}
               /\ a = Ready \/ (/\ a.pc = "write" /\ a.op = q.op /\ a.user = q.user
                                /\ a.old = q.old /\ a.current = q.current)
<1>1. CASE q.op = "read" \/ who \notin {Nobody, q.user}
  BY <1>1, ReadyType DEF AfterCheck
<1>2. CASE ~ (q.op = "read" \/ who \notin {Nobody, q.user})
  <2> DEFINE a == [q EXCEPT !.pc = "write"]
  <2>1. AfterCheck(q, who) = a /\ q.op # "read"
    BY <1>2 DEF AfterCheck
  <2>2. /\ a \in Requests /\ a.keys = {} /\ a.pc = "write" /\ a.op = q.op /\ a.user = q.user
        /\ a.old = q.old /\ a.current = q.current
    BY DEF Requests
  <2> HIDE DEF a
  <2>3. RequestOK(a)
    BY <2>1, <2>2 DEF RequestOK, Deciding
  <2> QED
    BY <2>1, <2>2, <2>3
<1> QED
  BY <1>1, <1>2

\* Of a request that has no key to delete.
LEMMA NoKeys ==
    ASSUME ProfilesBase, NEW c \in Clients, client[c].pc # "invalidate"
    PROVE  client[c] \in Requests /\ RequestOK(client[c]) /\ client[c].keys = {}
BY DEF ProfilesBase, ProfilesTypeOK

LEMMA RowsType ==
    ASSUME ProfilesBase
    PROVE  /\ userName \in [Accounts -> UserNames \union {Nobody}] /\ title \in Titles
           /\ present \subseteq Accounts /\ unborn \subseteq Others \ present /\ Self \in Accounts
           /\ byId \in EntryOfUser /\ (byId.set => byId.copy.title \in Titles)
           /\ byName \in [UserNames -> EntryOfName] /\ client \in [Clients -> Requests]
BY DEF ProfilesBase, ProfilesTypeOK, EntryOfUser, EntryOfName, Accounts

LEMMA LookupsBase ==
    ASSUME ProfilesBase, NEW c \in Clients, Lookups(c)
    PROVE  ProfilesBase'
<1> USE RowsType
<1>1. CASE GetUser(c)
  <2> DEFINE b == byId.spoilt \/ WillInvalidate(Self)
             q == [client[c] EXCEPT !.current = byId.copy, !.old = b]
  <2>1. /\ client' = [client EXCEPT ![c] = AfterCurrent(q)] /\ client[c].pc = "current" /\ byId.set
        /\ UNCHANGED <<userName, present, unborn, title, byId, byName>>
    BY <1>1 DEF GetUser
  <2>2. b \in BOOLEAN /\ byId.copy \in Copies /\ client[c].op \in {"read", "me"}
    BY <2>1, NoKeys DEF EntryOfUser, RequestOK
  <2>3. client[c] \in Requests /\ client[c].keys = {} /\ (client[c].op = "me" => client[c].user = Self)
    BY <2>1, NoKeys DEF RequestOK
  <2> HIDE DEF b
  <2>4. /\ q \in Requests /\ q.keys = {} /\ q.op = client[c].op /\ q.user = client[c].user
        /\ q.current = byId.copy
    BY <2>2, <2>3 DEF Requests
  <2> HIDE DEF q
  <2>5. LET a == AfterCurrent(q)
        IN  a \in Requests /\ RequestOK(a) /\ a.keys = {} /\ a.pc # "invalidate" /\ a.op # "create"
    BY <2>1, <2>2, <2>3, <2>4, AfterCurrentIs
  <2> QED
    BY <2>1, <2>5, MoveBase
<1>2. CASE LoadUser(c)
  <2> DEFINE copy == [userName |-> userName[Self], title |-> title]
             q == [client[c] EXCEPT !.pc = "storeUser", !.current = copy]
  <2>1. client[c].pc = "current" /\ UNCHANGED <<userName, present, unborn, title, byId, byName>>
    BY <1>2 DEF LoadUser
  <2>2. client' = [client EXCEPT ![c] = q]
    BY <1>2 DEF LoadUser
  <2>3. copy \in Copies /\ copy.title \in Titles
    BY DEF Copies
  <2>4. /\ client[c] \in Requests /\ RequestOK(client[c]) /\ client[c].keys = {}
        /\ client[c].op \in {"read", "me"}
    BY <2>1, NoKeys DEF RequestOK
  <2> HIDE DEF copy
  <2>5. /\ q \in Requests /\ q.keys = {} /\ q.pc = "storeUser" /\ q.op = client[c].op
        /\ q.user = client[c].user /\ q.current = copy
    BY <2>3, <2>4 DEF Requests
  <2> HIDE DEF q
  <2>6. RequestOK(q)
    BY <2>3, <2>4, <2>5 DEF RequestOK
  <2> QED
    BY <2>1, <2>2, <2>4, <2>5, <2>6, MoveBase
<1>3. CASE StoreUser(c)
  <2> DEFINE q == client[c]
  <2>1. /\ q.pc = "storeUser" /\ client' = [client EXCEPT ![c] = AfterCurrent(q)]
        /\ byId' = [set |-> TRUE, copy |-> q.current, spoilt |-> q.old]
        /\ UNCHANGED <<userName, present, unborn, title, byName>>
    BY <1>3 DEF StoreUser
  <2>2. /\ q \in Requests /\ q.keys = {} /\ q.op \in {"read", "me"} /\ (q.op = "me" => q.user = Self)
        /\ q.current.title \in Titles
    BY <2>1, NoKeys DEF RequestOK
  <2> HIDE DEF q
  <2>3. LET a == AfterCurrent(q)
        IN  a \in Requests /\ RequestOK(a) /\ a.keys = {} /\ a.pc # "invalidate" /\ a.op # "create"
    BY <2>2, AfterCurrentIs
  <2>4. byId' \in EntryOfUser /\ byId'.copy.title \in Titles
    BY <2>1, <2>2 DEF EntryOfUser, Requests
  <2> QED
    BY <2>1, <2>3, <2>4, MoveBase
<1>4. CASE GetOwner(c)
  <2> DEFINE q == client[c]
             who == byName[client[c].newName].who
  <2>1. /\ q.pc = "check" /\ client' = [client EXCEPT ![c] = AfterCheck(q, who)]
        /\ UNCHANGED <<userName, present, unborn, title, byId, byName>>
    BY <1>4 DEF GetOwner
  <2>2. q \in Requests /\ q.keys = {} /\ RequestOK(q)
    BY <2>1, NoKeys
  <2> HIDE DEF who
  <2>3. LET a == AfterCheck(q, who)
        IN  /\ a \in Requests /\ RequestOK(a) /\ a.keys = {} /\ a.pc # "invalidate"
            /\ a.op = "create" => q.op = "create" /\ q.user = a.user
    BY <2>1, <2>2, AfterCheckIs, ReadyType
  <2> QED
    BY <2>1, <2>3, MoveBase
<1>5. CASE LoadOwner(c)
  <2> DEFINE who == Owner(client[c].newName)
             q == [client[c] EXCEPT !.pc = "storeOwner", !.found = who]
  <2>1. client[c].pc = "check" /\ UNCHANGED <<userName, present, unborn, title, byId, byName>>
    BY <1>5 DEF LoadOwner
  <2>2. client' = [client EXCEPT ![c] = q]
    BY <1>5 DEF LoadOwner
  <2>3. who \in Accounts \union {Nobody}
    BY OwnerType
  <2>4. client[c] \in Requests /\ client[c].keys = {} /\ RequestOK(client[c])
    BY <2>1, NoKeys
  <2> HIDE DEF who
  <2>5. /\ q \in Requests /\ q.keys = {} /\ q.pc = "storeOwner" /\ q.op = client[c].op /\ q.user = client[c].user
        /\ q.current = client[c].current /\ q.newName = client[c].newName
    BY <2>3, <2>4 DEF Requests
  <2> HIDE DEF q
  <2>6. RequestOK(q)
    BY <2>1, <2>4, <2>5 DEF RequestOK, Deciding
  <2> QED
    BY <2>1, <2>2, <2>5, <2>6, MoveBase
<1>6. CASE StoreOwner(c)
  <2> DEFINE q == [client[c] EXCEPT !.found = Nobody, !.late = FALSE]
             n == client[c].newName
             entry == [set |-> TRUE, who |-> client[c].found, spoilt |-> client[c].late]
  <2>1. /\ client[c].pc = "storeOwner" /\ client' = [client EXCEPT ![c] = AfterCheck(q, client[c].found)]
        /\ byName' = [byName EXCEPT ![n] = entry]
        /\ UNCHANGED <<userName, present, unborn, title, byId>>
    BY <1>6 DEF StoreOwner
  <2>2. client[c] \in Requests /\ client[c].keys = {} /\ RequestOK(client[c])
    BY <2>1, NoKeys
  <2>3. entry \in EntryOfName
    BY <2>2 DEF Requests, EntryOfName
  <2>4. byName' \in [UserNames -> EntryOfName]
    BY <2>1, <2>3
  <2>5. /\ q \in Requests /\ q.keys = {} /\ q.pc = "storeOwner" /\ q.op = client[c].op /\ q.user = client[c].user
        /\ q.current = client[c].current /\ q.newName = client[c].newName
    BY <2>1, <2>2 DEF Requests
  <2> HIDE DEF q, entry, n
  <2>6. RequestOK(q)
    BY <2>1, <2>2, <2>5 DEF RequestOK, Deciding
  <2>7. LET a == AfterCheck(q, client[c].found)
        IN  /\ a \in Requests /\ RequestOK(a) /\ a.keys = {} /\ a.pc # "invalidate"
            /\ a.op = "create" => q.op = "create" /\ q.user = a.user
    BY <2>5, <2>6, AfterCheckIs, ReadyType
  <2> QED
    BY <2>1, <2>4, <2>5, <2>7, MoveBase
<1> QED
  BY <1>1, <1>2, <1>3, <1>4, <1>5, <1>6 DEF Lookups

LEMMA RequestsBase ==
    ASSUME ProfilesBase, NEW c \in Clients, Starts(c)
    PROVE  ProfilesBase'
<1> USE RowsType
<1>0. Ready \in Requests /\ Ready.keys = {} /\ Ready.current.title = Nobody
  BY ReadyType DEF Ready, NoCopy
<1>1. CASE Read(c)
  <2>1. PICK q : /\ client' = [client EXCEPT ![c] = q] /\ UNCHANGED <<userName, present, unborn, title, byId, byName>>
                 /\ \/ q = [Ready EXCEPT !.pc = "current", !.op = "read"]
                    \/ \E n \in UserNames : q = [Ready EXCEPT !.pc = "check", !.op = "read", !.newName = n]
    <3>1. CASE client' = [client EXCEPT ![c].pc = "current", ![c].op = "read"]
      BY <1>1, <3>1 DEF Read
    <3>2. CASE \E n \in UserNames : client' = [client EXCEPT ![c].pc = "check", ![c].op = "read", ![c].newName = n]
      <4>1. PICK n \in UserNames : client' = [client EXCEPT ![c].pc = "check", ![c].op = "read", ![c].newName = n]
        BY <3>2
      <4>2. client' = [client EXCEPT ![c] = [Ready EXCEPT !.pc = "check", !.op = "read", !.newName = n]]
        BY <1>1, <4>1 DEF Read
      <4> QED
        BY <1>1, <4>2 DEF Read
    <3> QED
      BY <1>1, <3>1, <3>2 DEF Read
  <2>2. CASE q = [Ready EXCEPT !.pc = "current", !.op = "read"]
    <3>1. q \in Requests /\ q.keys = {} /\ q.pc = "current" /\ q.op = "read"
      BY <1>0, <2>2, ZenonT(60) DEF Requests
    <3>2. RequestOK(q)
      BY <3>1 DEF RequestOK
    <3> QED
      BY <2>1, <3>1, <3>2, MoveBase
  <2>3. CASE \E n \in UserNames : q = [Ready EXCEPT !.pc = "check", !.op = "read", !.newName = n]
    <3>1. PICK n \in UserNames : q = [Ready EXCEPT !.pc = "check", !.op = "read", !.newName = n]
      BY <2>3
    <3>2. q \in Requests /\ q.keys = {} /\ q.pc = "check" /\ q.op = "read" /\ q.newName \in UserNames
      BY <1>0, <3>1, ZenonT(60) DEF Requests
    <3>3. RequestOK(q)
      BY <3>2 DEF RequestOK
    <3> QED
      BY <2>1, <3>2, <3>3, MoveBase
  <2> QED
    BY <2>1, <2>2, <2>3
<1>2. CASE UpdateMe(c)
  <2>1. PICK n \in UserNames \union {Nobody}, t \in Titles \union {Nobody} :
          client' = [client EXCEPT ![c] = [Ready EXCEPT !.pc = "current", !.op = "me",
                        !.user = Self, !.newName = n, !.newTitle = t]]
    BY <1>2 DEF UpdateMe
  <2>2. UNCHANGED <<userName, present, unborn, title, byId, byName>>
    BY <1>2 DEF UpdateMe
  <2> DEFINE q == [Ready EXCEPT !.pc = "current", !.op = "me", !.user = Self, !.newName = n, !.newTitle = t]
  <2>3. q \in Requests /\ q.keys = {} /\ q.pc = "current" /\ q.op = "me" /\ q.user = Self
    BY <1>0, ZenonT(60) DEF Requests
  <2>4. client' = [client EXCEPT ![c] = q]
    BY <2>1
  <2> HIDE DEF q
  <2>5. RequestOK(q)
    BY <2>3 DEF RequestOK, Deciding
  <2> QED
    BY <2>2, <2>3, <2>4, <2>5, MoveBase
<1>3. CASE AdminUpdateUser(c)
  <2>1. PICK u \in present, n \in UserNames \union {Nobody}, t \in Titles \union {Nobody} :
          client' = [client EXCEPT ![c] = [Ready EXCEPT !.op = "update",
                !.pc = IF n \in {Nobody, userName[u]} THEN "write" ELSE "check",
                !.user = u, !.newName = n, !.newTitle = t, !.current.userName = userName[u]]]
    BY <1>3 DEF AdminUpdateUser
  <2>2. UNCHANGED <<userName, present, unborn, title, byId, byName>>
    BY <1>3 DEF AdminUpdateUser
  <2> DEFINE place == IF n \in {Nobody, userName[u]} THEN "write" ELSE "check"
             name == userName[u]
             q == [Ready EXCEPT !.op = "update", !.pc = place, !.user = u, !.newName = n, !.newTitle = t,
                                !.current.userName = name]
  <2>3. u \in Accounts \ unborn /\ name \in UserNames \union {Nobody}
    OBVIOUS
  <2>4. place \in {"write", "check"} /\ (place = "check" => n \in UserNames)
    OBVIOUS
  <2>5. client' = [client EXCEPT ![c] = q]
    BY <2>1
  <2> HIDE DEF place, name
  <2>8. Ready.current \in Copies
    BY <1>0 DEF Requests
  <2> DEFINE copy == [Ready.current EXCEPT !.userName = name]
  <2>9. copy \in Copies
    BY <2>3, <2>8 DEF Copies
  <2>10. q = [Ready EXCEPT !.op = "update", !.pc = place, !.user = u, !.newName = n, !.newTitle = t,
                           !.current = copy]
    OBVIOUS
  <2> HIDE DEF copy, q
  <2>6. q \in Requests /\ q.keys = {} /\ q.pc = place /\ q.op = "update" /\ q.user = u /\ q.newName = n
    BY <1>0, <2>3, <2>4, <2>9, <2>10, ZenonT(60) DEF Requests
  <2> HIDE DEF q
  <2>7. RequestOK(q)
    BY <2>3, <2>4, <2>6 DEF RequestOK, Deciding
  <2> QED
    BY <2>2, <2>4, <2>5, <2>6, <2>7, MoveBase
<1>4. CASE AdminDeleteUser(c)
  <2>1. PICK u \in present \ {Self} :
          client' = [client EXCEPT ![c] = [Ready EXCEPT !.pc = "write", !.op = "delete", !.user = u,
                        !.current.userName = userName[u]]]
    BY <1>4 DEF AdminDeleteUser
  <2>2. UNCHANGED <<userName, present, unborn, title, byId, byName>>
    BY <1>4 DEF AdminDeleteUser
  <2> DEFINE name == userName[u]
             q == [Ready EXCEPT !.pc = "write", !.op = "delete", !.user = u, !.current.userName = name]
  <2>3. u \in Accounts \ unborn /\ name \in UserNames \union {Nobody}
    OBVIOUS
  <2>4. client' = [client EXCEPT ![c] = q]
    BY <2>1
  <2> HIDE DEF name
  <2>5. q \in Requests /\ q.keys = {} /\ q.pc = "write" /\ q.op = "delete" /\ q.user = u
    BY <1>0, <2>3, ZenonT(60) DEF Requests, Copies
  <2> HIDE DEF q
  <2>6. RequestOK(q)
    BY <2>3, <2>5 DEF RequestOK, Deciding
  <2> QED
    BY <2>2, <2>4, <2>5, <2>6, MoveBase
<1>5. CASE AdminCreateUser(c)
  <2>1. PICK u \in unborn \ {client[d].user : d \in Clients}, n \in UserNames \union {Nobody} :
          client' = [client EXCEPT ![c] = [Ready EXCEPT !.op = "create", !.user = u, !.newName = n,
                        !.pc = IF n = Nobody THEN "write" ELSE "check"]]
    BY <1>5 DEF AdminCreateUser
  <2>2. UNCHANGED <<userName, present, unborn, title, byId, byName>>
    BY <1>5 DEF AdminCreateUser
  <2> DEFINE place == IF n = Nobody THEN "write" ELSE "check"
             q == [Ready EXCEPT !.op = "create", !.user = u, !.newName = n, !.pc = place]
  <2>3. u \in unborn /\ u \in Accounts /\ \A d \in Clients : client[d].user # u
    BY DEF Accounts
  <2>4. place \in {"write", "check"} /\ (place = "check" => n \in UserNames)
    OBVIOUS
  <2>5. client' = [client EXCEPT ![c] = q]
    BY <2>1
  <2> HIDE DEF place
  <2>6. q \in Requests /\ q.keys = {} /\ q.pc = place /\ q.op = "create" /\ q.user = u /\ q.newName = n
    BY <1>0, <2>3, <2>4, ZenonT(60) DEF Requests
  <2> HIDE DEF q
  <2>7. RequestOK(q)
    BY <2>3, <2>4, <2>6 DEF RequestOK, Deciding
  <2> QED
    BY <2>2, <2>3, <2>4, <2>5, <2>6, <2>7, MoveBase
<1> QED
  BY <1>1, <1>2, <1>3, <1>4, <1>5 DEF Starts

OthersGoOn(c, w, names) ==
    \A d \in Clients \ {c} : client'[d] = client[d] \/ client'[d] = Overtakes(client[d], w, names)

\* The writes: who was overtaken goes on where it was, and the names stay unique.
LEMMA WriteBase ==
    ASSUME ProfilesBase, NEW c \in Clients, NEW q \in Requests, q.op = "none", q.pc \in {"idle", "invalidate"},
           q.keys # {} <=> q.pc = "invalidate", NEW w, NEW names,
           DOMAIN client' = Clients /\ client' = [d \in Clients |-> client'[d]] /\ client'[c] = q,
           OthersGoOn(c, w, names),
           \A d \in Clients \ {c} : client[d].op = "create" => client[d].user \in unborn',
           userName' \in [Accounts -> UserNames \union {Nobody}], title' \in Titles,
           present' \subseteq Accounts, unborn' \subseteq Others \ present', unborn' \subseteq unborn,
           \A u, v \in present' : userName'[u] = userName'[v] /\ userName'[u] # Nobody => u = v,
           byName' \in [UserNames -> EntryOfName], byId' = byId
    PROVE  ProfilesBase'
<1>1. ASSUME NEW d \in Clients \ {c}
      PROVE  /\ client'[d] \in Requests /\ client'[d].pc = client[d].pc /\ client'[d].op = client[d].op
             /\ client'[d].user = client[d].user /\ client'[d].newName = client[d].newName
             /\ client'[d].current = client[d].current /\ client'[d].keys = client[d].keys
             /\ RequestOK(client[d]) /\ client[d] \in Requests
  <2>1. client[d] \in Requests /\ RequestOK(client[d])
    BY DEF ProfilesBase, ProfilesTypeOK
  <2> QED
    BY <2>1, OvertakesIs DEF OthersGoOn
<1>2. ASSUME NEW d \in Clients PROVE RequestOK(client[d])'
  <2>1. CASE d = c
    BY <2>1 DEF RequestOK, Deciding
  <2>2. CASE d # c
    BY <1>1, <2>2 DEF RequestOK
  <2> QED
    BY <2>1, <2>2
<1>3. client' \in [Clients -> Requests]
  BY <1>1
<1>4. OneCreates'
  BY <1>1 DEF ProfilesBase, OneCreates
<1>5. \A d \in Clients : client'[d].keys # {} <=> client'[d].pc = "invalidate"
  BY <1>1 DEF ProfilesBase, ProfilesTypeOK
<1>6. byId' \in EntryOfUser /\ (byId'.set => byId'.copy.title \in Titles)
  BY RowsType
<1>7. ProfilesTypeOK'
  BY <1>3, <1>5, <1>6 DEF ProfilesTypeOK, EntryOfUser, EntryOfName
<1> QED
  BY <1>2, <1>4, <1>6, <1>7 DEF ProfilesBase

LEMMA KeysOfType ==
    ASSUME NEW u, NEW names, names \subseteq UserNames \union {Nobody}
    PROVE  KeysOf(u, names) \in SUBSET (UserNames \union {Self})
BY DEF KeysOf

\* What an update does: to the row, to the keys, to the others and to the entries.
LEMMA UpdateUserIs ==
    ASSUME ProfilesBase, NEW c \in Clients, UpdateUser(c)
    PROVE  \E name \in UserNames \union {Nobody}, told \in Titles :
           LET q    == client[c]
               keys == KeysOf(q.user, {q.current.userName, name})
           IN  /\ q.pc = "write" /\ q.op \in {"me", "update"} /\ q.user \in present
               /\ name = IF q.newName = Nobody THEN userName[q.user] ELSE q.newName
               /\ q.newName # Nobody => Owner(q.newName) \in {Nobody, q.user}
               /\ told # title => q.newTitle = told \/ (q.op = "me" /\ told = q.current.title)
               /\ userName' = [userName EXCEPT ![q.user] = name]
               /\ title' = IF q.user = Self THEN told ELSE title
               /\ client' = [d \in Clients |->
                     IF d = c THEN Invalidating(keys)
                     ELSE IF <<userName, title>>' = <<userName, title>> THEN client[d]
                     ELSE Overtakes(client[d], q.user, {userName[q.user], name})]
               /\ IF q.old THEN Spoil({userName[q.user]} \ keys) ELSE UNCHANGED byName
               /\ UNCHANGED <<present, unborn, byId>>
<1> DEFINE q == client[c]
           name == IF q.newName = Nobody THEN userName[q.user] ELSE q.newName
           told == IF q.newTitle # Nobody THEN q.newTitle ELSE IF q.op = "me" THEN q.current.title ELSE title
           keys == KeysOf(q.user, {q.current.userName, name})
<1>1. q.pc = "write" /\ q.op \in {"me", "update"} /\ q.user \in present /\ ~ Taken(q)
  BY DEF UpdateUser
<1>2. q \in Requests /\ RequestOK(q)
  BY DEF ProfilesBase, ProfilesTypeOK
<1>3. name \in UserNames \union {Nobody}
  BY <1>1, <1>2, RowsType DEF Requests
<1>4. told \in Titles /\ (told # title => q.newTitle = told \/ (q.op = "me" /\ told = q.current.title))
  <2>1. CASE q.newTitle # Nobody
    <3>1. told = q.newTitle
      BY <2>1
    <3>2. q.newTitle \in Titles
      BY <1>2, <2>1 DEF Requests
    <3> HIDE DEF told
    <3> QED
      BY <3>1, <3>2
  <2>2. CASE q.newTitle = Nobody /\ q.op = "me"
    BY <1>1, <1>2, <2>2 DEF RequestOK, Deciding
  <2>3. CASE q.newTitle = Nobody /\ q.op # "me"
    BY <2>3, RowsType
  <2> QED
    BY <2>1, <2>2, <2>3
<1>5. /\ userName' = [userName EXCEPT ![q.user] = name]
      /\ title' = IF q.user = Self THEN told ELSE title
      /\ client' = [d \in Clients |->
            IF d = c THEN Invalidating(keys)
            ELSE IF <<userName, title>>' = <<userName, title>> THEN client[d]
            ELSE Overtakes(client[d], q.user, {userName[q.user], name})]
      /\ IF q.old THEN Spoil({userName[q.user]} \ keys) ELSE UNCHANGED byName
      /\ UNCHANGED <<present, unborn, byId>>
  BY DEF UpdateUser
<1>6. q.newName # Nobody => Owner(q.newName) \in {Nobody, q.user}
  BY <1>1 DEF Taken
<1>7. name = IF q.newName = Nobody THEN userName[q.user] ELSE q.newName
  OBVIOUS
<1> HIDE DEF name, told
<1> QED
  BY <1>1, <1>3, <1>4, <1>5, <1>6, <1>7

LEMMA UpdateBase ==
    ASSUME ProfilesBase, NEW c \in Clients, UpdateUser(c)
    PROVE  ProfilesBase'
<1> USE RowsType
<1>1. PICK name \in UserNames \union {Nobody}, told \in Titles :
        LET q    == client[c]
            keys == KeysOf(q.user, {q.current.userName, name})
        IN  /\ q.pc = "write" /\ q.op \in {"me", "update"} /\ q.user \in present
            /\ name = IF q.newName = Nobody THEN userName[q.user] ELSE q.newName
            /\ q.newName # Nobody => Owner(q.newName) \in {Nobody, q.user}
            /\ told # title => q.newTitle = told \/ (q.op = "me" /\ told = q.current.title)
            /\ userName' = [userName EXCEPT ![q.user] = name]
            /\ title' = IF q.user = Self THEN told ELSE title
            /\ client' = [d \in Clients |->
                  IF d = c THEN Invalidating(keys)
                  ELSE IF <<userName, title>>' = <<userName, title>> THEN client[d]
                  ELSE Overtakes(client[d], q.user, {userName[q.user], name})]
            /\ IF q.old THEN Spoil({userName[q.user]} \ keys) ELSE UNCHANGED byName
            /\ UNCHANGED <<present, unborn, byId>>
  BY UpdateUserIs
<1> DEFINE u == client[c].user
           keys == KeysOf(u, {client[c].current.userName, name})
           old_ == userName[u]
<1>2. client[c] \in Requests /\ u \in present /\ keys \in SUBSET (UserNames \union {Self})
  BY <1>1, KeysOfType, SMTT(40) DEF Requests, Copies
<1>3. PICK next \in Requests :
        /\ next = Invalidating(keys) /\ RequestOK(next) /\ next.op = "none"
        /\ (next.keys # {} <=> next.pc = "invalidate") /\ next.pc \in {"idle", "invalidate"}
  BY <1>2, InvalidatingIs
<1>4. byName' \in [UserNames -> EntryOfName]
  BY <1>1, SpoilType
<1> DEFINE names == {old_, name}
<1>5. client' = [d \in Clients |-> client'[d]] /\ client'[c] = next /\ OthersGoOn(c, u, names)
  BY <1>1, <1>3 DEF OthersGoOn
<1>6. UNCHANGED <<present, unborn, byId>> /\ title' \in Titles
  BY <1>1
<1>7. userName' \in [Accounts -> UserNames \union {Nobody}] /\ userName' = [userName EXCEPT ![u] = name]
  BY <1>1, <1>2
<1>8. name # Nobody => \A v \in present : userName[v] = name => v = u
  <2>1. CASE client[c].newName = Nobody
    BY <1>1, <1>2, <2>1 DEF ProfilesBase, ProfilesTypeOK
  <2>2. CASE client[c].newName # Nobody
    <3>1. name = client[c].newName /\ name \in UserNames /\ Owner(name) \in {Nobody, u}
      BY <1>1, <1>2, <2>2 DEF Requests
    <3> QED
      BY <3>1, OwnerOf
  <2> QED
    BY <2>1, <2>2
<1> HIDE DEF keys, u, old_, names
<1>9. \A v, x \in present' : userName'[v] = userName'[x] /\ userName'[v] # Nobody => v = x
  <2> SUFFICES ASSUME NEW v \in present, NEW x \in present, userName'[v] = userName'[x], userName'[v] # Nobody
               PROVE  v = x
    BY <1>6
  <2>1. v \in Accounts /\ x \in Accounts /\ u \in Accounts
    BY <1>2
  <2>2. CASE v # u /\ x # u
    BY <1>7, <2>1, <2>2 DEF ProfilesBase, ProfilesTypeOK
  <2>3. CASE v = u
    <3>1. userName'[u] = name
      BY <1>7, <2>1
    <3> QED
      BY <1>7, <1>8, <2>1, <2>3, <3>1
  <2>4. CASE x = u
    <3>1. userName'[u] = name
      BY <1>7, <2>1
    <3> QED
      BY <1>7, <1>8, <2>1, <2>4, <3>1
  <2> QED
    BY <2>2, <2>3, <2>4
<1>11. \A d \in Clients \ {c} : client[d].op = "create" => client[d].user \in unborn'
  BY <1>6 DEF ProfilesBase, RequestOK
<1>12. present' \subseteq Accounts /\ unborn' \subseteq Others \ present' /\ unborn' \subseteq unborn
  BY <1>6
<1>13. DOMAIN client' = Clients
  BY <1>5
<1> QED
  BY <1>3, <1>4, <1>5, <1>6, <1>7, <1>9, <1>11, <1>12, <1>13, WriteBase

LEMMA DeleteBase ==
    ASSUME ProfilesBase, NEW c \in Clients, DeleteUser(c)
    PROVE  ProfilesBase'
<1> USE RowsType
<1> DEFINE q == client[c]
           keys == KeysOf(q.user, {q.current.userName})
           names == {userName[q.user]}
<1>1. /\ q.pc = "write" /\ q.op = "delete" /\ q.user \in present
      /\ present' = present \ {q.user}
      /\ client' = [d \in Clients |-> IF d = c THEN Invalidating(keys) ELSE Overtakes(client[d], q.user, names)]
      /\ Spoil(names \ keys) \/ UNCHANGED byName
      /\ UNCHANGED <<userName, unborn, title, byId>>
  BY DEF DeleteUser
<1>2. keys \in SUBSET (UserNames \union {Self})
  <2>1. q \in Requests
    OBVIOUS
  <2> QED
    BY <2>1, KeysOfType DEF Requests, Copies
<1>3. PICK next \in Requests :
        /\ next = Invalidating(keys) /\ RequestOK(next) /\ next.op = "none"
        /\ (next.keys # {} <=> next.pc = "invalidate") /\ next.pc \in {"idle", "invalidate"}
  BY <1>2, InvalidatingIs
<1>4. byName' \in [UserNames -> EntryOfName]
  BY <1>1, SpoilType
<1> DEFINE u == q.user
<1>5. /\ client' = [d \in Clients |-> client'[d]] /\ client'[c] = next /\ OthersGoOn(c, u, names)
      /\ DOMAIN client' = Clients
  BY <1>1, <1>3 DEF OthersGoOn
<1>6. \A d \in Clients \ {c} : client[d].op = "create" => client[d].user \in unborn'
  BY <1>1 DEF ProfilesBase, RequestOK
<1>7. /\ present' \subseteq Accounts /\ unborn' \subseteq Others \ present' /\ unborn' \subseteq unborn
      /\ userName' \in [Accounts -> UserNames \union {Nobody}] /\ title' \in Titles /\ byId' = byId
  BY <1>1
<1>8. \A v, x \in present' : userName'[v] = userName'[x] /\ userName'[v] # Nobody => v = x
  BY <1>1 DEF ProfilesBase, ProfilesTypeOK
<1> HIDE DEF keys, names, u, q
<1> QED
  BY <1>3, <1>4, <1>5, <1>6, <1>7, <1>8, WriteBase

LEMMA InsertBase ==
    ASSUME ProfilesBase, NEW c \in Clients, InsertUser(c)
    PROVE  ProfilesBase'
<1> USE RowsType
<1> DEFINE q == client[c]
           u == q.user
           name == q.newName
           names == {name}
<1>1. /\ q.pc = "write" /\ q.op = "create" /\ ~ Taken(q)
      /\ userName' = [userName EXCEPT ![u] = name]
      /\ present' = present \union {u} /\ unborn' = unborn \ {u}
      /\ client' = [d \in Clients |-> IF d = c THEN Ready ELSE Overtakes(client[d], u, names)]
      /\ Spoil(names) /\ UNCHANGED <<title, byId>>
  BY DEF InsertUser
<1>2. q \in Requests /\ u \in unborn /\ name \in UserNames \union {Nobody}
  BY <1>1 DEF ProfilesBase, RequestOK, Requests
<1>3. u \in Accounts /\ u \notin present
  BY <1>2 DEF Accounts
<1>4. byName' \in [UserNames -> EntryOfName]
  BY <1>1, SpoilType
<1>5. /\ client' = [d \in Clients |-> client'[d]] /\ client'[c] = Ready /\ OthersGoOn(c, u, names)
      /\ DOMAIN client' = Clients
  BY <1>1 DEF OthersGoOn
<1>6. \A d \in Clients \ {c} : client[d].op = "create" => client[d].user \in unborn'
  BY <1>1 DEF ProfilesBase, RequestOK, OneCreates
<1>7. name # Nobody => \A v \in present : userName[v] # name
  <2> SUFFICES ASSUME name # Nobody, NEW v \in present, userName[v] = name PROVE FALSE
    OBVIOUS
  <2>1. name \in UserNames /\ Owner(name) \in {Nobody, u}
    BY <1>1, <1>2 DEF Taken
  <2>2. Owner(name) = v
    BY <2>1, OwnerOf
  <2> QED
    BY <1>3, <2>1, <2>2, OwnerOf
<1>8. /\ present' \subseteq Accounts /\ unborn' \subseteq Others \ present' /\ unborn' \subseteq unborn
      /\ userName' \in [Accounts -> UserNames \union {Nobody}] /\ title' \in Titles /\ byId' = byId
  BY <1>1, <1>2, <1>3
<1> HIDE DEF names, u, q, name
<1>9. \A v, x \in present' : userName'[v] = userName'[x] /\ userName'[v] # Nobody => v = x
  <2>1. userName'[u] = name /\ \A v \in present : userName'[v] = userName[v] /\ v # u
    BY <1>1, <1>3
  <2> QED
    BY <1>1, <1>7, <2>1 DEF ProfilesBase, ProfilesTypeOK
<1>10. /\ Ready \in Requests /\ Ready.op = "none" /\ Ready.pc \in {"idle", "invalidate"}
       /\ Ready.keys # {} <=> Ready.pc = "invalidate"
  BY ReadyType
<1> QED
  BY <1>4, <1>5, <1>6, <1>8, <1>9, <1>10, WriteBase

LEMMA EndsOfBase ==
    ASSUME ProfilesBase, NEW c \in Clients, WriteRefused(c) \/ ClientDies(c) \/ InvalidateUserCache(c)
    PROVE  ProfilesBase'
<1> USE RowsType
<1>1. CASE WriteRefused(c)
  BY <1>1, ReadyType, MoveBase DEF WriteRefused, Ends
<1>2. CASE ClientDies(c)
  <2> DEFINE lost == byId.set /\ Self \in client[c].keys
  <2>1. /\ client' = [client EXCEPT ![c] = Ready] /\ Spoil(client[c].keys)
        /\ byId' = [byId EXCEPT !.spoilt = byId.spoilt \/ lost]
        /\ UNCHANGED <<userName, present, unborn, title>>
    BY <1>2 DEF ClientDies, Ends
  <2>2. (byId.spoilt \/ lost) \in BOOLEAN
    BY DEF EntryOfUser
  <2> HIDE DEF lost
  <2>3. byId' \in EntryOfUser /\ (byId'.set => byId'.copy.title \in Titles)
    BY <2>1, <2>2 DEF EntryOfUser
  <2>4. byName' \in [UserNames -> EntryOfName]
    BY <2>1, SpoilType
  <2> QED
    BY <2>1, <2>3, <2>4, ReadyType, MoveBase
<1>3. CASE InvalidateUserCache(c)
  <2>1. PICK key \in client[c].keys :
          /\ client' = [client EXCEPT ![c] = Invalidating(client[c].keys \ {key})]
          /\ byId' = IF key = Self THEN NoProfile ELSE byId
          /\ byName' = [n \in UserNames |-> IF n = key THEN NoEntry ELSE byName[n]]
          /\ UNCHANGED <<userName, present, unborn, title>>
    BY <1>3 DEF InvalidateUserCache
  <2>2. client[c].keys \ {key} \in SUBSET (UserNames \union {Self})
    BY DEF Requests
  <2> DEFINE next == Invalidating(client[c].keys \ {key})
  <2>3. /\ next \in Requests /\ RequestOK(next) /\ next.op = "none"
        /\ (next.keys # {} <=> next.pc = "invalidate")
    BY <2>2, InvalidatingIs
  <2> HIDE DEF next
  <2>4. byId' \in EntryOfUser /\ (byId'.set => byId'.copy.title \in Titles)
    BY <2>1, NoEntryTypes
  <2>5. byName' \in [UserNames -> EntryOfName]
    BY <2>1, NoEntryTypes
  <2>6. client' = [client EXCEPT ![c] = next]
    BY <2>1 DEF next
  <2> QED
    BY <2>1, <2>3, <2>4, <2>5, <2>6, MoveBase
<1> QED
  BY <1>1, <1>2, <1>3

LEMMA ProfilesBaseStep ==
    ASSUME ProfilesBase, [ProfilesNext]_profileVars
    PROVE  ProfilesBase'
<1>1. ASSUME NEW c \in Clients,
             Starts(c) \/ Lookups(c) \/ Writes(c) \/ InvalidateUserCache(c) \/ ClientDies(c)
      PROVE  ProfilesBase'
  BY <1>1, RequestsBase, LookupsBase, UpdateBase, DeleteBase, InsertBase, EndsOfBase DEF Writes
<1>2. CASE EntryExpires
  <2>1. UNCHANGED <<userName, present, unborn, title, client>>
    BY <1>2 DEF EntryExpires
  <2>2. byId' \in EntryOfUser /\ (byId'.set => byId'.copy.title \in Titles) /\ byName' \in [UserNames -> EntryOfName]
    BY <1>2, RowsType, NoEntryTypes DEF EntryExpires
  <2> QED
    BY <2>1, <2>2 DEF ProfilesBase, ProfilesTypeOK, EntryOfUser, EntryOfName, OneCreates, RequestOK
<1>3. CASE UNCHANGED profileVars
  BY <1>3 DEF profileVars, ProfilesBase, ProfilesTypeOK, OneCreates, RequestOK
<1> QED
  BY <1>1, <1>2, <1>3 DEF ProfilesNext

LEMMA ProfilesBaseInit == ProfilesInit => ProfilesBase
<1> SUFFICES ASSUME ProfilesInit PROVE ProfilesBase
  OBVIOUS
<1>1. /\ userName \in [Accounts -> UserNames \union {Nobody}]
      /\ present = {Self} /\ unborn = Others /\ title \in Titles /\ byId = NoProfile
      /\ byName = [n \in UserNames |-> NoEntry] /\ client = [c \in Clients |-> Ready]
  BY DEF ProfilesInit
<1>2. present \subseteq Accounts /\ unborn \subseteq Others \ present
  BY <1>1, ProfileAssumption DEF Accounts
<1>3. byName \in [UserNames -> EntryOfName] /\ byId \in EntryOfUser /\ ~ byId.set
  BY <1>1, NoEntryTypes
<1>4. \A c \in Clients : client[c] \in Requests /\ RequestOK(client[c]) /\ client[c].keys = {}
                          /\ client[c].pc = "idle" /\ client[c].op = "none"
  BY <1>1, ReadyType
<1> QED
  BY <1>1, <1>2, <1>3, <1>4 DEF ProfilesBase, ProfilesTypeOK, OneCreates, EntryOfUser, EntryOfName

\* The rows, the entries and the requests keep their shape; no two users who are there share a
\* name, and only a write that is done has keys to delete.
THEOREM ProfilesTypeCorrect == ProfilesSpec => []ProfilesTypeOK
<1>1. ProfilesBase => ProfilesTypeOK
  BY DEF ProfilesBase
<1>2. ProfilesBase /\ [ProfilesNext]_profileVars => ProfilesBase'
  BY ProfilesBaseStep
<1> QED
  BY <1>1, <1>2, ProfilesBaseInit, PTL DEF ProfilesSpec

-----------------------------------------------------------------------------
(* Profiles: who is found                                                     *)

TrueCopy == [userName |-> userName[Self], title |-> title]

\* What a request knows of its user is true, unless it was overtaken, or read what was not.
CurrentOK(q) ==
    ~ q.old =>
        /\ q.pc = "storeUser" => q.current = TrueCopy
        /\ q.pc \in Deciding /\ q.op \in {"me", "update", "delete"} => q.current.userName = userName[q.user]
        /\ q.pc \in Deciding /\ q.op = "me" => q.current.title = title

\* A load of a name stores the owner, unless it was overtaken.
FoundOK(q) == q.pc = "storeOwner" /\ ~ q.late => q.found = Owner(q.newName)

ByIdTrue == byId.set /\ ~ byId.spoilt /\ ~ WillInvalidate(Self) => byId.copy = TrueCopy

ProfilesInv ==
    /\ ProfilesBase /\ ByIdTrue /\ NamesFindTheirUsers
    /\ \A c \in Clients : CurrentOK(client[c]) /\ FoundOK(client[c])

\* An entry is as it was, or empty, or spoilt, or true.
EntriesRight ==
    \A n \in UserNames : byName'[n] = byName[n] \/ ~ byName'[n].set \/ byName'[n].spoilt \/ byName'[n].who = Owner(n)

\* A step of one request that changes no row and leaves no key behind.
LEMMA MoveInv ==
    ASSUME ProfilesInv, NEW c \in Clients, NEW q, client' = [client EXCEPT ![c] = q],
           UNCHANGED <<userName, present, unborn, title>>, ProfilesBase', client[c].keys = {},
           CurrentOK(q), FoundOK(q), byId' = byId \/ byId'.spoilt \/ byId'.copy = TrueCopy, EntriesRight
    PROVE  ProfilesInv'
<1>1. \A d \in Clients : client'[d] = IF d = c THEN q ELSE client[d]
  BY RowsType DEF ProfilesInv
<1>2. TrueCopy' = TrueCopy /\ \A n : Owner(n)' = Owner(n)
  BY DEF TrueCopy, Owner
<1>3. \A key : WillInvalidate(key) => WillInvalidate(key)'
  BY <1>1 DEF WillInvalidate
<1>4. \A d \in Clients : CurrentOK(client[d])'
  BY <1>1, <1>2 DEF ProfilesInv, CurrentOK
<1>5. \A d \in Clients : FoundOK(client[d])'
  BY <1>1, <1>2 DEF ProfilesInv, FoundOK
<1>6. ByIdTrue'
  BY <1>2, <1>3 DEF ProfilesInv, ByIdTrue
<1>7. NamesFindTheirUsers'
  BY <1>2, <1>3 DEF ProfilesInv, NamesFindTheirUsers, EntriesRight
<1> QED
  BY <1>4, <1>5, <1>6, <1>7 DEF ProfilesInv

OthersOvertaken(c, w, names) ==
    \A d \in Clients \ {c} : client'[d] = Overtakes(client[d], w, names)

\* The owners of all other names are as before.
OwnersKept(names) == \A n \in UserNames \ names : Owner(n)' = Owner(n)

\* The entries of these names are spoilt, or about to be deleted with these keys.
EntriesSpoilt(names, keys) ==
    \A n \in UserNames :
        /\ byName'[n].set = byName[n].set /\ byName'[n].who = byName[n].who
        /\ byName[n].spoilt => byName'[n].spoilt
        /\ n \in names /\ byName[n].set => byName'[n].spoilt \/ n \in keys

\* A write of user w that gives or takes these names.
LEMMA WriteInv ==
    ASSUME ProfilesInv, NEW c \in Clients, NEW q, NEW w, NEW names,
           client'[c] = q, q.pc \in {"idle", "invalidate"}, client[c].keys = {},
           OthersOvertaken(c, w, names), OwnersKept(names), EntriesSpoilt(names, q.keys),
           \A u \in Accounts \ {w} : userName'[u] = userName[u], w # Self => title' = title,
           byId' = byId, w = Self => Self \in q.keys, ProfilesBase'
    PROVE  ProfilesInv'
<1>1. ASSUME NEW d \in Clients \ {c}
      PROVE  /\ client'[d].pc = client[d].pc /\ client'[d].op = client[d].op
             /\ client'[d].user = client[d].user /\ client'[d].newName = client[d].newName
             /\ client'[d].current = client[d].current /\ client'[d].keys = client[d].keys
             /\ client'[d].found = client[d].found
             /\ ~ client'[d].old => /\ ~ client[d].old /\ ~ (client[d].user = w /\ client[d].pc \in Deciding)
                                    /\ ~ (client[d].pc = "storeUser" /\ w = Self)
             /\ ~ client'[d].late => ~ client[d].late /\ ~ (client[d].pc = "storeOwner" /\ client[d].newName \in names)
             /\ RequestOK(client[d]) /\ CurrentOK(client[d]) /\ FoundOK(client[d])
  <2>1. client[d] \in Requests /\ client'[d] = Overtakes(client[d], w, names)
    BY RowsType DEF ProfilesInv, OthersOvertaken
  <2>2. RequestOK(client[d]) /\ CurrentOK(client[d]) /\ FoundOK(client[d])
    BY DEF ProfilesInv, ProfilesBase
  <2> QED
    BY <2>1, <2>2, OvertakesIs
<1>2. w # Self => TrueCopy' = TrueCopy
  BY RowsType DEF TrueCopy, ProfilesInv
<1>3. ASSUME NEW d \in Clients PROVE CurrentOK(client[d])'
  <2> SUFFICES ASSUME d # c, ~ client'[d].old
               PROVE  /\ client'[d].pc = "storeUser" => client'[d].current = TrueCopy'
                      /\ client'[d].pc \in Deciding /\ client'[d].op \in {"me", "update", "delete"}
                            => client'[d].current.userName = userName'[client'[d].user]
                      /\ client'[d].pc \in Deciding /\ client'[d].op = "me" => client'[d].current.title = title'
    BY DEF CurrentOK, Deciding
  <2>1. client'[d].pc = "storeUser" => client'[d].current = TrueCopy'
    BY <1>1, <1>2 DEF CurrentOK
  <2>2. client[d].pc \in Deciding /\ client[d].op \in {"me", "update", "delete"} => client[d].user \in Accounts \ {w}
    BY <1>1, RowsType DEF RequestOK, ProfilesInv
  <2>3. client'[d].pc \in Deciding /\ client'[d].op \in {"me", "update", "delete"}
          => client'[d].current.userName = userName'[client'[d].user]
    BY <1>1, <2>2 DEF CurrentOK
  <2>4. client'[d].pc \in Deciding /\ client'[d].op = "me" => client'[d].current.title = title'
    BY <1>1 DEF CurrentOK, RequestOK
  <2> QED
    BY <2>1, <2>3, <2>4
<1>4. ASSUME NEW d \in Clients PROVE FoundOK(client[d])'
  <2> SUFFICES ASSUME d # c, client'[d].pc = "storeOwner", ~ client'[d].late
               PROVE  client'[d].found = Owner(client[d].newName)'
    BY DEF FoundOK
  <2>1. client[d].newName \in UserNames \ names /\ client[d].found = Owner(client[d].newName)
    BY <1>1 DEF RequestOK, FoundOK
  <2>3. PICK n : n = client[d].newName
    OBVIOUS
  <2>4. Owner(n)' = Owner(n)
    BY <2>1, <2>3 DEF OwnersKept
  <2>5. client'[d].newName = n /\ client'[d].found = Owner(n)
    BY <1>1, <2>1, <2>3
  <2> QED
    BY <2>4, <2>5 DEF Owner
<1>5. \A key : WillInvalidate(key) \/ key \in q.keys => WillInvalidate(key)'
  BY <1>1 DEF WillInvalidate
<1>6. ByIdTrue'
  BY <1>2, <1>5 DEF ProfilesInv, ByIdTrue
<1>7. NamesFindTheirUsers'
  <2> SUFFICES ASSUME NEW n \in UserNames, byName'[n].set, byName'[n].who # Owner(n)', ~ byName'[n].spoilt
               PROVE  WillInvalidate(n)'
    BY DEF NamesFindTheirUsers
  <2>1. CASE n \in names
    BY <1>5, <2>1 DEF EntriesSpoilt
  <2>2. CASE n \notin names
    BY <1>5, <2>2 DEF EntriesSpoilt, OwnersKept, ProfilesInv, NamesFindTheirUsers
  <2> QED
    BY <2>1, <2>2
<1> QED
  BY <1>3, <1>4, <1>6, <1>7 DEF ProfilesInv

LEMMA ReadyOK == CurrentOK(Ready) /\ FoundOK(Ready)
BY DEF Ready, CurrentOK, FoundOK, Deciding

\* A request that has read its user goes on with what it has read.
LEMMA AfterCurrentOK ==
    ASSUME NEW q \in Requests, q.op \in {"read", "me"}, q.keys = {},
           q.op = "me" => q.user = Self, q.current.title \in Titles, ~ q.old => q.current = TrueCopy
    PROVE  CurrentOK(AfterCurrent(q)) /\ FoundOK(AfterCurrent(q))
<1> DEFINE a == AfterCurrent(q)
<1>1. /\ a.pc \in {"idle", "write", "check"}
      /\ a = Ready \/ (/\ a.op = "me" /\ a.user = Self /\ a.old = q.old /\ a.current = q.current)
  BY AfterCurrentIs
<1> HIDE DEF a
<1>2. FoundOK(a)
  BY <1>1 DEF FoundOK
<1>3. CurrentOK(a)
  BY <1>1, ReadyOK DEF CurrentOK, TrueCopy
<1> QED
  BY <1>2, <1>3 DEF a

LEMMA AfterCheckOK ==
    ASSUME NEW q \in Requests, NEW who, q.pc \in {"check", "storeOwner"}, RequestOK(q), q.keys = {}, CurrentOK(q)
    PROVE  CurrentOK(AfterCheck(q, who)) /\ FoundOK(AfterCheck(q, who))
<1> DEFINE a == AfterCheck(q, who)
<1>1. /\ a.pc \in {"idle", "write"}
      /\ a = Ready \/ (/\ a.pc = "write" /\ a.op = q.op /\ a.user = q.user /\ a.old = q.old /\ a.current = q.current)
  BY AfterCheckIs
<1> HIDE DEF a
<1>2. FoundOK(a)
  BY <1>1 DEF FoundOK
<1>3. CurrentOK(a)
  BY <1>1, ReadyOK DEF CurrentOK, Deciding
<1> QED
  BY <1>2, <1>3 DEF a

LEMMA LookupsInv ==
    ASSUME ProfilesInv, NEW c \in Clients, Lookups(c), ProfilesBase'
    PROVE  ProfilesInv'
<1> ProfilesBase /\ CurrentOK(client[c]) /\ FoundOK(client[c]) /\ ByIdTrue
  BY DEF ProfilesInv
<1> USE RowsType
<1>1. CASE GetUser(c)
  <2> DEFINE b == byId.spoilt \/ WillInvalidate(Self)
             q == [client[c] EXCEPT !.current = byId.copy, !.old = b]
  <2>1. /\ client' = [client EXCEPT ![c] = AfterCurrent(q)] /\ client[c].pc = "current" /\ byId.set
        /\ UNCHANGED <<userName, present, unborn, title, byId, byName>>
    BY <1>1 DEF GetUser
  <2>2. b \in BOOLEAN /\ byId.copy \in Copies
    BY DEF EntryOfUser
  <2>3. /\ client[c] \in Requests /\ client[c].keys = {} /\ client[c].op \in {"read", "me"}
        /\ client[c].op = "me" => client[c].user = Self
    BY <2>1, NoKeys DEF RequestOK
  <2>4. ~ b => byId.copy = TrueCopy
    BY <2>1 DEF ByIdTrue
  <2> HIDE DEF b
  <2>5. /\ q \in Requests /\ q.keys = {} /\ q.op = client[c].op /\ q.user = client[c].user
        /\ q.current = byId.copy /\ q.old = b
    BY <2>2, <2>3 DEF Requests
  <2> HIDE DEF q
  <2>6. CurrentOK(AfterCurrent(q)) /\ FoundOK(AfterCurrent(q))
    BY <2>1, <2>3, <2>4, <2>5, AfterCurrentOK
  <2> QED
    BY <2>1, <2>3, <2>6, MoveInv DEF EntriesRight
<1>2. CASE LoadUser(c)
  <2> DEFINE q == [client[c] EXCEPT !.pc = "storeUser", !.current = TrueCopy]
  <2>1. client[c].pc = "current" /\ UNCHANGED <<userName, present, unborn, title, byId, byName>>
    BY <1>2 DEF LoadUser
  <2>2. client' = [client EXCEPT ![c] = q]
    BY <1>2 DEF LoadUser, TrueCopy
  <2>3. client[c] \in Requests /\ client[c].keys = {}
    BY <2>1, NoKeys
  <2>4. q.pc = "storeUser" /\ q.current = TrueCopy
    BY <2>3 DEF Requests
  <2> HIDE DEF q
  <2>5. CurrentOK(q) /\ FoundOK(q)
    BY <2>4 DEF CurrentOK, FoundOK, Deciding
  <2> QED
    BY <2>1, <2>2, <2>3, <2>5, MoveInv DEF EntriesRight
<1>3. CASE StoreUser(c)
  <2> DEFINE q == client[c]
  <2>1. /\ q.pc = "storeUser" /\ client' = [client EXCEPT ![c] = AfterCurrent(q)]
        /\ byId' = [set |-> TRUE, copy |-> q.current, spoilt |-> q.old]
        /\ UNCHANGED <<userName, present, unborn, title, byName>>
    BY <1>3 DEF StoreUser
  <2>2. /\ q \in Requests /\ q.keys = {} /\ q.op \in {"read", "me"} /\ (q.op = "me" => q.user = Self)
        /\ q.current.title \in Titles
    BY <2>1, NoKeys DEF RequestOK
  <2>3. ~ q.old => q.current = TrueCopy
    BY <2>1 DEF CurrentOK
  <2> HIDE DEF q
  <2>4. CurrentOK(AfterCurrent(q)) /\ FoundOK(AfterCurrent(q))
    BY <2>2, <2>3, AfterCurrentOK
  <2>5. byId'.spoilt \/ byId'.copy = TrueCopy
    BY <2>1, <2>3
  <2> QED
    BY <2>1, <2>2, <2>4, <2>5, MoveInv DEF EntriesRight, q
<1>4. CASE GetOwner(c)
  <2> DEFINE who == byName[client[c].newName].who
  <2>1. /\ client[c].pc = "check" /\ client' = [client EXCEPT ![c] = AfterCheck(client[c], who)]
        /\ UNCHANGED <<userName, present, unborn, title, byId, byName>>
    BY <1>4 DEF GetOwner
  <2>2. client[c] \in Requests /\ client[c].keys = {} /\ RequestOK(client[c])
    BY <2>1, NoKeys
  <2> HIDE DEF who
  <2>3. CurrentOK(AfterCheck(client[c], who)) /\ FoundOK(AfterCheck(client[c], who))
    BY <2>1, <2>2, AfterCheckOK
  <2> QED
    BY <2>1, <2>2, <2>3, MoveInv DEF EntriesRight
<1>5. CASE LoadOwner(c)
  <2> DEFINE who == Owner(client[c].newName)
             q == [client[c] EXCEPT !.pc = "storeOwner", !.found = who]
  <2>1. client[c].pc = "check" /\ UNCHANGED <<userName, present, unborn, title, byId, byName>>
    BY <1>5 DEF LoadOwner
  <2>2. client' = [client EXCEPT ![c] = q]
    BY <1>5 DEF LoadOwner
  <2>3. client[c] \in Requests /\ client[c].keys = {}
    BY <2>1, NoKeys
  <2>4. /\ q.pc = "storeOwner" /\ q.op = client[c].op /\ q.user = client[c].user /\ q.old = client[c].old
        /\ q.current = client[c].current /\ q.newName = client[c].newName /\ q.found = who
    BY <2>3 DEF Requests
  <2> HIDE DEF q
  <2>5. FoundOK(q)
    BY <2>4 DEF FoundOK
  <2>6. CurrentOK(q)
    BY <2>1, <2>4 DEF CurrentOK, Deciding
  <2> QED
    BY <2>1, <2>2, <2>3, <2>5, <2>6, MoveInv DEF EntriesRight
<1>6. CASE StoreOwner(c)
  <2> DEFINE q == [client[c] EXCEPT !.found = Nobody, !.late = FALSE]
             n == client[c].newName
             entry == [set |-> TRUE, who |-> client[c].found, spoilt |-> client[c].late]
  <2>1. /\ client[c].pc = "storeOwner" /\ client' = [client EXCEPT ![c] = AfterCheck(q, client[c].found)]
        /\ byName' = [byName EXCEPT ![n] = entry]
        /\ UNCHANGED <<userName, present, unborn, title, byId>>
    BY <1>6 DEF StoreOwner
  <2>2. client[c] \in Requests /\ client[c].keys = {} /\ RequestOK(client[c])
    BY <2>1, NoKeys
  <2>3. /\ q \in Requests /\ q.keys = {} /\ q.pc = "storeOwner" /\ q.op = client[c].op /\ q.user = client[c].user
        /\ q.current = client[c].current /\ q.newName = client[c].newName /\ q.old = client[c].old
    BY <2>1, <2>2 DEF Requests
  <2>4. entry.spoilt \/ entry.who = Owner(n)
    BY <2>1 DEF FoundOK
  <2> HIDE DEF q, entry, n
  <2>5. RequestOK(q) /\ CurrentOK(q)
    BY <2>1, <2>2, <2>3 DEF RequestOK, CurrentOK, Deciding
  <2>6. CurrentOK(AfterCheck(q, client[c].found)) /\ FoundOK(AfterCheck(q, client[c].found))
    BY <2>3, <2>5, AfterCheckOK
  <2>7. EntriesRight
    BY <2>1, <2>4 DEF EntriesRight
  <2> QED
    BY <2>1, <2>2, <2>6, <2>7, MoveInv
<1> QED
  BY <1>1, <1>2, <1>3, <1>4, <1>5, <1>6 DEF Lookups

\* A request that begins knows nothing yet, or what is in the row.
LEMMA RequestBegins ==
    ASSUME ProfilesInv, NEW c \in Clients, client[c] = Ready, ProfilesBase', NEW q,
           client' = [client EXCEPT ![c] = q], UNCHANGED <<userName, present, unborn, title, byId, byName>>,
           q.pc \in {"current", "check", "write"}, q.op = "me" => q.pc = "current",
           q.op \in {"update", "delete"} => q.current.userName = userName[q.user]
    PROVE  ProfilesInv'
<1>1. CurrentOK(q)
  BY DEF CurrentOK, Deciding
<1>2. FoundOK(q)
  BY DEF FoundOK
<1>3. client[c].keys = {}
  BY ReadyType
<1> QED
  BY <1>1, <1>2, <1>3, MoveInv DEF EntriesRight

LEMMA RequestsInv ==
    ASSUME ProfilesInv, NEW c \in Clients, Starts(c), ProfilesBase'
    PROVE  ProfilesInv'
<1>0. Ready \in Requests
  BY ReadyType, SMTT(40)
<1>1. client[c] = Ready /\ UNCHANGED <<userName, present, unborn, title, byId, byName>>
  BY DEF Starts, Read, UpdateMe, AdminUpdateUser, AdminDeleteUser, AdminCreateUser
<1>2. CASE Read(c)
  <2> DEFINE q(n) == [Ready EXCEPT !.pc = "check", !.op = "read", !.newName = n]
             p == [Ready EXCEPT !.pc = "current", !.op = "read"]
  <2>1. CASE client' = [client EXCEPT ![c].pc = "current", ![c].op = "read"]
    <3>1. client' = [client EXCEPT ![c] = p]
      BY <1>1, <2>1
    <3>2. p.pc = "current" /\ p.op = "read"
      BY <1>0 DEF Requests
    <3> HIDE DEF p
    <3> QED
      BY <1>1, <3>1, <3>2, RequestBegins
  <2>2. CASE \E n \in UserNames : client' = [client EXCEPT ![c].pc = "check", ![c].op = "read", ![c].newName = n]
    <3>1. PICK n \in UserNames : client' = [client EXCEPT ![c].pc = "check", ![c].op = "read", ![c].newName = n]
      BY <2>2
    <3>2. client' = [client EXCEPT ![c] = q(n)]
      BY <1>1, <3>1
    <3>3. q(n).pc = "check" /\ q(n).op = "read"
      BY <1>0 DEF Requests
    <3> HIDE DEF q
    <3> QED
      BY <1>1, <3>2, <3>3, RequestBegins
  <2> QED
    BY <1>2, <2>1, <2>2 DEF Read
<1>3. CASE UpdateMe(c)
  <2>1. PICK n \in UserNames \union {Nobody}, t \in Titles \union {Nobody} :
          client' = [client EXCEPT ![c] = [Ready EXCEPT !.pc = "current", !.op = "me",
                        !.user = Self, !.newName = n, !.newTitle = t]]
    BY <1>3 DEF UpdateMe
  <2> DEFINE q == [Ready EXCEPT !.pc = "current", !.op = "me", !.user = Self, !.newName = n, !.newTitle = t]
  <2>2. q.pc = "current" /\ q.op = "me" /\ client' = [client EXCEPT ![c] = q]
    BY <1>0, <2>1 DEF Requests
  <2> HIDE DEF q
  <2> QED
    BY <1>1, <2>2, RequestBegins
<1>4. CASE AdminUpdateUser(c)
  <2>1. PICK u \in present, n \in UserNames \union {Nobody}, t \in Titles \union {Nobody} :
          client' = [client EXCEPT ![c] = [Ready EXCEPT !.op = "update",
                !.pc = IF n \in {Nobody, userName[u]} THEN "write" ELSE "check",
                !.user = u, !.newName = n, !.newTitle = t, !.current.userName = userName[u]]]
    BY <1>4 DEF AdminUpdateUser
  <2> DEFINE place == IF n \in {Nobody, userName[u]} THEN "write" ELSE "check"
             name == userName[u]
             copy == [Ready.current EXCEPT !.userName = name]
             q == [Ready EXCEPT !.op = "update", !.pc = place, !.user = u, !.newName = n, !.newTitle = t,
                                !.current = copy]
  <2>2. client' = [client EXCEPT ![c] = q]
    BY <2>1
  <2>3. place \in {"write", "check"}
    OBVIOUS
  <2>4. copy.userName = name
    BY <1>0 DEF Requests, Copies
  <2> HIDE DEF place, copy
  <2>5. q.pc = place /\ q.op = "update" /\ q.user = u /\ q.current = copy
    BY <1>0 DEF Requests
  <2> HIDE DEF q
  <2> QED
    BY <1>1, <2>2, <2>3, <2>4, <2>5, RequestBegins
<1>5. CASE AdminDeleteUser(c)
  <2>1. PICK u \in present \ {Self} :
          client' = [client EXCEPT ![c] = [Ready EXCEPT !.pc = "write", !.op = "delete", !.user = u,
                        !.current.userName = userName[u]]]
    BY <1>5 DEF AdminDeleteUser
  <2> DEFINE name == userName[u]
             copy == [Ready.current EXCEPT !.userName = name]
             q == [Ready EXCEPT !.pc = "write", !.op = "delete", !.user = u, !.current = copy]
  <2>2. client' = [client EXCEPT ![c] = q]
    BY <2>1
  <2>3. copy.userName = name
    BY <1>0 DEF Requests, Copies
  <2> HIDE DEF copy
  <2>4. q.pc = "write" /\ q.op = "delete" /\ q.user = u /\ q.current = copy
    BY <1>0 DEF Requests
  <2> HIDE DEF q
  <2> QED
    BY <1>1, <2>2, <2>3, <2>4, RequestBegins
<1>6. CASE AdminCreateUser(c)
  <2>1. PICK u \in unborn \ {client[d].user : d \in Clients}, n \in UserNames \union {Nobody} :
          client' = [client EXCEPT ![c] = [Ready EXCEPT !.op = "create", !.user = u, !.newName = n,
                        !.pc = IF n = Nobody THEN "write" ELSE "check"]]
    BY <1>6 DEF AdminCreateUser
  <2> DEFINE place == IF n = Nobody THEN "write" ELSE "check"
             q == [Ready EXCEPT !.op = "create", !.user = u, !.newName = n, !.pc = place]
  <2>2. client' = [client EXCEPT ![c] = q] /\ place \in {"write", "check"}
    BY <2>1
  <2> HIDE DEF place
  <2>3. q.pc = place /\ q.op = "create"
    BY <1>0 DEF Requests
  <2> HIDE DEF q
  <2> QED
    BY <1>1, <2>2, <2>3, RequestBegins
<1> QED
  BY <1>2, <1>3, <1>4, <1>5, <1>6 DEF Starts

\* One user takes, gives up or changes a name: the other names have the owners they had.
LEMMA OwnersAreKept ==
    ASSUME ProfilesBase, ProfilesBase', NEW u, NEW names,
           present' \ {u} = present \ {u}, \A v \in Accounts \ {u} : userName'[v] = userName[v],
           u \in present => userName[u] \in names, u \in present' => userName'[u] \in names
    PROVE  OwnersKept(names)
<1> SUFFICES ASSUME NEW n \in UserNames \ names PROVE Owner(n)' = Owner(n)
  BY DEF OwnersKept
<1>1. PICK later, renamed : later = present' /\ renamed = userName'
  OBVIOUS
<1>2. Nobody \notin Accounts /\ n # Nobody
  BY ProfileAssumption DEF Accounts
<1>3. Nobody \notin present /\ Nobody \notin later /\ present \subseteq Accounts /\ later \subseteq Accounts
  BY <1>1, <1>2 DEF ProfilesBase, ProfilesTypeOK
<1>4. \A v, x \in present : userName[v] = n /\ userName[x] = n => v = x
  BY <1>2 DEF ProfilesBase, ProfilesTypeOK
<1>5. \A v : v \in present /\ userName[v] = n <=> v \in later /\ renamed[v] = n
  BY <1>1, <1>3
<1>6. OwnerAmong(later, renamed, n) = OwnerAmong(present, userName, n)
  BY <1>3, <1>4, <1>5, OwnerAgrees
<1>7. Owner(n)' = OwnerAmong(later, renamed, n)
  BY <1>1 DEF Owner, OwnerAmong
<1> QED
  BY <1>6, <1>7, OwnerIsAmong

\* Spoiling leaves the entries what they are.
LEMMA SpoilIs ==
    ASSUME ProfilesBase, NEW names, Spoil(names)
    PROVE  \A n \in UserNames :
              /\ byName'[n].set = byName[n].set /\ byName'[n].who = byName[n].who
              /\ byName[n].spoilt => byName'[n].spoilt
              /\ n \in names /\ byName[n].set => byName'[n].spoilt
<1>1. ASSUME NEW n \in UserNames
      PROVE  /\ byName'[n].set = byName[n].set /\ byName'[n].who = byName[n].who
             /\ byName[n].spoilt => byName'[n].spoilt
             /\ n \in names /\ byName[n].set => byName'[n].spoilt
  <2>1. byName[n] \in EntryOfName
    BY RowsType
  <2> QED
    BY <2>1 DEF Spoil, EntryOfName
<1> QED
  BY <1>1

\* What a write does to the entries of names: the old name's entry may be kept stale unless its
\* key is among those the write invalidates.
EntriesWritten(c, gone, keys) ==
    IF client[c].old THEN Spoil({gone} \ keys) ELSE UNCHANGED byName

\* The name that an update or a deletion gives up is among its keys if it was not overtaken.
LEMMA EntriesOfWrite ==
    ASSUME ProfilesInv, NEW c \in Clients, client[c].pc = "write", client[c].op \in {"me", "update", "delete"},
           NEW names, NEW keys, NEW gone, gone = userName[client[c].user],
           names \cap UserNames \subseteq keys \union {gone},
           client[c].current.userName \in keys \union {Nobody},
           EntriesWritten(c, gone, keys)
    PROVE  EntriesSpoilt(names, keys)
<1> ProfilesBase /\ CurrentOK(client[c])
  BY DEF ProfilesInv
<1>1. CASE client[c].old
  <2>1. Spoil({gone} \ keys)
    BY <1>1 DEF EntriesWritten
  <2> QED
    BY <2>1, SpoilIs DEF EntriesSpoilt
<1>2. CASE ~ client[c].old
  <2>1. client[c].current.userName = gone /\ byName' = byName
    BY <1>2 DEF CurrentOK, Deciding, EntriesWritten
  <2>2. gone \in keys \union {Nobody} /\ Nobody \notin UserNames
    BY <2>1, ProfileAssumption
  <2> QED
    BY <2>1, <2>2 DEF EntriesSpoilt
<1> QED
  BY <1>1, <1>2

LEMMA UpdateInv ==
    ASSUME ProfilesInv, NEW c \in Clients, UpdateUser(c), ProfilesBase'
    PROVE  ProfilesInv'
<1> ProfilesBase
  BY DEF ProfilesInv
<1> USE RowsType
<1>1. PICK name \in UserNames \union {Nobody}, told \in Titles :
        LET q    == client[c]
            keys == KeysOf(q.user, {q.current.userName, name})
        IN  /\ q.pc = "write" /\ q.op \in {"me", "update"} /\ q.user \in present
            /\ name = IF q.newName = Nobody THEN userName[q.user] ELSE q.newName
            /\ q.newName # Nobody => Owner(q.newName) \in {Nobody, q.user}
            /\ told # title => q.newTitle = told \/ (q.op = "me" /\ told = q.current.title)
            /\ userName' = [userName EXCEPT ![q.user] = name]
            /\ title' = IF q.user = Self THEN told ELSE title
            /\ client' = [d \in Clients |->
                  IF d = c THEN Invalidating(keys)
                  ELSE IF <<userName, title>>' = <<userName, title>> THEN client[d]
                  ELSE Overtakes(client[d], q.user, {userName[q.user], name})]
            /\ IF q.old THEN Spoil({userName[q.user]} \ keys) ELSE UNCHANGED byName
            /\ UNCHANGED <<present, unborn, byId>>
  BY UpdateUserIs
<1> DEFINE u == client[c].user
           keys == KeysOf(u, {client[c].current.userName, name})
           gone == userName[u]
           names == {gone, name}
<1>2. client[c] \in Requests /\ u \in present /\ u \in Accounts /\ keys \in SUBSET (UserNames \union {Self})
  BY <1>1, KeysOfType, SMTT(40) DEF Requests, Copies
<1>3. PICK next \in Requests :
        /\ next = Invalidating(keys) /\ next.keys = keys /\ next.op = "none"
        /\ next.pc \in {"idle", "invalidate"}
  BY <1>2, InvalidatingIs
<1>4. client[c].keys = {}
  BY <1>1, NoKeys
<1>5. EntriesWritten(c, gone, keys)
  BY <1>1 DEF EntriesWritten
<1>6. /\ client[c].pc = "write" /\ client[c].op \in {"me", "update", "delete"}
      /\ client'[c] = next /\ userName' = [userName EXCEPT ![u] = name]
      /\ u # Self => title' = title
      /\ UNCHANGED <<present, unborn, byId>>
  BY <1>1, <1>3
<1>7. CASE <<userName, title>>' = <<userName, title>>
  <2>1. client' = [client EXCEPT ![c] = next]
    BY <1>1, <1>3, <1>7
  <2>2. CurrentOK(next) /\ FoundOK(next)
    BY <1>3 DEF CurrentOK, FoundOK, Deciding
  <2>3. EntriesRight
    <3>1. CASE client[c].old
      <4>1. Spoil({gone} \ keys)
        BY <1>5, <3>1 DEF EntriesWritten
      <4> QED
        BY <4>1 DEF Spoil, EntriesRight, EntryOfName
    <3>2. CASE ~ client[c].old
      BY <1>5, <3>2 DEF EntriesRight, EntriesWritten
    <3> QED
      BY <3>1, <3>2
  <2> QED
    BY <1>4, <1>6, <1>7, <2>1, <2>2, <2>3, MoveInv
<1>8. CASE <<userName, title>>' # <<userName, title>>
  <2>1. OthersOvertaken(c, u, names)
    BY <1>1, <1>8 DEF OthersOvertaken
  <2>2. /\ names \cap UserNames \subseteq keys \union {gone}
        /\ client[c].current.userName \in keys \union {Nobody}
        /\ u = Self => Self \in keys
    BY ProfileAssumption DEF KeysOf
  <2>3. \A v \in Accounts \ {u} : userName'[v] = userName[v]
    BY <1>6
  <2>4. userName'[u] \in names /\ userName[u] \in names
    BY <1>2, <1>6
  <2>5. gone = userName[client[c].user]
    OBVIOUS
  <2> HIDE DEF keys, names, u, gone
  <2>6. EntriesSpoilt(names, keys)
    BY <1>5, <1>6, <2>2, <2>5, EntriesOfWrite
  <2>7. OwnersKept(names)
    BY <1>6, <2>3, <2>4, OwnersAreKept
  <2> QED
    BY <1>3, <1>4, <1>6, <2>1, <2>2, <2>3, <2>6, <2>7, WriteInv
<1> QED
  BY <1>7, <1>8

LEMMA DeleteInv ==
    ASSUME ProfilesInv, NEW c \in Clients, DeleteUser(c), ProfilesBase'
    PROVE  ProfilesInv'
<1> ProfilesBase
  BY DEF ProfilesInv
<1> USE RowsType
<1> DEFINE u == client[c].user
           gone == userName[u]
           keys == KeysOf(u, {client[c].current.userName})
           names == {gone}
<1>1. /\ client[c].pc = "write" /\ client[c].op \in {"me", "update", "delete"} /\ u \in present
      /\ present' = present \ {u}
      /\ client'[c] = Invalidating(keys) /\ OthersOvertaken(c, u, names)
      /\ UNCHANGED <<userName, unborn, title, byId>>
  BY DEF DeleteUser, OthersOvertaken
<1>9. EntriesWritten(c, gone, keys)
  BY DEF DeleteUser, EntriesWritten
<1>2. client[c] \in Requests /\ keys \in SUBSET (UserNames \union {Self})
  BY <1>1, KeysOfType DEF Requests, Copies
<1>3. PICK next \in Requests :
        next = Invalidating(keys) /\ next.keys = keys /\ next.pc \in {"idle", "invalidate"}
  BY <1>2, InvalidatingIs
<1>4. client[c].keys = {}
  BY <1>1, NoKeys
<1>5. /\ names \cap UserNames \subseteq keys \union {gone}
      /\ client[c].current.userName \in keys \union {Nobody}
      /\ u = Self => Self \in keys
      /\ gone = userName[client[c].user]
  BY ProfileAssumption DEF KeysOf
<1>6. userName[u] \in names /\ present' \ {u} = present \ {u} /\ u \notin present' /\ client'[c] = next
  BY <1>1, <1>3
<1> HIDE DEF keys, names, u, gone
<1>7. EntriesSpoilt(names, keys)
  BY <1>1, <1>5, <1>9, EntriesOfWrite
<1>8. OwnersKept(names)
  BY <1>1, <1>6, OwnersAreKept
<1> QED
  BY <1>1, <1>3, <1>4, <1>5, <1>6, <1>7, <1>8, WriteInv

LEMMA InsertInv ==
    ASSUME ProfilesInv, NEW c \in Clients, InsertUser(c), ProfilesBase'
    PROVE  ProfilesInv'
<1> ProfilesBase
  BY DEF ProfilesInv
<1> USE RowsType
<1> DEFINE u == client[c].user
           name == client[c].newName
           names == {name}
<1>1. /\ client[c].pc = "write" /\ client[c].op = "create"
      /\ userName' = [userName EXCEPT ![u] = name]
      /\ present' = present \union {u} /\ Spoil(names)
      /\ client'[c] = Ready /\ OthersOvertaken(c, u, names)
      /\ UNCHANGED <<title, byId>>
  BY DEF InsertUser, OthersOvertaken
<1>2. u \in Others /\ u \notin present /\ u # Self /\ u \in Accounts
  BY <1>1, ProfileAssumption DEF ProfilesBase, RequestOK, Accounts
<1>3. client[c].keys = {}
  BY <1>1, NoKeys
<1>4. /\ userName'[u] \in names /\ present' \ {u} = present \ {u}
      /\ \A v \in Accounts \ {u} : userName'[v] = userName[v]
  BY <1>1, <1>2
<1> HIDE DEF names, u, name
<1>5. EntriesSpoilt(names, Ready.keys)
  BY <1>1, SpoilIs DEF EntriesSpoilt
<1>6. OwnersKept(names)
  BY <1>2, <1>4, OwnersAreKept
<1> QED
  BY <1>1, <1>2, <1>3, <1>4, <1>5, <1>6, ReadyType, WriteInv

LEMMA RefusedInv ==
    ASSUME ProfilesInv, NEW c \in Clients, WriteRefused(c), ProfilesBase'
    PROVE  ProfilesInv'
<1>1. /\ client[c].pc = "write" /\ client' = [client EXCEPT ![c] = Ready]
      /\ UNCHANGED <<userName, present, unborn, title, byId, byName>>
  BY DEF WriteRefused, Ends
<1>2. client[c].keys = {}
  BY <1>1, NoKeys DEF ProfilesInv
<1> QED
  BY <1>1, <1>2, ReadyOK, MoveInv DEF EntriesRight

\* A request dies, or has deleted a key: the keys it leaves or has are all deleted or spoilt.
LEMMA KeysGoInv ==
    ASSUME ProfilesInv, ProfilesBase', NEW c \in Clients, NEW q, client' = [client EXCEPT ![c] = q],
           CurrentOK(q), FoundOK(q), UNCHANGED <<userName, present, unborn, title>>,
           \A n \in UserNames : \/ ~ byName'[n].set
                                \/ byName'[n].spoilt
                                \/ byName'[n] = byName[n] /\ (n \in client[c].keys => n \in q.keys),
           \/ ~ byId'.set
           \/ byId'.spoilt
           \/ byId' = byId /\ (Self \in client[c].keys => Self \in q.keys)
    PROVE  ProfilesInv'
<1>1. \A d \in Clients : client'[d] = IF d = c THEN q ELSE client[d]
  BY RowsType DEF ProfilesInv
<1>2. TrueCopy' = TrueCopy /\ \A n : Owner(n)' = Owner(n)
  BY DEF TrueCopy, Owner
<1>3. ASSUME NEW key, WillInvalidate(key), key \in client[c].keys => key \in q.keys PROVE WillInvalidate(key)'
  <2>1. PICK d \in Clients : key \in client[d].keys
    BY <1>3 DEF WillInvalidate
  <2>2. key \in client'[d].keys
    BY <1>1, <1>3, <2>1
  <2> QED
    BY <2>2 DEF WillInvalidate
<1>4. \A d \in Clients : CurrentOK(client[d])'
  BY <1>1, <1>2 DEF ProfilesInv, CurrentOK
<1>5. \A d \in Clients : FoundOK(client[d])'
  BY <1>1, <1>2 DEF ProfilesInv, FoundOK
<1>6. ByIdTrue'
  BY <1>2, <1>3 DEF ProfilesInv, ByIdTrue
<1>7. NamesFindTheirUsers'
  BY <1>2, <1>3 DEF ProfilesInv, NamesFindTheirUsers
<1> QED
  BY <1>4, <1>5, <1>6, <1>7 DEF ProfilesInv

LEMMA DiesInv ==
    ASSUME ProfilesInv, NEW c \in Clients, ClientDies(c), ProfilesBase'
    PROVE  ProfilesInv'
<1> ProfilesBase
  BY DEF ProfilesInv
<1> DEFINE keys == client[c].keys
           lost == byId.set /\ Self \in keys
<1>1. /\ client' = [client EXCEPT ![c] = Ready] /\ Spoil(keys)
      /\ byId' = [byId EXCEPT !.spoilt = byId.spoilt \/ lost]
      /\ UNCHANGED <<userName, present, unborn, title>>
  BY DEF ClientDies, Ends
<1>2. \A n \in UserNames : ~ byName'[n].set \/ byName'[n].spoilt \/ (byName'[n] = byName[n] /\ n \notin keys)
  <2> SUFFICES ASSUME NEW n \in UserNames, byName'[n].set, ~ byName'[n].spoilt
               PROVE  byName'[n] = byName[n] /\ n \notin keys
    OBVIOUS
  <2>1. n \notin keys
    BY <1>1, SpoilIs
  <2> QED
    BY <1>1, <2>1 DEF Spoil
<1>3. ~ byId'.set \/ byId'.spoilt \/ (byId' = byId /\ Self \notin keys)
  <2>1. byId \in EntryOfUser /\ byId.spoilt \in BOOLEAN /\ lost \in BOOLEAN
    BY RowsType DEF EntryOfUser
  <2>2. lost <=> byId.set /\ Self \in keys
    OBVIOUS
  <2> HIDE DEF lost
  <2>3. byId'.set = byId.set /\ byId'.spoilt = (byId.spoilt \/ lost)
    BY <1>1, <2>1 DEF EntryOfUser
  <2>4. CASE byId.spoilt \/ lost
    BY <2>3, <2>4
  <2>5. CASE ~ (byId.spoilt \/ lost)
    <3>1. byId' = byId
      BY <1>1, <2>1, <2>5 DEF EntryOfUser
    <3> QED
      BY <2>2, <2>3, <2>5, <3>1
  <2> QED
    BY <2>4, <2>5
<1> QED
  BY <1>1, <1>2, <1>3, ReadyOK, KeysGoInv

LEMMA InvalidateInv ==
    ASSUME ProfilesInv, NEW c \in Clients, InvalidateUserCache(c), ProfilesBase'
    PROVE  ProfilesInv'
<1> ProfilesBase
  BY DEF ProfilesInv
<1>1. PICK key \in client[c].keys :
        /\ client' = [client EXCEPT ![c] = Invalidating(client[c].keys \ {key})]
        /\ byId' = IF key = Self THEN NoProfile ELSE byId
        /\ byName' = [n \in UserNames |-> IF n = key THEN NoEntry ELSE byName[n]]
        /\ UNCHANGED <<userName, present, unborn, title>>
  BY DEF InvalidateUserCache
<1>2. client[c].keys \ {key} \in SUBSET (UserNames \union {Self})
  BY RowsType DEF Requests
<1>3. PICK next \in Requests :
        /\ next = Invalidating(client[c].keys \ {key})
        /\ next.keys = client[c].keys \ {key} /\ next.pc \in {"idle", "invalidate"}
  BY <1>2, InvalidatingIs
<1>4. CurrentOK(next) /\ FoundOK(next)
  BY <1>3 DEF CurrentOK, FoundOK, Deciding
<1>5. \A n \in UserNames : \/ ~ byName'[n].set
                           \/ byName'[n].spoilt
                           \/ byName'[n] = byName[n] /\ (n \in client[c].keys => n \in next.keys)
  BY <1>1, <1>3, NoEntryTypes
<1>6. \/ ~ byId'.set
      \/ byId'.spoilt
      \/ byId' = byId /\ (Self \in client[c].keys => Self \in next.keys)
  BY <1>1, <1>3, NoEntryTypes
<1>7. client' = [client EXCEPT ![c] = next]
  BY <1>1, <1>3
<1> QED
  BY <1>1, <1>4, <1>5, <1>6, <1>7, KeysGoInv

LEMMA ExpiryInv ==
    ASSUME ProfilesInv, EntryExpires, ProfilesBase'
    PROVE  ProfilesInv'
<1>1. UNCHANGED <<userName, present, unborn, title, client>>
  BY DEF EntryExpires
<1>2. ~ byId'.set \/ byId' = byId
  BY NoEntryTypes DEF EntryExpires
<1>3. \A n \in UserNames : ~ byName'[n].set \/ byName'[n] = byName[n]
  BY NoEntryTypes, RowsType DEF EntryExpires, ProfilesInv
<1>4. /\ TrueCopy' = TrueCopy /\ \A n : Owner(n)' = Owner(n)
      /\ \A key : WillInvalidate(key)' <=> WillInvalidate(key)
  BY <1>1 DEF TrueCopy, Owner, WillInvalidate
<1>5. \A d \in Clients : CurrentOK(client[d])' /\ FoundOK(client[d])'
  BY <1>1, <1>4 DEF ProfilesInv, CurrentOK, FoundOK
<1>6. ByIdTrue'
  BY <1>2, <1>4 DEF ProfilesInv, ByIdTrue
<1>7. NamesFindTheirUsers'
  BY <1>3, <1>4 DEF ProfilesInv, NamesFindTheirUsers
<1> QED
  BY <1>5, <1>6, <1>7 DEF ProfilesInv

LEMMA ProfilesInvStep ==
    ASSUME ProfilesInv, [ProfilesNext]_profileVars
    PROVE  ProfilesInv'
<1>0. ProfilesBase'
  BY ProfilesBaseStep DEF ProfilesInv
<1>1. ASSUME NEW c \in Clients,
             Starts(c) \/ Lookups(c) \/ Writes(c) \/ InvalidateUserCache(c) \/ ClientDies(c)
      PROVE  ProfilesInv'
  BY <1>0, <1>1, RequestsInv, LookupsInv, UpdateInv, DeleteInv, InsertInv, RefusedInv, InvalidateInv, DiesInv
     DEF Writes
<1>2. CASE EntryExpires
  BY <1>0, <1>2, ExpiryInv
<1>3. CASE UNCHANGED profileVars
  BY <1>0, <1>3 DEF profileVars, ProfilesInv, ByIdTrue, TrueCopy, WillInvalidate, NamesFindTheirUsers, Owner,
     CurrentOK, FoundOK
<1> QED
  BY <1>1, <1>2, <1>3 DEF ProfilesNext

LEMMA ProfilesInvInit == ProfilesInit => ProfilesInv
<1> SUFFICES ASSUME ProfilesInit PROVE ProfilesInv
  OBVIOUS
<1>1. ProfilesBase
  BY ProfilesBaseInit
<1>2. ~ byId.set /\ \A n \in UserNames : ~ byName[n].set
  BY NoEntryTypes DEF ProfilesInit
<1>3. \A c \in Clients : client[c] = Ready
  BY DEF ProfilesInit
<1> QED
  BY <1>1, <1>2, <1>3, ReadyOK DEF ProfilesInv, ByIdTrue, NamesFindTheirUsers

\* NamesFindTheirUsers: the cached answer for a user name is its owner, or is about to be deleted,
\* or was spoilt in one of the ways the model names: update-me, the administrators' use cases and
\* their invalidateUserCache leave no other way to a wrong one.
THEOREM NamesAreTrue == ProfilesSpec => []NamesFindTheirUsers
<1>1. ProfilesInv => NamesFindTheirUsers
  BY DEF ProfilesInv
<1>2. ProfilesInv /\ [ProfilesNext]_profileVars => ProfilesInv'
  BY ProfilesInvStep
<1> QED
  BY <1>1, <1>2, ProfilesInvInit, PTL DEF ProfilesSpec

\* Only an update changes the title, to the one asked for or to the one it has read.
LEMMA TitleStep ==
    ASSUME ProfilesInv, ProfilesNext, title' # title
    PROVE  \E c \in Clients : /\ client[c].pc = "write" /\ client'[c].pc # "write"
                              /\ client[c].newTitle = title' \/ client[c].old
<1>1. PICK c \in Clients : UpdateUser(c)
  BY ZenonT(60) DEF ProfilesNext, Starts, Lookups, Writes, Read, UpdateMe, AdminUpdateUser, AdminDeleteUser, AdminCreateUser,
     GetUser, LoadUser, StoreUser, GetOwner, LoadOwner, StoreOwner, DeleteUser, InsertUser, WriteRefused,
     InvalidateUserCache, ClientDies, EntryExpires
<1> ProfilesBase /\ CurrentOK(client[c])
  BY DEF ProfilesInv
<1>2. PICK name \in UserNames \union {Nobody}, told \in Titles :
        LET q    == client[c]
            keys == KeysOf(q.user, {q.current.userName, name})
        IN  /\ q.pc = "write" /\ q.op \in {"me", "update"} /\ q.user \in present
            /\ name = IF q.newName = Nobody THEN userName[q.user] ELSE q.newName
            /\ q.newName # Nobody => Owner(q.newName) \in {Nobody, q.user}
            /\ told # title => q.newTitle = told \/ (q.op = "me" /\ told = q.current.title)
            /\ userName' = [userName EXCEPT ![q.user] = name]
            /\ title' = IF q.user = Self THEN told ELSE title
            /\ client' = [d \in Clients |->
                  IF d = c THEN Invalidating(keys)
                  ELSE IF <<userName, title>>' = <<userName, title>> THEN client[d]
                  ELSE Overtakes(client[d], q.user, {userName[q.user], name})]
            /\ IF q.old THEN Spoil({userName[q.user]} \ keys) ELSE UNCHANGED byName
            /\ UNCHANGED <<present, unborn, byId>>
  BY <1>1, UpdateUserIs
<1> DEFINE keys == KeysOf(client[c].user, {client[c].current.userName, name})
<1>3. client[c] \in Requests /\ keys \in SUBSET (UserNames \union {Self})
  BY <1>2, KeysOfType, RowsType DEF Requests, Copies
<1>4. client'[c] = Invalidating(keys)
  BY <1>2
<1>5. client'[c].pc # "write"
  BY <1>3, <1>4, InvalidatingIs
<1>6. title' = told /\ told # title
  BY <1>2
<1>7. client[c].newTitle = told \/ client[c].old
  BY <1>2, <1>6 DEF CurrentOK, Deciding
<1> QED
  BY <1>2, <1>5, <1>6, <1>7, SMTT(40)

\* TitleIsKept: an update that asks for no new title leaves the title alone, unless what update-me
\* had read of the user was no longer true: it writes that back.
THEOREM TitleStays == ProfilesSpec => TitleIsKept
<1>1. ProfilesInv /\ [ProfilesNext]_profileVars =>
        [title' # title =>
           \E c \in Clients : /\ client[c].pc = "write" /\ client'[c].pc # "write"
                              /\ client[c].newTitle = title' \/ client[c].old]_profileVars
  BY TitleStep
<1>2. ProfilesInv /\ [ProfilesNext]_profileVars => ProfilesInv'
  BY ProfilesInvStep
<1> QED
  BY <1>1, <1>2, ProfilesInvInit, PTL DEF ProfilesSpec, TitleIsKept

\* AdministrationTypeOK: users, names, roles and permissions keep their shape and their keys in
\* every behaviour that MCAdministration checks.
THEOREM AdministrationTypeCorrect == AdministrationSpec => []AdministrationTypeOK
<1>1. AdministrationInit => ProfilesInit /\ AuthorizationInit
  BY DEF AdministrationInit
<1>2. [AdministrationNext]_administrationVars => [ProfilesNext]_profileVars /\ [AuthorizationNext]_authorizationVars
  BY DEF AdministrationNext, ProfileStep, AuthorizationStep, administrationVars
<1>3. AdministrationSpec => ProfilesSpec /\ AuthorizationSpec
  BY <1>1, <1>2, PTL DEF AdministrationSpec, ProfilesSpec, AuthorizationSpec
<1> QED
  BY <1>3, ProfilesTypeCorrect, AuthorizationTypeCorrect, PTL DEF AdministrationTypeOK

-----------------------------------------------------------------------------
(* Posts: the first and the last of some rows                                 *)

LEMMA LeastNumber ==
    ASSUME NEW T, T \subseteq Nat, T # {}
    PROVE  \E m \in T : \A n \in T : m <= n
<1>1. IsWellFoundedOn(OpToRel(<, Nat), Nat)
  BY NatLessThanWellFounded
<1>2. PICK m \in T : \A n \in T : ~ (<<n, m>> \in OpToRel(<, Nat))
  BY <1>1, WFMin
<1>3. \A n \in T : ~ (n < m)
  BY <1>2 DEF OpToRel
<1> QED
  BY <1>3

RowsMade == createdAt \in [Rows -> Nat]

\* ORDER BY created_at DESC, id DESC is a total order.
LEMMA RowOrder ==
    ASSUME RowsMade
    PROVE  \A a, b, c \in Rows :
              /\ ~ ComesBefore(a, a)
              /\ ComesBefore(a, b) /\ ComesBefore(b, c) => ComesBefore(a, c)
              /\ a # b => ComesBefore(a, b) \/ ComesBefore(b, a)
BY PagesAssumption DEF RowsMade, ComesBefore

LEMMA SomeRows ==
    ASSUME NEW S \in SUBSET Rows
    PROVE  IsFiniteSet(S) /\ Cardinality(S) \in Nat
BY PagesAssumption, FS_Subset, FS_CardinalityType

\* Fewer rows of S come before b than before a.
LEMMA FewerBefore ==
    ASSUME RowsMade, NEW S \in SUBSET Rows, NEW a \in S, NEW b \in S, ComesBefore(b, a)
    PROVE  Cardinality({x \in S : ComesBefore(x, b)}) < Cardinality({x \in S : ComesBefore(x, a)})
<1> DEFINE A == {x \in S : ComesBefore(x, a)}
           B == {x \in S : ComesBefore(x, b)}
<1>1. B \subseteq A /\ b \in A /\ b \notin B /\ A \in SUBSET Rows
  BY RowOrder
<1> HIDE DEF A, B
<1>2. IsFiniteSet(A) /\ Cardinality(A) \in Nat
  BY <1>1, SomeRows
<1>3. Cardinality(B) <= Cardinality(A) /\ (Cardinality(A) = Cardinality(B) => A = B)
  BY <1>1, <1>2, FS_Subset
<1>4. B \in SUBSET Rows /\ Cardinality(B) \in Nat
  BY <1>1, SomeRows
<1>5. Cardinality(B) < Cardinality(A)
  BY <1>1, <1>2, <1>3, <1>4
<1> QED
  BY <1>5 DEF A, B

LEMMA FirstRow ==
    ASSUME RowsMade, NEW S \in SUBSET Rows, S # {}
    PROVE  \E a \in S : \A b \in S : ~ ComesBefore(b, a)
<1> DEFINE before(a) == Cardinality({x \in S : ComesBefore(x, a)})
           T == {before(a) : a \in S}
<1>1. \A a \in S : before(a) \in Nat
  BY SomeRows
<1>2. T \subseteq Nat /\ T # {}
  BY <1>1
<1>3. PICK m \in T : \A n \in T : m <= n
  BY <1>2, LeastNumber
<1>4. PICK a \in S : m = before(a)
  BY <1>3
<1>5. ASSUME NEW b \in S, ComesBefore(b, a) PROVE FALSE
  <2>1. before(b) < before(a)
    BY <1>5, FewerBefore
  <2>2. before(b) \in T
    OBVIOUS
  <2> HIDE DEF T, before
  <2> QED
    BY <1>1, <1>3, <1>4, <2>1, <2>2
<1> QED
  BY <1>5

\* Fewer rows of S come after b than after a.
LEMMA FewerAfter ==
    ASSUME RowsMade, NEW S \in SUBSET Rows, NEW a \in S, NEW b \in S, ComesBefore(a, b)
    PROVE  Cardinality({x \in S : ComesBefore(b, x)}) < Cardinality({x \in S : ComesBefore(a, x)})
<1> DEFINE A == {x \in S : ComesBefore(a, x)}
           B == {x \in S : ComesBefore(b, x)}
<1>1. B \subseteq A /\ b \in A /\ b \notin B /\ A \in SUBSET Rows
  BY RowOrder
<1> HIDE DEF A, B
<1>2. IsFiniteSet(A) /\ Cardinality(A) \in Nat
  BY <1>1, SomeRows
<1>3. Cardinality(B) <= Cardinality(A) /\ (Cardinality(A) = Cardinality(B) => A = B)
  BY <1>1, <1>2, FS_Subset
<1>4. B \in SUBSET Rows /\ Cardinality(B) \in Nat
  BY <1>1, SomeRows
<1>5. Cardinality(B) < Cardinality(A)
  BY <1>1, <1>2, <1>3, <1>4
<1> QED
  BY <1>5 DEF A, B

LEMMA LastRow ==
    ASSUME RowsMade, NEW S \in SUBSET Rows, S # {}
    PROVE  \E a \in S : \A b \in S \ {a} : ComesBefore(b, a)
<1> DEFINE after(a) == Cardinality({x \in S : ComesBefore(a, x)})
           T == {after(a) : a \in S}
<1>1. \A a \in S : after(a) \in Nat
  BY SomeRows
<1>2. T \subseteq Nat /\ T # {}
  BY <1>1
<1>3. PICK m \in T : \A n \in T : m <= n
  BY <1>2, LeastNumber
<1>4. PICK a \in S : m = after(a)
  BY <1>3
<1>5. ASSUME NEW b \in S, ComesBefore(a, b) PROVE FALSE
  <2>1. after(b) < after(a)
    BY <1>5, FewerAfter
  <2>2. after(b) \in T
    OBVIOUS
  <2> HIDE DEF T, after
  <2> QED
    BY <1>1, <1>3, <1>4, <2>1, <2>2
<1> QED
  BY <1>5, RowOrder

-----------------------------------------------------------------------------
(* Posts: what a page has                                                     *)

\* The first n rows are some of them, with all that come before one of them.
LEMMA FirstIs ==
    ASSUME RowsMade, NEW S \in SUBSET Rows, NEW n \in Nat
    PROVE  /\ First(S, n) \subseteq S
           /\ \A a \in S, b \in First(S, n) : ComesBefore(a, b) => a \in First(S, n)
<1>1. First(S, n) \subseteq S
  BY DEF First
<1>2. ASSUME NEW a \in S, NEW b \in First(S, n), ComesBefore(a, b) PROVE a \in First(S, n)
  <2>1. Cardinality({x \in S : ComesBefore(x, a)}) < Cardinality({x \in S : ComesBefore(x, b)})
    BY <1>1, <1>2, FewerBefore
  <2>2. Cardinality({x \in S : ComesBefore(x, b)}) < n
    BY DEF First
  <2>3. Cardinality({x \in S : ComesBefore(x, a)}) \in Nat /\ Cardinality({x \in S : ComesBefore(x, b)}) \in Nat
    BY SomeRows
  <2>4. Cardinality({x \in S : ComesBefore(x, a)}) < n
    BY <2>1, <2>2, <2>3
  <2> QED
    BY <2>4 DEF First
<1> QED
  BY <1>1, <1>2

\* A query that returns fewer rows than it asked for has returned them all.
LEMMA FewAreAll ==
    ASSUME RowsMade, NEW S \in SUBSET Rows, NEW n \in Nat, Cardinality(First(S, n)) < n
    PROVE  First(S, n) = S
<1> SUFFICES ASSUME First(S, n) # S PROVE FALSE
  OBVIOUS
<1>1. First(S, n) \subseteq S
  BY FirstIs
<1>2. PICK a \in S \ First(S, n) : \A b \in S \ First(S, n) : ~ ComesBefore(b, a)
  BY <1>1, FirstRow
<1> DEFINE B == {x \in S : ComesBefore(x, a)}
<1>3. B \subseteq First(S, n)
  BY <1>2
<1>4. ~ (Cardinality(B) < n)
  BY <1>2 DEF First
<1>5. IsFiniteSet(First(S, n)) /\ Cardinality(First(S, n)) \in Nat
  BY <1>1, SomeRows
<1>6. Cardinality(B) <= Cardinality(First(S, n)) /\ Cardinality(B) \in Nat
  BY <1>3, <1>5, FS_Subset, FS_CardinalityType
<1> QED
  BY <1>4, <1>5, <1>6

LEMMA AllFit ==
    ASSUME RowsMade, NEW S \in SUBSET Rows, NEW n \in Nat, Cardinality(S) <= n
    PROVE  First(S, n) = S
<1> SUFFICES ASSUME NEW a \in S PROVE Cardinality({x \in S : ComesBefore(x, a)}) < n
  BY DEF First
<1> DEFINE B == {x \in S : ComesBefore(x, a)}
<1>1. B \subseteq S /\ a \notin B
  BY RowOrder
<1>2. IsFiniteSet(S) /\ Cardinality(S) \in Nat /\ Cardinality(B) \in Nat
  BY SomeRows
<1> HIDE DEF B
<1>3. Cardinality(B) <= Cardinality(S) /\ (Cardinality(S) = Cardinality(B) => S = B)
  BY <1>1, <1>2, FS_Subset
<1>4. Cardinality(B) < n
  BY <1>1, <1>2, <1>3
<1> QED
  BY <1>4 DEF B

LEMMA FirstOfSome ==
    ASSUME RowsMade, NEW S \in SUBSET Rows, S # {}, NEW n \in Nat \ {0}
    PROVE  First(S, n) # {}
<1>1. PICK a \in S : \A b \in S : ~ ComesBefore(b, a)
  BY FirstRow
<1>2. {x \in S : ComesBefore(x, a)} = {}
  BY <1>1
<1>3. Cardinality({x \in S : ComesBefore(x, a)}) = 0
  BY <1>2, FS_EmptySet
<1> QED
  BY <1>3 DEF First

\* The page of a query for one row more than the page has.
LEMMA PageIs ==
    ASSUME RowsMade, NEW S \in SUBSET Rows
    PROVE  LET results == First(S, PageLimit + 1)
               page    == First(results, PageLimit)
           IN  /\ page \subseteq S
               /\ \A a \in S, b \in page : ComesBefore(a, b) => a \in page
               /\ Cardinality(results) > PageLimit => page # {}
               /\ ~ (Cardinality(results) > PageLimit) => page = S
<1> DEFINE results == First(S, PageLimit + 1)
           page    == First(results, PageLimit)
<1>0. PageLimit \in Nat /\ PageLimit + 1 \in Nat /\ PageLimit > 0
  BY PagesAssumption
<1>1. /\ results \subseteq S
      /\ \A a \in S, b \in results : ComesBefore(a, b) => a \in results
  BY <1>0, FirstIs
<1>2. results \in SUBSET Rows
  BY <1>1
<1>3. Cardinality(results) < PageLimit + 1 => results = S
  BY <1>0, FewAreAll
<1> HIDE DEF results
<1>4. /\ page \subseteq results
      /\ \A a \in results, b \in page : ComesBefore(a, b) => a \in page
  BY <1>0, <1>2, FirstIs
<1>5. Cardinality(results) <= PageLimit => page = results
  BY <1>0, <1>2, AllFit
<1>6. results # {} => page # {}
  BY <1>0, <1>2, FirstOfSome
<1>7. Cardinality(results) \in Nat /\ (results = {} => Cardinality(results) = 0)
  BY <1>2, SomeRows, FS_EmptySet
<1> HIDE DEF page
<1>8. Cardinality(results) > PageLimit => page # {}
  BY <1>0, <1>6, <1>7
<1>9. ~ (Cardinality(results) > PageLimit) => page = S
  BY <1>0, <1>3, <1>5, <1>7
<1>10. page \subseteq S /\ \A a \in S, b \in page : ComesBefore(a, b) => a \in page
  BY <1>1, <1>4
<1> QED
  BY <1>8, <1>9, <1>10 DEF results, page

-----------------------------------------------------------------------------
(* Posts: each row once in the pages of a list                                *)

\* The row comes after the cursor of the pager.
Ahead(a) ==
    \/ createdAt[a] < pager.cursor.createdAt
    \/ createdAt[a] = pager.cursor.createdAt /\ a < pager.cursor.id

PagesBase ==
    /\ now \in 1..MaxDate
    /\ createdAt \in [Rows -> 0..now]
    /\ listed \subseteq {a \in Rows : createdAt[a] # 0}
    /\ pager \in [pc : {"reading", "done"}, cursor : [createdAt : 0..now, id : Rows \union {0}]]
    /\ seen \in [Rows -> {0, 1}]
    /\ steady \subseteq listed

\* Before the first page nothing was seen.  Then what was seen is not ahead, and of what stays
\* in the list all that is not ahead was seen.
PagesInv ==
    /\ PagesBase
    /\ pager.pc = "reading" /\ pager.cursor = Start => \A a \in Rows : seen[a] = 0
    /\ pager.pc = "reading" /\ pager.cursor # Start =>
          /\ pager.cursor.createdAt # 0
          /\ \A a \in Rows : seen[a] = 1 => createdAt[a] # 0 /\ ~ Ahead(a)
          /\ \A a \in steady : ~ Ahead(a) => seen[a] = 1
    /\ pager.pc = "done" => \A a \in steady : seen[a] = 1

LEMMA PagesBaseTypes ==
    ASSUME PagesBase
    PROVE  /\ RowsMade /\ now \in Nat /\ pager.cursor.createdAt \in Nat /\ pager.cursor.id \in Nat
           /\ listed \in SUBSET Rows /\ steady \subseteq listed /\ Rows \subseteq Nat
           /\ \A a \in Rows : createdAt[a] \in Nat
           /\ pager.pc \in {"reading", "done"}
<1>1. Rows \subseteq Nat /\ MaxDate \in Nat /\ 0 \in Nat
  BY PagesAssumption
<1>2. now \in Nat /\ 0..now \subseteq Nat
  BY <1>1 DEF PagesBase
<1>3. pager.cursor.createdAt \in Nat /\ pager.cursor.id \in Nat /\ pager.pc \in {"reading", "done"}
  BY <1>1, <1>2 DEF PagesBase
<1>4. RowsMade /\ \A a \in Rows : createdAt[a] \in Nat
  BY <1>2 DEF PagesBase, RowsMade
<1> QED
  BY <1>1, <1>2, <1>3, <1>4 DEF PagesBase

LEMMA PagesInvInit ==
    ASSUME PagesInit
    PROVE  PagesInv
<1>1. pager.pc = "reading" /\ pager.cursor = Start /\ \A a \in Rows : seen[a] = 0
  BY DEF PagesInit
<1>2. Start \in [createdAt : 0..1, id : Rows \union {0}]
  BY DEF Start
<1>3. pager \in [pc : {"reading", "done"}, cursor : [createdAt : 0..1, id : Rows \union {0}]]
  BY <1>2 DEF PagesInit
<1>4. createdAt \in [Rows -> 0..1]
  BY DEF PagesInit
<1>5. now \in 1..MaxDate
  BY PagesAssumption DEF PagesInit
<1>6. seen \in [Rows -> {0, 1}]
  BY DEF PagesInit
<1>7. now = 1 /\ listed = {} /\ steady = {}
  BY DEF PagesInit
<1>8. PagesBase
  BY <1>3, <1>4, <1>5, <1>6, <1>7 DEF PagesBase
<1> QED
  BY <1>1, <1>8 DEF PagesInv

LEMMA TickInv ==
    ASSUME PagesInv, Tick
    PROVE  PagesInv'
<1>1. PagesBase /\ RowsMade /\ now \in Nat
  BY PagesBaseTypes DEF PagesInv
<1>2. /\ now' \in 1..MaxDate /\ 0..now \subseteq 0..now'
      /\ UNCHANGED <<createdAt, listed, pager, seen, steady>>
  BY <1>1, PagesAssumption DEF Tick, PagesBase
<1>3. createdAt' \in [Rows -> 0..now']
  BY <1>1, <1>2 DEF PagesBase
<1>4. pager' \in [pc : {"reading", "done"}, cursor : [createdAt : 0..now', id : Rows \union {0}]]
  BY <1>1, <1>2 DEF PagesBase
<1>5. PagesBase'
  BY <1>1, <1>2, <1>3, <1>4 DEF PagesBase
<1> QED
  BY <1>2, <1>5 DEF PagesInv, Ahead

LEMMA CreateInv ==
    ASSUME PagesInv, NEW a \in Rows, Create(a)
    PROVE  PagesInv'
<1>1. PagesBase /\ RowsMade /\ now \in Nat /\ now # 0
  BY PagesBaseTypes DEF PagesInv, PagesBase
<1>2. /\ createdAt[a] = 0 /\ createdAt' = [createdAt EXCEPT ![a] = now]
      /\ UNCHANGED <<now, listed, pager, seen, steady>>
  BY DEF Create
<1>3. a \notin listed /\ a \notin steady
  BY <1>1, <1>2 DEF PagesBase
<1>4. \A b \in Rows \ {a} : createdAt'[b] = createdAt[b] /\ (Ahead(b)' <=> Ahead(b))
  BY <1>1, <1>2 DEF RowsMade, Ahead
<1>5. createdAt' \in [Rows -> 0..now]
  BY <1>1, <1>2 DEF PagesBase
<1>6. listed' \subseteq {b \in Rows : createdAt'[b] # 0}
  BY <1>1, <1>2, <1>3, <1>4 DEF PagesBase
<1>7. PagesBase'
  BY <1>1, <1>2, <1>5, <1>6 DEF PagesBase
<1>8. steady \subseteq Rows \ {a}
  BY <1>1, <1>3 DEF PagesBase
<1>9. CASE pager.pc = "reading" /\ pager.cursor # Start
  <2>1. seen[a] # 1
    BY <1>2, <1>9 DEF PagesInv
  <2> QED
    BY <1>2, <1>4, <1>7, <1>8, <1>9, <2>1 DEF PagesInv
<1> QED
  BY <1>2, <1>7, <1>9 DEF PagesInv

LEMMA ChangeListedInv ==
    ASSUME PagesInv, NEW a \in Rows, ChangeListed(a)
    PROVE  PagesInv'
<1>1. PagesBase
  BY DEF PagesInv
<1>2. /\ createdAt[a] # 0 /\ steady' \subseteq steady /\ steady' \subseteq listed'
      /\ listed' \subseteq listed \union {a}
      /\ UNCHANGED <<now, createdAt, pager, seen>>
  BY DEF ChangeListed
<1>3. PagesBase'
  BY <1>1, <1>2 DEF PagesBase
<1>4. \A b \in Rows : Ahead(b)' <=> Ahead(b)
  BY <1>2 DEF Ahead
<1> QED
  BY <1>2, <1>3, <1>4 DEF PagesInv, PagesBase, Ahead

\* The rows of a page were not seen before, and are listed.
LEMMA PageIsNew ==
    ASSUME PagesInv, pager.pc = "reading", NEW a \in AfterCursor(pager.cursor)
    PROVE  /\ seen[a] = 0 /\ a \in Rows /\ a \in listed /\ createdAt[a] # 0
           /\ pager.cursor # Start => Ahead(a)
<1>1. a \in listed /\ (pager.cursor # Start => Ahead(a))
  BY DEF AfterCursor, Ahead
<1>2. a \in Rows /\ createdAt[a] # 0 /\ seen[a] \in {0, 1}
  BY <1>1 DEF PagesInv, PagesBase
<1> QED
  BY <1>1, <1>2 DEF PagesInv

LEMMA ReadPageInv ==
    ASSUME PagesInv, ReadPage
    PROVE  PagesInv'
<1> DEFINE S       == AfterCursor(pager.cursor)
           results == First(S, PageLimit + 1)
           page    == First(results, PageLimit)
           last    == CHOOSE a \in page : \A b \in page \ {a} : ComesBefore(b, a)
<1>1. /\ pager.pc = "reading"
      /\ seen' = [a \in Rows |-> IF a \in page THEN seen[a] + 1 ELSE seen[a]]
      /\ steady' = IF pager.cursor = Start THEN listed ELSE steady
      /\ pager' = IF Cardinality(results) > PageLimit
                  THEN [pager EXCEPT !.cursor = [createdAt |-> createdAt[last], id |-> last]]
                  ELSE [pc |-> "done", cursor |-> Start]
      /\ UNCHANGED <<now, createdAt, listed>>
  BY DEF ReadPage
<1>2. PagesBase /\ RowsMade /\ now \in Nat /\ Rows \subseteq Nat /\ steady \subseteq listed
  BY PagesBaseTypes DEF PagesInv
<1>3. S \in SUBSET Rows
  BY PagesBaseTypes, <1>2 DEF AfterCursor
<1>4. /\ page \subseteq S
      /\ \A a \in S, b \in page : ComesBefore(a, b) => a \in page
      /\ Cardinality(results) > PageLimit => page # {}
      /\ ~ (Cardinality(results) > PageLimit) => page = S
  BY <1>2, <1>3, PageIs
<1>5. page # {} => last \in page /\ \A b \in page \ {last} : ComesBefore(b, last)
  <2>1. ASSUME page # {} PROVE \E a \in page : \A b \in page \ {a} : ComesBefore(b, a)
    <3>1. page \in SUBSET Rows
      BY <1>3, <1>4
    <3> HIDE DEF page
    <3> QED
      BY <1>2, <2>1, <3>1, LastRow
  <2> HIDE DEF page
  <2> QED
    BY <2>1
<1>6. \A a \in S : /\ seen[a] = 0 /\ a \in Rows /\ a \in listed /\ createdAt[a] # 0
                   /\ pager.cursor # Start => Ahead(a)
  BY <1>1, PageIsNew
<1>7. \A a \in listed : pager.cursor = Start \/ Ahead(a) => a \in S
  BY DEF AfterCursor, Ahead
<1> DEFINE more == Cardinality(results) > PageLimit
<1> HIDE DEF S, page, last, more
<1>8. /\ pager' = IF more THEN [pager EXCEPT !.cursor = [createdAt |-> createdAt[last], id |-> last]]
                  ELSE [pc |-> "done", cursor |-> Start]
      /\ more => page # {}
      /\ ~ more => page = S
  BY <1>1, <1>4 DEF more
<1> HIDE DEF results
<1>9. \A a \in Rows : seen'[a] = IF a \in page THEN 1 ELSE seen[a]
  BY <1>1, <1>4, <1>6
<1>10. seen' \in [Rows -> {0, 1}]
  BY <1>1, <1>2, <1>4, <1>6 DEF PagesBase
<1>11. steady' \subseteq listed'
  BY <1>1, <1>2
<1>12. CASE more
  <2>1. /\ last \in page /\ last \in S /\ last \in Rows /\ last \in listed /\ createdAt[last] # 0
        /\ \A b \in page \ {last} : ComesBefore(b, last)
    BY <1>4, <1>5, <1>6, <1>8, <1>12
  <2>2. createdAt[last] \in 0..now
    BY <1>2, <2>1 DEF PagesBase
  <2>3. /\ pager'.pc = "reading" /\ pager'.cursor = [createdAt |-> createdAt[last], id |-> last]
        /\ pager' \in [pc : {"reading", "done"}, cursor : [createdAt : 0..now, id : Rows \union {0}]]
    BY <1>1, <1>2, <1>8, <1>12, <2>1, <2>2 DEF PagesBase
  <2>4. pager'.cursor.createdAt = createdAt[last] /\ pager'.cursor.id = last /\ pager'.cursor # Start
    BY <2>1, <2>3 DEF Start
  <2>5. PagesBase'
    BY <1>1, <1>2, <1>10, <1>11, <2>3 DEF PagesBase
  <2>6. \A a \in Rows : Ahead(a)' <=> ComesBefore(last, a)
    BY <1>1, <1>2, <2>1, <2>4 DEF Ahead, ComesBefore, RowsMade
  <2>7. ASSUME NEW a \in Rows, seen'[a] = 1 PROVE createdAt[a] # 0 /\ ~ ComesBefore(last, a)
    <3>1. CASE a \in page
      BY <1>2, <1>4, <1>6, <2>1, <3>1, RowOrder
    <3>2. CASE a \notin page
      <4>1. seen[a] = 1
        BY <1>9, <2>7, <3>2
      <4>2. pager.cursor # Start
        BY <1>1, <4>1 DEF PagesInv
      <4>3. createdAt[a] # 0 /\ ~ Ahead(a) /\ Ahead(last)
        BY <1>1, <1>6, <2>1, <4>1, <4>2 DEF PagesInv
      <4>4. pager.cursor.createdAt \in Nat /\ pager.cursor.id \in Nat
        BY <1>2, PagesBaseTypes
      <4>5. ~ ComesBefore(last, a)
        BY <1>2, <2>1, <4>3, <4>4 DEF ComesBefore, Ahead, RowsMade
      <4> QED
        BY <4>3, <4>5
    <3> QED
      BY <3>1, <3>2
  <2>8. ASSUME NEW a \in steady', ~ ComesBefore(last, a) PROVE seen'[a] = 1
    <3>1. a \in listed /\ a \in Rows
      BY <1>1, <1>2, <2>8 DEF PagesBase
    <3>2. CASE a \in S
      <4>1. a \in page
        BY <1>2, <1>4, <2>1, <2>8, <3>1, <3>2, RowOrder
      <4> QED
        BY <1>9, <3>1, <4>1
    <3>3. CASE a \notin S
      <4>1. pager.cursor # Start /\ ~ Ahead(a)
        BY <1>7, <3>1, <3>3
      <4>2. a \in steady
        BY <1>1, <2>8, <4>1
      <4>3. seen[a] = 1
        BY <1>1, <4>1, <4>2 DEF PagesInv
      <4> QED
        BY <1>9, <3>1, <4>3
    <3> QED
      BY <3>2, <3>3
  <2>9. \A a \in Rows : seen'[a] = 1 => createdAt'[a] # 0 /\ ~ Ahead(a)'
    BY <1>1, <2>6, <2>7
  <2>10. \A a \in steady' : ~ Ahead(a)' => seen'[a] = 1
    <3>1. steady' \subseteq Rows
      BY <1>1, <1>2, <1>11 DEF PagesBase
    <3> QED
      BY <2>6, <2>8, <3>1
  <2> QED
    BY <2>1, <2>3, <2>4, <2>5, <2>9, <2>10 DEF PagesInv
<1>13. CASE ~ more
  <2>1. pager' = [pc |-> "done", cursor |-> Start] /\ page = S
    BY <1>8, <1>13
  <2>2. PagesBase'
    <3>1. pager' \in [pc : {"reading", "done"}, cursor : [createdAt : 0..now, id : Rows \union {0}]]
      BY <1>2, <2>1 DEF Start
    <3> QED
      BY <1>1, <1>2, <1>10, <1>11, <3>1 DEF PagesBase
  <2>3. ASSUME NEW a \in steady' PROVE seen'[a] = 1
    <3>1. a \in listed /\ a \in Rows
      BY <1>1, <1>2, <2>3 DEF PagesBase
    <3>2. CASE a \in S
      BY <1>9, <2>1, <3>1, <3>2
    <3>3. CASE a \notin S
      <4>1. pager.cursor # Start /\ ~ Ahead(a)
        BY <1>7, <3>1, <3>3
      <4>2. a \in steady
        BY <1>1, <2>3, <4>1
      <4>3. seen[a] = 1
        BY <1>1, <4>1, <4>2 DEF PagesInv
      <4> QED
        BY <1>9, <3>1, <4>3
    <3> QED
      BY <3>2, <3>3
  <2> QED
    BY <2>1, <2>2, <2>3 DEF PagesInv
<1> QED
  BY <1>12, <1>13

LEMMA PagesInvStep ==
    ASSUME PagesInv, [PagesNext]_pagesVars
    PROVE  PagesInv'
<1>1. CASE Tick
  BY <1>1, TickInv
<1>2. CASE ReadPage
  BY <1>2, ReadPageInv
<1>3. ASSUME NEW a \in Rows, Create(a) PROVE PagesInv'
  BY <1>3, CreateInv
<1>4. ASSUME NEW a \in Rows, ChangeListed(a) PROVE PagesInv'
  BY <1>4, ChangeListedInv
<1>5. CASE UNCHANGED pagesVars
  BY <1>5 DEF pagesVars, PagesInv, PagesBase, Ahead
<1> QED
  BY <1>1, <1>2, <1>3, <1>4, <1>5 DEF PagesNext

\* What the pages promise is part of the invariant.
LEMMA PagesInvGives ==
    ASSUME PagesInv
    PROVE  PagesTypeOK /\ EachOnceInPages
<1>1. PagesBase
  BY DEF PagesInv
<1>2. \A a \in Rows : seen[a] \in {0, 1}
  BY <1>1 DEF PagesBase
<1>3. ASSUME NEW a \in Rows PROVE seen[a] \in 0..Cardinality(Rows)
  <2>1. Cardinality(Rows) \in Nat /\ Cardinality(Rows) # 0
    BY PagesAssumption, FS_CardinalityType, FS_EmptySet
  <2> QED
    BY <1>2, <2>1
<1>4. seen \in [Rows -> 0..Cardinality(Rows)]
  BY <1>1, <1>3 DEF PagesBase
<1>5. PagesTypeOK
  BY <1>1, <1>4 DEF PagesBase, PagesTypeOK
<1>6. EachOnceInPages
  BY <1>2 DEF EachOnceInPages, PagesInv
<1> QED
  BY <1>5, <1>6

\* The dates, the list, the cursor and the history of a reader keep their types.
THEOREM PagesTypeCorrect == PagesSpec => []PagesTypeOK
<1>1. PagesInit => PagesInv
  BY PagesInvInit
<1>2. PagesInv /\ [PagesNext]_pagesVars => PagesInv'
  BY PagesInvStep
<1>3. PagesInv => PagesTypeOK
  BY PagesInvGives
<1> QED
  BY <1>1, <1>2, <1>3, PTL DEF PagesSpec

\* EachOnceInPages: whoever follows the cursors gets no row twice, and at the end every row that stayed in
\* the list, whatever the number of rows, the limit of a page and the dates.
THEOREM EachRowOnce == PagesSpec => []EachOnceInPages
<1>1. PagesInit => PagesInv
  BY PagesInvInit
<1>2. PagesInv /\ [PagesNext]_pagesVars => PagesInv'
  BY PagesInvStep
<1>3. PagesInv => EachOnceInPages
  BY PagesInvGives
<1> QED
  BY <1>1, <1>2, <1>3, PTL DEF PagesSpec

-----------------------------------------------------------------------------
(* Posts: what is reached level by level                                      *)

\* Induction over the numbers of a level: a set of them that has 0 and is closed has all.
LEMMA AllLevels ==
    ASSUME NEW N \in Nat, NEW T, T \subseteq 0..N, 0 \in T, \A n \in T : n < N => n + 1 \in T
    PROVE  \A n \in 0..N : n \in T
<1> SUFFICES ASSUME NEW k \in 0..N, k \notin T PROVE FALSE
  OBVIOUS
<1> DEFINE M == (0..N) \ T
<1>1. M \subseteq Nat /\ M # {}
  OBVIOUS
<1>2. PICK m \in M : \A n \in M : m <= n
  BY <1>1, LeastNumber
<1>3. m \in 0..N /\ m # 0
  BY <1>2
<1>4. m - 1 \in 0..N /\ m - 1 \notin M
  BY <1>2, <1>3
<1>5. m - 1 \in T /\ m - 1 < N
  BY <1>3, <1>4
<1>6. (m - 1) + 1 \in T
  BY <1>5
<1>7. (m - 1) + 1 = m
  BY <1>3
<1> QED
  BY <1>2, <1>6, <1>7

\* Whom the members of X lead to, along R.
Led(R, U, X) == {c \in U : \E x \in X : <<x, c>> \in R}

\* The levels of a walk along R from s, N of them after the first.
IsWalk(level, R, U, s, N) ==
    /\ N \in Nat /\ s \subseteq U
    /\ level = [n \in 0..N |-> IF n = 0 THEN s ELSE level[n - 1] \union Led(R, U, level[n - 1])]

Stays(level, s, N, Q) == \A n \in 0..N : s \subseteq level[n] /\ level[n] \subseteq Q

Closed(R, U, Q) == Led(R, U, Q) \subseteq Q

LEMMA WalkExists ==
    ASSUME NEW R, NEW U, NEW s, s \subseteq U, NEW N \in Nat
    PROVE  \E level : IsWalk(level, R, U, s, N)
<1> DEFINE T == {n \in 0..N : \E level : IsWalk(level, R, U, s, n)}
<1>1. 0 \in T
  <2>1. IsWalk([n \in 0..0 |-> s], R, U, s, 0)
    BY DEF IsWalk
  <2> QED
    BY <2>1
<1>2. ASSUME NEW n \in T, n < N PROVE n + 1 \in T
  <2>1. PICK level : IsWalk(level, R, U, s, n)
    OBVIOUS
  <2> DEFINE next == [k \in 0..(n + 1) |-> IF k = n + 1 THEN level[n] \union Led(R, U, level[n]) ELSE level[k]]
  <2>2. n \in Nat /\ n + 1 \in 0..N /\ n + 1 \in Nat
    BY <1>2
  <2>3. \A k \in 0..n : next[k] = level[k]
    BY <2>2
  <2>4. next[n + 1] = level[n] \union Led(R, U, level[n])
    BY <2>2
  <2>5. \A k \in 0..(n + 1) :
          next[k] = IF k = 0 THEN s ELSE next[k - 1] \union Led(R, U, next[k - 1])
    <3>1. ASSUME NEW k \in 0..(n + 1), k = n + 1
          PROVE  next[k] = IF k = 0 THEN s ELSE next[k - 1] \union Led(R, U, next[k - 1])
      <4>1. k # 0 /\ k - 1 = n /\ n \in 0..n
        BY <2>2, <3>1
      <4> HIDE DEF next
      <4> QED
        BY <2>3, <2>4, <3>1, <4>1
    <3>2. ASSUME NEW k \in 0..(n + 1), k # n + 1
          PROVE  next[k] = IF k = 0 THEN s ELSE next[k - 1] \union Led(R, U, next[k - 1])
      <4>1. k \in 0..n /\ (k # 0 => k - 1 \in 0..n)
        BY <2>2, <3>2
      <4>2. level[k] = IF k = 0 THEN s ELSE level[k - 1] \union Led(R, U, level[k - 1])
        BY <2>1, <4>1 DEF IsWalk
      <4> HIDE DEF next
      <4> QED
        BY <2>3, <4>1, <4>2
    <3> QED
      BY <3>1, <3>2
  <2>6. next = [k \in 0..(n + 1) |-> next[k]]
    OBVIOUS
  <2> HIDE DEF next
  <2>7. next = [k \in 0..(n + 1) |-> IF k = 0 THEN s ELSE next[k - 1] \union Led(R, U, next[k - 1])]
    BY <2>5, <2>6
  <2>8. IsWalk(next, R, U, s, n + 1)
    BY <2>2, <2>7 DEF IsWalk
  <2> QED
    BY <2>2, <2>8
<1> HIDE DEF T
<1>3. T \subseteq 0..N
  BY DEF T
<1>4. \A n \in 0..N : n \in T
  BY <1>1, <1>2, <1>3, AllLevels
<1> QED
  BY <1>4 DEF T

LEMMA WalkIs ==
    ASSUME NEW R, NEW U, NEW s, NEW N, NEW level, IsWalk(level, R, U, s, N)
    PROVE  /\ level[0] = s /\ N \in Nat /\ s \subseteq U
           /\ \A n \in 0..N : n < N => level[n + 1] = level[n] \union Led(R, U, level[n])
<1>0. N \in Nat /\ s \subseteq U
  BY DEF IsWalk
<1>1. \A n \in 0..N : level[n] = IF n = 0 THEN s ELSE level[n - 1] \union Led(R, U, level[n - 1])
  BY DEF IsWalk
<1>2. level[0] = s
  <2>1. 0 \in 0..N
    BY <1>0
  <2> QED
    BY <1>1, <2>1
<1>3. ASSUME NEW n \in 0..N, n < N PROVE level[n + 1] = level[n] \union Led(R, U, level[n])
  <2>1. n + 1 \in 0..N /\ n + 1 # 0 /\ (n + 1) - 1 = n
    BY <1>0, <1>3
  <2> QED
    BY <1>1, <2>1
<1> QED
  BY <1>0, <1>2, <1>3

\* The walk stays in every set that has s and is closed.
LEMMA WalkStays ==
    ASSUME NEW R, NEW U, NEW s, NEW N, NEW level, IsWalk(level, R, U, s, N),
           NEW Q, s \subseteq Q, Closed(R, U, Q)
    PROVE  Stays(level, s, N, Q)
<1>0. /\ level[0] = s /\ N \in Nat /\ s \subseteq U
      /\ \A n \in 0..N : n < N => level[n + 1] = level[n] \union Led(R, U, level[n])
  BY WalkIs
<1> DEFINE T == {n \in 0..N : level[n] \subseteq Q /\ s \subseteq level[n]}
<1>1. 0 \in T
  <2>1. 0 \in 0..N
    BY <1>0
  <2> QED
    BY <1>0, <2>1
<1>2. ASSUME NEW n \in T, n < N PROVE n + 1 \in T
  <2>1. n \in 0..N /\ level[n] \subseteq Q /\ s \subseteq level[n] /\ n + 1 \in 0..N
    BY <1>0, <1>2
  <2>2. level[n + 1] = level[n] \union Led(R, U, level[n])
    BY <1>0, <1>2, <2>1
  <2>3. Led(R, U, level[n]) \subseteq Q
    BY <2>1 DEF Led, Closed
  <2> QED
    BY <2>1, <2>2, <2>3
<1>3. T \subseteq 0..N
  OBVIOUS
<1> HIDE DEF T
<1>4. \A n \in 0..N : n \in T
  BY <1>0, <1>1, <1>2, <1>3, AllLevels
<1> QED
  BY <1>4 DEF T, Stays

LEMMA WalkInside ==
    ASSUME NEW R, NEW U, NEW s, NEW N, NEW level, IsWalk(level, R, U, s, N)
    PROVE  Stays(level, s, N, U)
<1>1. s \subseteq U /\ Closed(R, U, U)
  BY DEF Led, IsWalk, Closed
<1> QED
  BY <1>1, WalkStays, Zenon

\* There are levels enough: the last one is closed.
LEMMA WalkEnds ==
    ASSUME NEW R, NEW U, NEW s, NEW N, NEW level, IsWalk(level, R, U, s, N),
           IsFiniteSet(U), Cardinality(U) <= N + 1, s # {}
    PROVE  Closed(R, U, level[N])
<1> DEFINE T == {n \in 0..N : Closed(R, U, level[n]) \/ Cardinality(level[n]) >= n + 1}
<1>8. /\ level[0] = s /\ N \in Nat /\ s \subseteq U
      /\ \A n \in 0..N : n < N => level[n + 1] = level[n] \union Led(R, U, level[n])
  BY WalkIs
<1>0. \A n \in 0..N : level[n] \in SUBSET U /\ s \subseteq level[n]
  BY WalkInside DEF Stays
<1>9. Cardinality(U) \in Nat /\ \A X \in SUBSET U : IsFiniteSet(X) /\ Cardinality(X) \in Nat
  BY FS_Subset, FS_CardinalityType
<1>1. 0 \in T
  <2>1. Cardinality(s) # 0 /\ Cardinality(s) \in Nat /\ 0 \in 0..N
    BY <1>8, <1>9, FS_EmptySet
  <2> QED
    BY <1>8, <2>1
<1>2. ASSUME NEW n \in T, n < N PROVE n + 1 \in T
  <2>1. n \in 0..N /\ n + 1 \in 0..N
    BY <1>2, <1>8
  <2>2. level[n + 1] = level[n] \union Led(R, U, level[n])
    BY <1>2, <1>8, <2>1
  <2>3. CASE Closed(R, U, level[n])
    <3>1. level[n + 1] = level[n]
      BY <2>2, <2>3 DEF Closed
    <3> QED
      BY <2>1, <2>3, <3>1
  <2>4. CASE ~ Closed(R, U, level[n])
    <3>1. Cardinality(level[n]) >= n + 1
      BY <2>4
    <3>2. level[n] \subseteq level[n + 1] /\ level[n] # level[n + 1]
      BY <2>2, <2>4 DEF Closed
    <3>3. level[n + 1] \in SUBSET U /\ level[n] \in SUBSET U
      BY <1>0, <2>1
    <3>4. IsFiniteSet(level[n + 1]) /\ Cardinality(level[n + 1]) \in Nat /\ Cardinality(level[n]) \in Nat
      BY <1>9, <3>3
    <3>5. Cardinality(level[n]) <= Cardinality(level[n + 1])
          /\ Cardinality(level[n]) # Cardinality(level[n + 1])
      BY <3>2, <3>4, FS_Subset
    <3>6. Cardinality(level[n + 1]) >= (n + 1) + 1
      BY <2>1, <3>1, <3>4, <3>5
    <3> QED
      BY <2>1, <3>6
  <2> QED
    BY <2>3, <2>4
<1>3. T \subseteq 0..N
  OBVIOUS
<1> HIDE DEF T
<1>4. \A n \in 0..N : n \in T
  BY <1>1, <1>2, <1>3, <1>8, AllLevels
<1>5. N \in 0..N
  BY <1>8
<1>6. Closed(R, U, level[N]) \/ Cardinality(level[N]) >= N + 1
  BY <1>4, <1>5 DEF T
<1>7. CASE Cardinality(level[N]) >= N + 1
  <2>1. level[N] \subseteq U
    BY <1>0, <1>5
  <2>2. Cardinality(level[N]) <= Cardinality(U) /\ Cardinality(level[N]) \in Nat
        /\ (Cardinality(U) = Cardinality(level[N]) => U = level[N])
    BY <1>9, <2>1, FS_Subset
  <2>3. U = level[N]
    BY <1>7, <1>8, <1>9, <2>2
  <2> QED
    BY <2>3 DEF Led, Closed
<1> QED
  BY <1>6, <1>7

-----------------------------------------------------------------------------
(* Posts: the tree of a post, and the posts above one                         *)

IsTree(st, par) == st \subseteq PostIds /\ par \in [PostIds -> st \union {NoPost}]

LEMMA Posted ==
    ASSUME NEW st, st \subseteq PostIds
    PROVE  /\ Cardinality(PostIds) \in Nat
           /\ IsFiniteSet(st) /\ Cardinality(st) <= Cardinality(PostIds) + 1
           /\ IsFiniteSet(st \union {NoPost}) /\ Cardinality(st \union {NoPost}) <= Cardinality(PostIds) + 1
<1>1. Cardinality(PostIds) \in Nat /\ NoPost \notin PostIds
  BY TreeAssumption, FS_CardinalityType
<1>2. IsFiniteSet(st) /\ Cardinality(st) \in Nat /\ Cardinality(st) <= Cardinality(PostIds)
  BY TreeAssumption, FS_Subset, FS_CardinalityType
<1>3. IsFiniteSet(st \union {NoPost}) /\ Cardinality(st \union {NoPost}) = Cardinality(st) + 1
  BY <1>1, <1>2, FS_AddElement
<1> QED
  BY <1>1, <1>2, <1>3

\* The tree of a stored post has the post, some of what is stored, and with a post its replies.
LEMMA PostTreeIs ==
    ASSUME IsTree(stored, parent), NEW p \in stored
    PROVE  /\ p \in PostTreeOf(p) /\ PostTreeOf(p) \subseteq stored
           /\ \A c \in stored : parent[c] \in PostTreeOf(p) => c \in PostTreeOf(p)
<1> DEFINE N == Cardinality(PostIds)
           R == {<<parent[c], c>> : c \in stored}
           L == CHOOSE level : level = [n \in 0..N |->
                    IF n = 0 THEN {p} ELSE level[n - 1] \union {c \in stored : parent[c] \in level[n - 1]}]
<1>1. PostTreeOf(p) = L[N]
  BY DEF PostTreeOf
<1>2. \A X : {c \in stored : parent[c] \in X} = Led(R, stored, X)
  BY DEF Led
<1>3. N \in Nat /\ IsFiniteSet(stored) /\ Cardinality(stored) <= N + 1
  BY Posted DEF IsTree
<1>4. \A c \in stored : <<parent[c], c>> \in R
  OBVIOUS
<1> HIDE DEF N, R
<1>8. {p} \subseteq stored /\ {p} # {} /\ N \in 0..N
  BY <1>3
<1>5. PICK level : IsWalk(level, R, stored, {p}, N)
  BY <1>3, <1>8, WalkExists
<1>6. \A f : IsWalk(f, R, stored, {p}, N) <=>
               f = [n \in 0..N |-> IF n = 0 THEN {p} ELSE f[n - 1] \union {c \in stored : parent[c] \in f[n - 1]}]
  BY <1>2, <1>3, <1>8 DEF IsWalk
<1>7. IsWalk(L, R, stored, {p}, N)
  BY <1>5, <1>6
<1> HIDE DEF L
<1>9. L[N] \subseteq stored /\ {p} \subseteq L[N]
  <2>1. Stays(L, {p}, N, stored)
    BY <1>7, WalkInside
  <2> QED
    BY <1>8, <2>1 DEF Stays
<1>10. Closed(R, stored, L[N])
  BY <1>3, <1>7, <1>8, WalkEnds
<1>11. \A c \in stored : parent[c] \in L[N] => c \in L[N]
  BY <1>4, <1>10 DEF Led, Closed
<1> QED
  BY <1>1, <1>9, <1>11

\* The walk of Above, with the post and NoPost.
Upwards(par, p) ==
    LET level[n \in 0..Cardinality(PostIds)] ==
            IF n = 0 THEN {p} ELSE level[n - 1] \union {par[c] : c \in level[n - 1] \ {NoPost}}
    IN  level[Cardinality(PostIds)]

LEMMA AboveIs == \A p \in PostIds : Above(p) = Upwards(parent, p) \ {p, NoPost}
BY DEF Above, Upwards

\* What leads up from Q stays in Q.
ClosedUp(st, par, Q) == \A c \in (Q \intersect st) \ {NoPost} : par[c] \in Q

LEMMA UpwardsIs ==
    ASSUME NEW st, NEW par, IsTree(st, par), NEW p \in st
    PROVE  /\ p \in Upwards(par, p) /\ Upwards(par, p) \subseteq st \union {NoPost}
           /\ \A c \in Upwards(par, p) \ {NoPost} : par[c] \in Upwards(par, p)
           /\ \A Q : p \in Q /\ ClosedUp(st, par, Q) => Upwards(par, p) \subseteq Q
<1> DEFINE N == Cardinality(PostIds)
           U == st \union {NoPost}
           R == {<<c, par[c]>> : c \in st}
           L == CHOOSE level : level = [n \in 0..N |->
                    IF n = 0 THEN {p} ELSE level[n - 1] \union {par[c] : c \in level[n - 1] \ {NoPost}}]
<1>1. Upwards(par, p) = L[N]
  BY DEF Upwards
<1>2. \A X \in SUBSET U : {par[c] : c \in X \ {NoPost}} = Led(R, U, X)
  <2>1. \A c \in st : par[c] \in U /\ c # NoPost
    BY TreeAssumption DEF IsTree
  <2> QED
    BY <2>1 DEF Led
<1>3. N \in Nat /\ IsFiniteSet(U) /\ Cardinality(U) <= N + 1
  BY Posted DEF IsTree
<1>4. {p} \in SUBSET U /\ {p} # {} /\ N \in 0..N
  BY <1>3
<1>5. \A c \in st : <<c, par[c]>> \in R /\ par[c] \in U /\ c # NoPost
  BY TreeAssumption DEF IsTree
<1>6. \A e \in R : \E c \in st : e = <<c, par[c]>>
  OBVIOUS
<1> DEFINE Walks(f) ==
      f = [n \in 0..N |-> IF n = 0 THEN {p} ELSE f[n - 1] \union {par[c] : c \in f[n - 1] \ {NoPost}}]
<1>12. U = st \union {NoPost}
  OBVIOUS
<1> HIDE DEF N, R, U
<1>7. PICK level : IsWalk(level, R, U, {p}, N)
  BY <1>3, <1>4, WalkExists
<1>8. Walks(level)
  <2>1. \A n \in 0..N : level[n] \in SUBSET U
    <3>1. Stays(level, {p}, N, U)
      BY <1>7, WalkInside
    <3> QED
      BY <3>1 DEF Stays
  <2>2. \A n \in 0..N : n # 0 => n - 1 \in 0..N
    BY <1>3
  <2>3. \A n \in 0..N : n # 0 => {par[c] : c \in level[n - 1] \ {NoPost}} = Led(R, U, level[n - 1])
    BY <1>2, <2>1, <2>2
  <2> QED
    BY <1>7, <2>3 DEF IsWalk
<1>9. Walks(L)
  BY <1>8
<1> HIDE DEF L
<1>10. \A n \in 0..N : L[n] \in SUBSET U
  <2> DEFINE T == {n \in 0..N : L[n] \in SUBSET U}
  <2>0. \A n \in 0..N : L[n] = IF n = 0 THEN {p} ELSE L[n - 1] \union {par[c] : c \in L[n - 1] \ {NoPost}}
    BY <1>9
  <2>1. 0 \in T
    <3>1. 0 \in 0..N
      BY <1>3
    <3>2. L[0] = {p}
      BY <2>0, <3>1
    <3> QED
      BY <1>4, <3>1, <3>2
  <2>2. ASSUME NEW n \in T, n < N PROVE n + 1 \in T
    <3>1. n \in 0..N /\ n + 1 \in 0..N /\ n + 1 # 0 /\ (n + 1) - 1 = n
      BY <1>3, <2>2
    <3>2. L[n + 1] = L[n] \union {par[c] : c \in L[n] \ {NoPost}}
      BY <2>0, <3>1
    <3>3. {par[c] : c \in L[n] \ {NoPost}} \subseteq U
      BY <1>2 DEF Led
    <3> QED
      BY <3>1, <3>2, <3>3
  <2>3. T \subseteq 0..N
    OBVIOUS
  <2> HIDE DEF T
  <2>4. \A n \in 0..N : n \in T
    BY <1>3, <2>1, <2>2, <2>3, AllLevels
  <2> QED
    BY <2>4 DEF T
<1>11. IsWalk(L, R, U, {p}, N)
  <2>1. \A n \in 0..N : n # 0 => n - 1 \in 0..N
    BY <1>3
  <2>2. \A n \in 0..N : n # 0 => {par[c] : c \in L[n - 1] \ {NoPost}} = Led(R, U, L[n - 1])
    BY <1>2, <1>10, <2>1
  <2> QED
    BY <1>3, <1>4, <1>9, <2>2 DEF IsWalk
<1> HIDE DEF Walks
<1>13. L[N] \in SUBSET U /\ {p} \subseteq L[N]
  <2>1. Stays(L, {p}, N, U)
    BY <1>11, WalkInside
  <2> QED
    BY <1>4, <2>1 DEF Stays
<1>14. Closed(R, U, L[N])
  BY <1>3, <1>4, <1>11, WalkEnds
<1>15. \A c \in L[N] \ {NoPost} : par[c] \in L[N]
  BY <1>5, <1>12, <1>13, <1>14 DEF Led, Closed
<1>16. ASSUME NEW Q, p \in Q, ClosedUp(st, par, Q) PROVE L[N] \subseteq Q
  <2>1. \A x \in Q, c \in U : <<x, c>> \in R => c \in Q
    BY <1>5, <1>6, <1>16 DEF ClosedUp
  <2>2. {p} \subseteq Q /\ Closed(R, U, Q)
    BY <1>16, <2>1 DEF Led, Closed
  <2>3. Stays(L, {p}, N, Q)
    BY <1>11, <2>2, WalkStays
  <2> QED
    BY <1>4, <2>3 DEF Stays
<1> QED
  BY <1>1, <1>12, <1>13, <1>15, <1>16

-----------------------------------------------------------------------------
(* Posts: a deletion takes the tree with it                                   *)

AboveOf(par, p) == Upwards(par, p) \ {p, NoPost}

\* The posts above one are stored, and were there before what came later.
LEMMA AboveWithin ==
    ASSUME NEW st, NEW par, IsTree(st, par), NEW p \in st
    PROVE  AboveOf(par, p) \subseteq st \ {p}
BY UpwardsIs DEF AboveOf

LEMMA AboveKept ==
    ASSUME NEW st, NEW par, IsTree(st, par), NEW r \in PostIds \ st, NEW of \in st \union {NoPost},
           NEW next, next = [par EXCEPT ![r] = of], NEW p \in st
    PROVE  AboveOf(next, p) \subseteq AboveOf(par, p)
<1>1. IsTree(st \union {r}, next)
  BY DEF IsTree
<1>2. p \in Upwards(par, p) /\ Upwards(par, p) \subseteq st \union {NoPost}
  BY UpwardsIs
<1>3. \A c \in Upwards(par, p) \ {NoPost} : par[c] \in Upwards(par, p)
  BY UpwardsIs
<1>4. ClosedUp(st \union {r}, next, Upwards(par, p))
  BY <1>2, <1>3, TreeAssumption DEF IsTree, ClosedUp
<1>5. Upwards(next, p) \subseteq Upwards(par, p)
  BY <1>1, <1>2, <1>4, UpwardsIs
<1> QED
  BY <1>5 DEF AboveOf

LEMMA AboveNew ==
    ASSUME NEW st, NEW par, IsTree(st, par), NEW r \in PostIds \ st, NEW of \in st,
           NEW next, next = [par EXCEPT ![r] = of]
    PROVE  AboveOf(next, r) \subseteq {of} \union AboveOf(par, of)
<1> DEFINE Q == {r} \union Upwards(par, of)
<1>1. IsTree(st \union {r}, next) /\ r \in st \union {r} /\ r # NoPost
  BY TreeAssumption DEF IsTree
<1>2. of \in Upwards(par, of) /\ Upwards(par, of) \subseteq st \union {NoPost}
  BY UpwardsIs
<1>3. \A c \in Upwards(par, of) \ {NoPost} : par[c] \in Upwards(par, of)
  BY UpwardsIs
<1>4. \A c \in Upwards(par, of) \ {NoPost} : next[c] = par[c]
  BY <1>1, <1>2 DEF IsTree
<1>5. next[r] = of
  BY DEF IsTree
<1>6. ClosedUp(st \union {r}, next, Q)
  BY <1>2, <1>3, <1>4, <1>5 DEF ClosedUp
<1>7. r \in Q
  OBVIOUS
<1> HIDE DEF Q
<1>8. Upwards(next, r) \subseteq Q
  BY <1>1, <1>6, <1>7, UpwardsIs
<1> QED
  BY <1>8 DEF AboveOf, Q

LEMMA AboveRoot ==
    ASSUME NEW st, NEW par, IsTree(st, par), NEW r \in PostIds \ st, par[r] = NoPost
    PROVE  AboveOf(par, r) = {}
<1> DEFINE Q == {r, NoPost}
<1>1. IsTree(st \union {r}, par) /\ r \in st \union {r}
  BY DEF IsTree
<1>2. r \in Q /\ ClosedUp(st \union {r}, par, Q)
  BY DEF ClosedUp
<1> HIDE DEF Q
<1>3. Upwards(par, r) \subseteq Q
  BY <1>1, <1>2, UpwardsIs
<1> QED
  BY <1>3 DEF AboveOf, Q

\* Who hangs from a post of a tree is in the tree.
LEMMA BelowInTree ==
    ASSUME IsTree(stored, parent), NEW r \in stored, NEW p \in stored, NEW a \in AboveOf(parent, p),
           a \in PostTreeOf(r)
    PROVE  p \in PostTreeOf(r)
<1> SUFFICES ASSUME p \notin PostTreeOf(r) PROVE FALSE
  OBVIOUS
<1> DEFINE tree == PostTreeOf(r)
           Q    == (stored \union {NoPost}) \ tree
<1>1. tree \subseteq stored /\ \A c \in stored : parent[c] \in tree => c \in tree
  BY PostTreeIs
<1>2. ClosedUp(stored, parent, Q)
  BY <1>1 DEF IsTree, ClosedUp
<1>3. p \in Q
  OBVIOUS
<1>4. a \in Upwards(parent, p) /\ a \notin Q
  BY DEF AboveOf
<1> HIDE DEF Q, tree
<1>5. Upwards(parent, p) \subseteq Q
  BY <1>2, <1>3, UpwardsIs
<1> QED
  BY <1>4, <1>5

-----------------------------------------------------------------------------
(* Posts: replies, marks and deletions                                        *)

WriterStates(st) ==
    [op : {"idle", "reply", "mark", "unmark"}, user : Members \union {NoPost},
     of : st \union {NoPost}, gone : SUBSET st]

TreesRight(par, lv, orph) == \A p \in lv : \A a \in AboveOf(par, p) \ lv : <<p, a>> \in orph

MarksRight(mk, lv, late) ==
    \A row \in Members \X PostIds : mk[row] = "live" => row[2] \in lv \/ row \in late

\* What a request under way still knows of the deletions since it looked.
WriterRight(q, par, st, lv, orph) ==
    q.op # "idle" =>
        /\ q.user \in Members /\ q.of \in st
        /\ q.of \in lv \/ q.of \in q.gone
        /\ \A a \in AboveOf(par, q.of) \ lv : a \in q.gone \/ <<q.of, a>> \in orph

TreeInv ==
    /\ TreeTypeOK
    /\ \A p \in PostIds \ stored : parent[p] = NoPost
    /\ TreesRight(parent, live, orphans)
    /\ MarksRight(marks, live, lateMarks)
    /\ \A w \in Writers : WriterRight(writer[w], parent, stored, live, orphans)

LEMMA TreeShape ==
    ASSUME TreeTypeOK
    PROVE  /\ IsTree(stored, parent) /\ live \subseteq stored /\ stored \subseteq PostIds
           /\ writer \in [Writers -> WriterStates(stored)]
BY DEF TreeTypeOK, IsTree, WriterStates

LEMMA WaitingIs ==
    /\ Waiting.op = "idle" /\ \A st : Waiting \in WriterStates(st)
    /\ \A par, st, lv, orph : WriterRight(Waiting, par, st, lv, orph)
BY DEF Waiting, WriterStates, WriterRight

LEMMA TreeInvInit ==
    ASSUME TreeInit
    PROVE  TreeInv
<1>1. live = {} /\ stored = {} /\ orphans = {} /\ lateMarks = {}
  BY DEF TreeInit
<1>2. parent \in [PostIds -> stored \union {NoPost}] /\ \A p \in PostIds \ stored : parent[p] = NoPost
  BY <1>1 DEF TreeInit
<1>3. marks = [row \in Members \X PostIds |-> "none"]
  BY DEF TreeInit
<1>4. marks \in [Members \X PostIds -> {"none", "live", "deleted"}] /\ MarksRight(marks, live, lateMarks)
  BY <1>3 DEF MarksRight
<1>5. writer \in [Writers -> WriterStates(stored)] /\ \A w \in Writers : writer[w] = Waiting
  BY WaitingIs DEF TreeInit
<1>6. TreeTypeOK
  BY <1>1, <1>2, <1>4, <1>5 DEF TreeTypeOK, WriterStates
<1>7. \A w \in Writers : WriterRight(writer[w], parent, stored, live, orphans)
  BY <1>5, WaitingIs
<1>8. TreesRight(parent, live, orphans)
  BY <1>1 DEF TreesRight
<1> QED
  BY <1>2, <1>4, <1>6, <1>7, <1>8 DEF TreeInv

\* A step of a request that only changes marks.
LEMMA WriterMoves ==
    ASSUME TreeInv, NEW w \in Writers, NEW q \in WriterStates(stored), writer' = [writer EXCEPT ![w] = q],
           WriterRight(q, parent, stored, live, orphans),
           UNCHANGED <<parent, stored, live, orphans>>,
           marks' \in [Members \X PostIds -> {"none", "live", "deleted"}],
           lateMarks' \subseteq Members \X stored, MarksRight(marks', live, lateMarks')
    PROVE  TreeInv'
<1>0. TreeTypeOK /\ writer \in [Writers -> WriterStates(stored)]
  BY TreeShape DEF TreeInv
<1>1. writer' \in [Writers -> WriterStates(stored)]
  BY <1>0
<1>2. TreeTypeOK'
  BY <1>0, <1>1 DEF TreeTypeOK, WriterStates
<1>3. \A v \in Writers : WriterRight(writer'[v], parent, stored, live, orphans)
  <2>1. \A v \in Writers : writer'[v] = IF v = w THEN q ELSE writer[v]
    BY <1>0
  <2> QED
    BY <2>1 DEF TreeInv
<1> QED
  BY <1>2, <1>3 DEF TreeInv

\* What was written of the trees and of the requests stays right when a post is stored.
LEMMA StoredInv ==
    ASSUME TreeInv, NEW r \in PostIds \ stored, NEW of \in stored \union {NoPost},
           parent' = [parent EXCEPT ![r] = of],
           stored' = stored \union {r}, live' = live \union {r}, orphans \subseteq orphans',
           orphans' \subseteq stored' \X stored',
           \A a \in AboveOf(parent', r) \ live : <<r, a>> \in orphans',
           writer' \in [Writers -> WriterStates(stored)],
           \A v \in Writers : writer'[v] \in {writer[v], Waiting},
           UNCHANGED <<marks, lateMarks>>
    PROVE  TreeInv'
<1>0. /\ TreeTypeOK /\ IsTree(stored, parent) /\ live \subseteq stored /\ stored \subseteq PostIds
  BY TreeShape DEF TreeInv
<1>1. \A p \in stored : AboveOf(parent', p) \subseteq AboveOf(parent, p)
  BY <1>0, AboveKept
<1>2. TreesRight(parent', live', orphans')
  <2>1. ASSUME NEW p \in live', NEW a \in AboveOf(parent', p) \ live' PROVE <<p, a>> \in orphans'
    <3>1. CASE p = r
      BY <2>1, <3>1
    <3>2. CASE p # r
      <4>1. p \in live /\ p \in stored /\ a \in AboveOf(parent, p) \ live
        BY <1>0, <1>1, <2>1, <3>2
      <4>2. <<p, a>> \in orphans
        BY <4>1 DEF TreeInv, TreesRight
      <4> QED
        BY <4>2
    <3> QED
      BY <3>1, <3>2
  <2> QED
    BY <2>1 DEF TreesRight
<1>3. ASSUME NEW v \in Writers PROVE WriterRight(writer'[v], parent', stored', live', orphans')
  <2>1. CASE writer'[v] = Waiting
    BY <2>1, WaitingIs
  <2>2. CASE writer'[v] = writer[v]
    <3>1. WriterRight(writer[v], parent, stored, live, orphans)
      BY DEF TreeInv
    <3>2. SUFFICES ASSUME writer[v].op # "idle" PROVE WriterRight(writer[v], parent', stored', live', orphans')
      BY <2>2 DEF WriterRight
    <3>3. /\ writer[v].user \in Members /\ writer[v].of \in stored
          /\ writer[v].of \in live \/ writer[v].of \in writer[v].gone
          /\ \A a \in AboveOf(parent, writer[v].of) \ live : a \in writer[v].gone \/ <<writer[v].of, a>> \in orphans
      BY <3>1, <3>2 DEF WriterRight
    <3>4. AboveOf(parent', writer[v].of) \ live' \subseteq AboveOf(parent, writer[v].of) \ live
      BY <1>1, <3>3
    <3> QED
      BY <3>3, <3>4 DEF WriterRight
  <2> QED
    BY <2>1, <2>2
<1>4. MarksRight(marks', live', lateMarks')
  BY DEF TreeInv, MarksRight
<1>5. \A p \in PostIds \ stored' : parent'[p] = NoPost
  BY <1>0 DEF TreeInv, IsTree
<1>6. TreeTypeOK'
  <2>1. writer' \in [Writers -> WriterStates(stored')]
    BY DEF WriterStates
  <2>2. parent' \in [PostIds -> stored' \union {NoPost}]
    BY <1>0 DEF IsTree
  <2> QED
    BY <1>0, <2>1, <2>2 DEF TreeTypeOK, WriterStates
<1> QED
  BY <1>2, <1>3, <1>4, <1>5, <1>6 DEF TreeInv

LEMMA CreatePostInv ==
    ASSUME TreeInv, NEW p \in PostIds, CreatePost(p)
    PROVE  TreeInv'
<1>0. /\ TreeTypeOK /\ IsTree(stored, parent) /\ writer \in [Writers -> WriterStates(stored)]
  BY TreeShape DEF TreeInv
<1>1. /\ p \in PostIds \ stored /\ stored' = stored \union {p} /\ live' = live \union {p}
      /\ UNCHANGED <<parent, marks, writer, orphans, lateMarks>>
  BY DEF CreatePost
<1>2. parent[p] = NoPost
  BY <1>1 DEF TreeInv
<1>3. parent' = [parent EXCEPT ![p] = NoPost]
  BY <1>0, <1>1, <1>2 DEF IsTree
<1>4. AboveOf(parent', p) = {}
  BY <1>0, <1>1, <1>2, AboveRoot
<1>5. orphans' \subseteq stored' \X stored' /\ orphans \subseteq orphans'
  BY <1>0, <1>1 DEF TreeTypeOK
<1> QED
  BY <1>0, <1>1, <1>3, <1>4, <1>5, StoredInv

LEMMA CreateReplyInv ==
    ASSUME TreeInv, NEW w \in Writers, NEW p \in PostIds, CreateReply(w, p)
    PROVE  TreeInv'
<1> DEFINE of    == writer[w].of
           later == writer[w].gone \union {b \in stored : <<of, b>> \in orphans}
<1>0. /\ TreeTypeOK /\ IsTree(stored, parent) /\ writer \in [Writers -> WriterStates(stored)]
  BY TreeShape DEF TreeInv
<1>1. /\ writer[w].op = "reply" /\ p \in PostIds \ stored
      /\ stored' = stored \union {p} /\ live' = live \union {p}
      /\ parent' = [parent EXCEPT ![p] = of]
      /\ orphans' = orphans \union {<<p, a>> : a \in later}
      /\ writer' = [writer EXCEPT ![w] = Waiting]
      /\ UNCHANGED <<marks, lateMarks>>
  BY DEF CreateReply, Leaves
<1>2. writer[w] \in WriterStates(stored) /\ WriterRight(writer[w], parent, stored, live, orphans)
  BY <1>0 DEF TreeInv
<1>3. /\ of \in stored
      /\ of \in live \/ of \in writer[w].gone
      /\ \A a \in AboveOf(parent, of) \ live : a \in writer[w].gone \/ <<of, a>> \in orphans
      /\ writer[w].gone \subseteq stored
  BY <1>1, <1>2 DEF WriterRight, WriterStates
<1>4. later \subseteq stored
  BY <1>3
<1>5. AboveOf(parent', p) \subseteq {of} \union AboveOf(parent, of)
  <2> HIDE DEF of
  <2> QED
    BY <1>0, <1>1, <1>3, AboveNew
<1>6. AboveOf(parent, of) \subseteq stored
  BY <1>0, <1>3, AboveWithin
<1>7. \A a \in AboveOf(parent', p) \ live : a \in later
  BY <1>3, <1>5, <1>6
<1>8. writer' \in [Writers -> WriterStates(stored)] /\ \A v \in Writers : writer'[v] \in {writer[v], Waiting}
  BY <1>0, <1>1, WaitingIs
<1> HIDE DEF of, later
<1>9. \A a \in AboveOf(parent', p) \ live : <<p, a>> \in orphans'
  BY <1>1, <1>7
<1>10. orphans' \subseteq stored' \X stored' /\ orphans \subseteq orphans'
  <2>1. orphans \subseteq stored \X stored
    BY <1>0 DEF TreeTypeOK
  <2> QED
    BY <1>1, <1>4, <2>1
<1> QED
  BY <1>1, <1>3, <1>8, <1>9, <1>10, StoredInv

LEMMA LoadPostInv ==
    ASSUME TreeInv, NEW w \in Writers, LoadPost(w)
    PROVE  TreeInv'
<1>0. TreeTypeOK /\ live \subseteq stored
  BY TreeShape DEF TreeInv
<1>1. PICK p \in live, u \in Members, op \in {"reply", "mark", "unmark"} :
        writer' = [writer EXCEPT ![w] = [Waiting EXCEPT !.op = op, !.user = u, !.of = p]]
  BY DEF LoadPost
<1> DEFINE q == [Waiting EXCEPT !.op = op, !.user = u, !.of = p]
<1>2. UNCHANGED <<parent, stored, live, marks, orphans, lateMarks>>
  BY DEF LoadPost
<1>3. q \in WriterStates(stored) /\ q.user = u /\ q.of = p /\ q.op = op
  BY <1>0 DEF Waiting, WriterStates
<1>4. writer' = [writer EXCEPT ![w] = q]
  BY <1>1
<1> HIDE DEF q
<1>5. WriterRight(q, parent, stored, live, orphans)
  BY <1>0, <1>3 DEF WriterRight, TreeInv, TreesRight
<1>6. /\ marks' \in [Members \X PostIds -> {"none", "live", "deleted"}]
      /\ lateMarks' \subseteq Members \X stored /\ MarksRight(marks', live, lateMarks')
  BY <1>0, <1>2 DEF TreeTypeOK, TreeInv
<1> QED
  BY <1>2, <1>3, <1>4, <1>5, <1>6, WriterMoves

\* The requests that leave.
LEMMA MarkInv ==
    ASSUME TreeInv, NEW w \in Writers, CreateMark(w) \/ DeleteMark(w) \/ WriterLeaves(w)
    PROVE  TreeInv'
<1> DEFINE row == <<writer[w].user, writer[w].of>>
<1>0. TreeTypeOK /\ live \subseteq stored /\ stored \subseteq PostIds
  BY TreeShape DEF TreeInv
<1>1. /\ writer' = [writer EXCEPT ![w] = Waiting] /\ UNCHANGED <<parent, stored, live, orphans>>
  BY DEF CreateMark, DeleteMark, WriterLeaves, Leaves
<1>2. /\ Waiting \in WriterStates(stored) /\ WriterRight(Waiting, parent, stored, live, orphans)
  BY WaitingIs
<1>3. writer[w].op # "idle" => row \in Members \X stored /\ (row[2] \in live \/ row[2] \in writer[w].gone)
  BY DEF TreeInv, WriterRight
<1>4. /\ marks \in [Members \X PostIds -> {"none", "live", "deleted"}]
      /\ lateMarks \subseteq Members \X stored /\ MarksRight(marks, live, lateMarks)
  BY <1>0 DEF TreeTypeOK, TreeInv
<1>5. /\ marks' \in [Members \X PostIds -> {"none", "live", "deleted"}]
      /\ lateMarks' \subseteq Members \X stored /\ MarksRight(marks', live, lateMarks')
  <2>1. CASE CreateMark(w)
    <3>1. /\ writer[w].op = "mark"
          /\ marks' = [marks EXCEPT ![row] = IF @ = "none" THEN "live" ELSE @]
          /\ lateMarks' = IF marks[row] = "none" /\ row[2] \in writer[w].gone
                          THEN lateMarks \union {row} ELSE lateMarks
      BY <2>1 DEF CreateMark
    <3>2. row \in Members \X stored /\ row \in Members \X PostIds /\ (row[2] \in live \/ row[2] \in writer[w].gone)
      BY <1>0, <1>3, <3>1
    <3> HIDE DEF row
    <3>3. marks' \in [Members \X PostIds -> {"none", "live", "deleted"}]
      BY <1>4, <3>1, <3>2
    <3>4. lateMarks' \subseteq Members \X stored
      BY <1>4, <3>1, <3>2
    <3>5. \A r \in Members \X PostIds : r # row => marks'[r] = marks[r]
      BY <1>4, <3>1
    <3>6. marks'[row] = (IF marks[row] = "none" THEN "live" ELSE marks[row])
      BY <1>4, <3>1, <3>2
    <3>7. lateMarks \subseteq lateMarks'
      BY <3>1
    <3>8. ASSUME NEW r \in Members \X PostIds, marks'[r] = "live" PROVE r[2] \in live \/ r \in lateMarks'
      <4>1. CASE marks[r] = "live"
        BY <1>4, <3>7, <4>1 DEF MarksRight
      <4>2. CASE marks[r] # "live"
        <5>1. r = row
          BY <3>5, <3>8, <4>2
        <5>2. marks[row] = "none"
          BY <3>6, <3>8, <4>2, <5>1
        <5> QED
          BY <3>1, <3>2, <5>1, <5>2
      <4> QED
        BY <4>1, <4>2
    <3>9. MarksRight(marks', live, lateMarks')
      BY <3>8 DEF MarksRight
    <3> QED
      BY <3>3, <3>4, <3>9
  <2>2. CASE DeleteMark(w)
    <3>1. /\ writer[w].op = "unmark"
          /\ marks' = [marks EXCEPT ![row] = "none"] /\ lateMarks' = lateMarks \ {row}
      BY <2>2 DEF DeleteMark
    <3> HIDE DEF row
    <3> QED
      BY <1>4, <3>1 DEF MarksRight
  <2>3. CASE WriterLeaves(w)
    BY <1>4, <2>3 DEF WriterLeaves
  <2> QED
    BY <2>1, <2>2, <2>3
<1> QED
  BY <1>1, <1>2, <1>5, WriterMoves

LEMMA DeletePostTreeInv ==
    ASSUME TreeInv, NEW r \in PostIds, DeletePostTree(r)
    PROVE  TreeInv'
<1> DEFINE tree == PostTreeOf(r)
<1>0. /\ TreeTypeOK /\ IsTree(stored, parent) /\ live \subseteq stored /\ stored \subseteq PostIds
      /\ writer \in [Writers -> WriterStates(stored)]
  BY TreeShape DEF TreeInv
<1>1. /\ r \in live /\ live' = live \ tree
      /\ marks' = [row \in DOMAIN marks |->
                     IF row[2] \in tree /\ marks[row] = "live" THEN "deleted" ELSE marks[row]]
      /\ lateMarks' = {row \in lateMarks : row[2] \notin tree}
      /\ writer' = [w \in Writers |->
                      IF writer[w].of \in tree
                      THEN [writer[w] EXCEPT !.gone = @ \union (tree \intersect live)]
                      ELSE writer[w]]
      /\ UNCHANGED <<parent, stored, orphans>>
  BY DEF DeletePostTree
<1>2. tree \subseteq stored
  BY <1>0, <1>1, PostTreeIs
<1>3. \A p \in stored : \A a \in AboveOf(parent, p) : a \in tree => p \in tree
  BY <1>0, <1>1, BelowInTree
<1> HIDE DEF tree
<1>4. \A p \in stored : AboveOf(parent, p) \subseteq stored
  BY <1>0, AboveWithin
<1>5. TreesRight(parent, live', orphans)
  <2>1. ASSUME NEW p \in live', NEW a \in AboveOf(parent, p) \ live' PROVE <<p, a>> \in orphans
    <3>1. p \in live /\ p \notin tree /\ p \in stored
      BY <1>0, <1>1
    <3>2. a \notin tree
      BY <1>3, <3>1
    <3>3. a \notin live
      BY <1>1, <2>1, <3>2
    <3> QED
      BY <3>1, <3>3 DEF TreeInv, TreesRight
  <2> QED
    BY <2>1 DEF TreesRight
<1>6. marks' \in [Members \X PostIds -> {"none", "live", "deleted"}] /\ MarksRight(marks', live', lateMarks')
  <2>1. marks \in [Members \X PostIds -> {"none", "live", "deleted"}] /\ MarksRight(marks, live, lateMarks)
    BY <1>0 DEF TreeTypeOK, TreeInv
  <2>2. marks' \in [Members \X PostIds -> {"none", "live", "deleted"}]
    BY <1>1, <2>1
  <2>3. ASSUME NEW row \in Members \X PostIds, marks'[row] = "live" PROVE row[2] \in live' \/ row \in lateMarks'
    <3>1. row[2] \notin tree /\ marks[row] = "live"
      BY <1>1, <2>1, <2>3
    <3>2. row[2] \in live \/ row \in lateMarks
      BY <2>1, <3>1 DEF MarksRight
    <3> QED
      BY <1>1, <3>1, <3>2
  <2> QED
    BY <2>2, <2>3 DEF MarksRight
<1>7. ASSUME NEW w \in Writers
      PROVE  writer'[w] \in WriterStates(stored) /\ WriterRight(writer'[w], parent, stored, live', orphans)
  <2>1. writer[w] \in WriterStates(stored) /\ WriterRight(writer[w], parent, stored, live, orphans)
    BY <1>0 DEF TreeInv
  <2>2. CASE writer[w].of \in tree
    <3> DEFINE q == [writer[w] EXCEPT !.gone = @ \union (tree \intersect live)]
    <3>1. writer'[w] = q
      BY <1>1, <2>2
    <3>2. /\ q \in WriterStates(stored) /\ q.op = writer[w].op /\ q.user = writer[w].user
          /\ q.of = writer[w].of /\ q.gone = writer[w].gone \union (tree \intersect live)
      BY <1>2, <2>1 DEF WriterStates
    <3> HIDE DEF q
    <3>3. WriterRight(q, parent, stored, live', orphans)
      BY <1>1, <2>1, <3>2 DEF WriterRight
    <3> QED
      BY <3>1, <3>2, <3>3
  <2>3. CASE writer[w].of \notin tree
    <3>1. writer'[w] = writer[w]
      BY <1>1, <2>3
    <3>2. WriterRight(writer[w], parent, stored, live', orphans)
      <4> SUFFICES ASSUME writer[w].op # "idle" PROVE WriterRight(writer[w], parent, stored, live', orphans)
        BY DEF WriterRight
      <4>1. /\ writer[w].user \in Members /\ writer[w].of \in stored
            /\ writer[w].of \in live \/ writer[w].of \in writer[w].gone
            /\ \A a \in AboveOf(parent, writer[w].of) \ live :
                  a \in writer[w].gone \/ <<writer[w].of, a>> \in orphans
        BY <2>1 DEF WriterRight
      <4>2. \A a \in AboveOf(parent, writer[w].of) : a \notin tree
        BY <1>3, <2>3, <4>1
      <4>3. writer[w].of \in live' \/ writer[w].of \in writer[w].gone
        BY <1>1, <2>3, <4>1
      <4>4. \A a \in AboveOf(parent, writer[w].of) \ live' :
              a \in writer[w].gone \/ <<writer[w].of, a>> \in orphans
        BY <1>1, <4>1, <4>2
      <4> QED
        BY <4>1, <4>3, <4>4 DEF WriterRight
    <3> QED
      BY <2>1, <3>1, <3>2
  <2> QED
    BY <2>2, <2>3
<1>8. writer' \in [Writers -> WriterStates(stored)]
  <2>1. writer' = [w \in Writers |-> writer'[w]]
    BY <1>1
  <2> QED
    BY <1>7, <2>1
<1>9. TreeTypeOK'
  <2>1. lateMarks' \subseteq Members \X stored /\ live' \subseteq stored
    BY <1>0, <1>1 DEF TreeTypeOK
  <2> QED
    BY <1>0, <1>1, <1>6, <1>8, <2>1 DEF TreeTypeOK, WriterStates
<1> QED
  BY <1>1, <1>5, <1>6, <1>7, <1>9 DEF TreeInv

LEMMA TreeInvStep ==
    ASSUME TreeInv, [TreeNext]_treeVars
    PROVE  TreeInv'
<1>1. ASSUME NEW p \in PostIds, CreatePost(p) PROVE TreeInv'
  BY <1>1, CreatePostInv
<1>2. ASSUME NEW p \in PostIds, DeletePostTree(p) PROVE TreeInv'
  BY <1>2, DeletePostTreeInv
<1>3. ASSUME NEW w \in Writers, LoadPost(w) PROVE TreeInv'
  BY <1>3, LoadPostInv
<1>4. ASSUME NEW w \in Writers, CreateMark(w) \/ DeleteMark(w) \/ WriterLeaves(w) PROVE TreeInv'
  BY <1>4, MarkInv
<1>5. ASSUME NEW w \in Writers, NEW p \in PostIds, CreateReply(w, p) PROVE TreeInv'
  BY <1>5, CreateReplyInv
<1>6. CASE UNCHANGED treeVars
  BY <1>6 DEF treeVars, TreeInv, TreeTypeOK
<1> QED
  BY <1>1, <1>2, <1>3, <1>4, <1>5, <1>6 DEF TreeNext

LEMMA TreeInvGives ==
    ASSUME TreeInv
    PROVE  TreeTypeOK /\ DeletedWithTheTree
<1>1. TreeTypeOK /\ live \subseteq PostIds
  BY TreeShape DEF TreeInv
<1>2. \A p \in live : \A a \in Above(p) \ live : <<p, a>> \in orphans
  BY <1>1, AboveIs DEF TreeInv, TreesRight, AboveOf
<1>3. \A row \in Members \X PostIds : marks[row] = "live" => row[2] \in live \/ row \in lateMarks
  BY DEF TreeInv, MarksRight
<1> QED
  BY <1>1, <1>2, <1>3 DEF DeletedWithTheTree

\* The posts, what hangs from them, and the requests that write keep their types.
THEOREM TreeTypeCorrect == TreeSpec => []TreeTypeOK
<1>1. TreeInit => TreeInv
  BY TreeInvInit
<1>2. TreeInv /\ [TreeNext]_treeVars => TreeInv'
  BY TreeInvStep
<1>3. TreeInv => TreeTypeOK
  BY TreeInvGives
<1> QED
  BY <1>1, <1>2, <1>3, PTL DEF TreeSpec

\* DeletedWithTheTree: a post outlives one it hangs from, at any height, and a mark its post, only
\* if the request that wrote it had looked before that deletion, or replied to such a post.
THEOREM TreesGoTogether == TreeSpec => []DeletedWithTheTree
<1>1. TreeInit => TreeInv
  BY TreeInvInit
<1>2. TreeInv /\ [TreeNext]_treeVars => TreeInv'
  BY TreeInvStep
<1>3. TreeInv => DeletedWithTheTree
  BY TreeInvGives
<1> QED
  BY <1>1, <1>2, <1>3, PTL DEF TreeSpec
-----------------------------------------------------------------------------
(* Posts: what the lists show                                                 *)

\* Nobody is a friend of themself, or blocked by themself.
LEMMA NotOneself ==
    ASSUME AudienceTypeOK, NEW u
    PROVE  {u, u} \notin friends /\ {u, u} \notin blocks
<1>1. {u, u} = {u} /\ Cardinality({u}) = 1
  BY FS_Singleton
<1>2. {u, u} \notin Pairs
  BY <1>1 DEF Pairs
<1> QED
  BY <1>2 DEF AudienceTypeOK

\* A list in Redis is what its loader would read, or it is gone before its key has been calm for as
\* long as a list lives.
ListKept(k) ==
    /\ listEntry[k].left <= Ttl(k)
    /\ \/ listEntry[k].left = 0
       \/ listEntry[k].ids = Loaded(k)
       \/ calm[k] + listEntry[k].left <= Ttl(k)

ListsInv == ListsTypeOK /\ \A k \in ListKeys : ListKept(k)

LEMMA TtlIs ==
    ASSUME NEW k \in ListKeys
    PROVE  Ttl(k) \in Nat /\ Ttl(k) > 0
<1>1. k.kind \in {"friends", "blocks", "posts"}
  BY DEF ListKeys, FriendsKey, BlocksKey
<1>2. /\ FriendsGraph \in Nat \ {0} /\ BlockedUserIds \in Nat \ {0}
      /\ BlockedInteractionPostIds \in Nat \ {0}
  BY ListsAssumption
<1> QED
  BY <1>1, <1>2 DEF Ttl

\* The rows that a list is loaded from are about users, and the one post.
LEMMA LoadedIs ==
    ASSUME NEW k \in ListKeys
    PROVE  Loaded(k) \in Lists
<1>1. k.kind \in {"friends", "blocks", "posts"}
  BY DEF ListKeys, FriendsKey, BlocksKey
<1>2. FriendIds(k.user) \subseteq Users /\ BlockedIds(k.user) \subseteq Users
  BY DEF FriendIds, BlockedIds
<1>3. FoundPostIds(k.user, k.authors) \subseteq {ThisPost}
  BY DEF FoundPostIds
<1> QED
  BY <1>1, <1>2, <1>3 DEF Loaded, Lists

LEMMA NoListIs == NoList \in [ids : Lists, left : Nat] /\ NoList.left = 0
BY DEF NoList, Lists

LEMMA NoLoadIs == NoLoad \in [key : ListKeys \union {Guest}, ids : Lists]
BY DEF NoLoad, Lists

LEMMA ListsInvInit ==
    ASSUME ListsInit
    PROVE  ListsInv
<1>1. AudienceTypeOK
  BY DEF ListsInit, AudienceInit, AudienceTypeOK
<1>2. listEntry \in [ListKeys -> [ids : Lists, left : Nat]] /\ \A k \in ListKeys : listEntry[k].left = 0
  BY NoListIs DEF ListsInit
<1>3. listReader \in [ListReaders -> [key : ListKeys \union {Guest}, ids : Lists]]
  BY NoLoadIs DEF ListsInit
<1>4. calm \in [ListKeys -> Nat]
  BY TtlIs DEF ListsInit
<1> QED
  BY <1>1, <1>2, <1>3, <1>4 DEF ListsInit, ListsInv, ListsTypeOK, ListKept

\* A step that leaves the tables, and with them what a loader would read.
LEMMA SameTables ==
    ASSUME UNCHANGED <<audienceVars, database>>, NEW k
    PROVE  Loaded(k)' = Loaded(k)
<1>1. UNCHANGED <<post, friends, blocks, marked, commented, database>>
  BY DEF audienceVars
<1>2. \A u : FriendIds(u)' = FriendIds(u) /\ BlockedIds(u)' = BlockedIds(u)
  BY <1>1 DEF FriendIds, BlockedIds
<1>3. \A u, authors : FoundPostIds(u, authors)' = FoundPostIds(u, authors)
  BY <1>1 DEF FoundPostIds, PostgresFindPostIdsWhereUserInteractedWithAuthors,
              MongoFindPostIdsWhereUserInteractedWithAuthors
<1> QED
  BY <1>2, <1>3 DEF Loaded

LEMMA SameTypes ==
    ASSUME ListsInv, UNCHANGED <<audienceVars, database>>,
           listEntry' \in [ListKeys -> [ids : Lists, left : Nat]],
           listReader' \in [ListReaders -> [key : ListKeys \union {Guest}, ids : Lists]],
           calm' \in [ListKeys -> Nat]
    PROVE  ListsTypeOK'
BY DEF ListsInv, ListsTypeOK, AudienceTypeOK, audienceVars

LEMMA BeginsLoadInv ==
    ASSUME ListsInv, NEW r \in ListReaders, NEW k \in ListKeys, BeginsLoad(r, k)
    PROVE  ListsInv'
<1>1. /\ listReader' = [listReader EXCEPT ![r] = [key |-> k, ids |-> Loaded(k)]]
      /\ UNCHANGED <<audienceVars, database>> /\ UNCHANGED <<listEntry, calm>>
  BY DEF BeginsLoad
<1>2. [key |-> k, ids |-> Loaded(k)] \in [key : ListKeys \union {Guest}, ids : Lists]
  BY LoadedIs
<1>3. listReader' \in [ListReaders -> [key : ListKeys \union {Guest}, ids : Lists]]
  BY <1>1, <1>2 DEF ListsInv, ListsTypeOK
<1>4. ListsTypeOK'
  BY <1>1, <1>3, SameTypes DEF ListsInv, ListsTypeOK
<1>5. \A l \in ListKeys : ListKept(l)'
  BY <1>1, SameTables DEF ListsInv, ListKept, Ttl
<1> QED
  BY <1>4, <1>5 DEF ListsInv

LEMMA StoreListInv ==
    ASSUME ListsInv, NEW r \in ListReaders, StoreList(r)
    PROVE  ListsInv'
<1> DEFINE k   == listReader[r].key
           ids == listReader[r].ids
           new == [ids |-> ids, left |-> Ttl(k)]
<1>0. /\ listEntry \in [ListKeys -> [ids : Lists, left : Nat]]
      /\ listReader \in [ListReaders -> [key : ListKeys \union {Guest}, ids : Lists]]
      /\ calm \in [ListKeys -> Nat]
  BY DEF ListsInv, ListsTypeOK
<1>1. /\ k \in ListKeys
      /\ listEntry' = [listEntry EXCEPT ![k] = new]
      /\ listReader' = [listReader EXCEPT ![r] = NoLoad]
      /\ calm' = IF ids = Loaded(k) THEN calm ELSE [calm EXCEPT ![k] = 0]
      /\ UNCHANGED <<audienceVars, database>>
  BY DEF StoreList
<1>2. ids \in Lists /\ Ttl(k) \in Nat
  BY <1>0, <1>1, TtlIs
<1>3. new \in [ids : Lists, left : Nat] /\ new.ids = ids /\ new.left = Ttl(k)
  BY <1>2
<1> HIDE DEF k, ids, new
<1>4. /\ listEntry' \in [ListKeys -> [ids : Lists, left : Nat]]
      /\ listReader' \in [ListReaders -> [key : ListKeys \union {Guest}, ids : Lists]]
      /\ calm' \in [ListKeys -> Nat]
  BY <1>0, <1>1, <1>3, NoLoadIs
<1>5. ListsTypeOK'
  BY <1>1, <1>4, SameTypes
<1>6. ASSUME NEW l \in ListKeys PROVE ListKept(l)'
  <2>1. Loaded(l)' = Loaded(l) /\ Ttl(l)' = Ttl(l)
    BY <1>1, SameTables DEF Ttl
  <2>2. CASE l # k
    <3>1. listEntry'[l] = listEntry[l] /\ calm'[l] = calm[l]
      BY <1>0, <1>1, <2>2
    <3> QED
      BY <2>1, <3>1 DEF ListsInv, ListKept
  <2>3. CASE l = k
    <3>1. listEntry'[l] = new
      BY <1>0, <1>1, <2>3
    <3>2. CASE ids = Loaded(k)
      BY <1>3, <2>1, <2>3, <3>1, <3>2 DEF ListKept
    <3>3. CASE ids # Loaded(k)
      <4>1. calm'[l] = 0
        BY <1>0, <1>1, <2>3, <3>3
      <4>2. calm'[l] + listEntry'[l].left <= Ttl(l) /\ listEntry'[l].left <= Ttl(l)
        BY <1>2, <1>3, <2>3, <3>1, <4>1
      <4> QED
        BY <2>1, <4>2 DEF ListKept
    <3> QED
      BY <3>2, <3>3
  <2> QED
    BY <2>2, <2>3
<1> QED
  BY <1>5, <1>6 DEF ListsInv

LEMMA LoadFailsInv ==
    ASSUME ListsInv, NEW r \in ListReaders, LoadFails(r)
    PROVE  ListsInv'
<1>1. /\ listReader' = [listReader EXCEPT ![r] = NoLoad]
      /\ UNCHANGED <<audienceVars, database>> /\ UNCHANGED <<listEntry, calm>>
  BY DEF LoadFails
<1>2. listReader' \in [ListReaders -> [key : ListKeys \union {Guest}, ids : Lists]]
  BY <1>1, NoLoadIs DEF ListsInv, ListsTypeOK
<1>3. ListsTypeOK'
  BY <1>1, <1>2, SameTypes DEF ListsInv, ListsTypeOK
<1>4. \A l \in ListKeys : ListKept(l)'
  BY <1>1, SameTables DEF ListsInv, ListKept, Ttl
<1> QED
  BY <1>3, <1>4 DEF ListsInv

LEMMA ListGoesInv ==
    ASSUME ListsInv, NEW k \in ListKeys, ListGoes(k)
    PROVE  ListsInv'
<1>0. listEntry \in [ListKeys -> [ids : Lists, left : Nat]]
  BY DEF ListsInv, ListsTypeOK
<1>1. /\ listEntry' = [listEntry EXCEPT ![k] = NoList]
      /\ UNCHANGED <<audienceVars, database>> /\ UNCHANGED <<listReader, calm>>
  BY DEF ListGoes
<1>2. listEntry' \in [ListKeys -> [ids : Lists, left : Nat]]
  BY <1>0, <1>1, NoListIs
<1>3. ListsTypeOK'
  BY <1>1, <1>2, SameTypes DEF ListsInv, ListsTypeOK
<1>4. \A l \in ListKeys : listEntry'[l] = IF l = k THEN NoList ELSE listEntry[l]
  BY <1>0, <1>1
<1>5. \A l \in ListKeys : ListKept(l)'
  <2> SUFFICES ASSUME NEW l \in ListKeys PROVE ListKept(l)'
    OBVIOUS
  <2>1. Loaded(l)' = Loaded(l) /\ Ttl(l)' = Ttl(l) /\ Ttl(l) \in Nat /\ ListKept(l)
    BY <1>1, SameTables, TtlIs DEF ListsInv, Ttl
  <2>2. NoList.left <= Ttl(l)
    BY <2>1, NoListIs
  <2> QED
    BY <1>1, <1>4, <2>1, <2>2, NoListIs DEF ListKept
<1> QED
  BY <1>3, <1>5 DEF ListsInv

LEMMA ListsTickInv ==
    ASSUME ListsInv, ListsTick
    PROVE  ListsInv'
<1>0. listEntry \in [ListKeys -> [ids : Lists, left : Nat]] /\ calm \in [ListKeys -> Nat]
  BY DEF ListsInv, ListsTypeOK
<1>1. /\ listEntry' = [k \in ListKeys |-> IF listEntry[k].left > 1
                                          THEN [listEntry[k] EXCEPT !.left = @ - 1] ELSE NoList]
      /\ calm' = [k \in ListKeys |-> IF calm[k] < Ttl(k) THEN calm[k] + 1 ELSE Ttl(k)]
      /\ UNCHANGED <<audienceVars, database>> /\ UNCHANGED listReader
  BY DEF ListsTick
<1>2. ASSUME NEW k \in ListKeys
      PROVE  listEntry'[k] \in [ids : Lists, left : Nat] /\ calm'[k] \in Nat /\ ListKept(k)'
  <2>1. Ttl(k) \in Nat /\ calm[k] \in Nat /\ listEntry[k].left \in Nat /\ ListKept(k)
    BY <1>0, TtlIs DEF ListsInv
  <2>2. Loaded(k)' = Loaded(k) /\ Ttl(k)' = Ttl(k)
    BY <1>1, SameTables DEF Ttl
  <2>3. calm'[k] = IF calm[k] < Ttl(k) THEN calm[k] + 1 ELSE Ttl(k)
    BY <1>1
  <2>4. calm'[k] \in Nat
    BY <2>1, <2>3
  <2>5. CASE ~ (listEntry[k].left > 1)
    <3>1. listEntry'[k] = NoList
      BY <1>1, <2>5
    <3> QED
      BY <2>1, <2>2, <2>4, <3>1, NoListIs DEF ListKept
  <2>6. CASE listEntry[k].left > 1
    <3> DEFINE new == [listEntry[k] EXCEPT !.left = @ - 1]
    <3>1. listEntry'[k] = new
      BY <1>1, <2>6
    <3>2. /\ new \in [ids : Lists, left : Nat]
          /\ new.ids = listEntry[k].ids /\ new.left = listEntry[k].left - 1
      BY <1>0, <2>1, <2>6
    <3> HIDE DEF new
    <3>3. listEntry'[k].left <= Ttl(k)
      BY <2>1, <3>1, <3>2 DEF ListKept
    <3>4. CASE listEntry[k].ids = Loaded(k)
      BY <2>2, <2>4, <3>1, <3>2, <3>3, <3>4 DEF ListKept
    <3>5. CASE listEntry[k].ids # Loaded(k)
      <4>1. calm[k] + listEntry[k].left <= Ttl(k)
        BY <2>1, <2>6, <3>5 DEF ListKept
      <4>2. calm'[k] + listEntry'[k].left <= Ttl(k)
        BY <2>1, <2>3, <2>6, <3>1, <3>2, <4>1
      <4> QED
        BY <2>2, <2>4, <3>1, <3>2, <3>3, <4>2 DEF ListKept
    <3> QED
      BY <3>4, <3>5
  <2> QED
    BY <2>5, <2>6
<1>3. listEntry' \in [ListKeys -> [ids : Lists, left : Nat]] /\ calm' \in [ListKeys -> Nat]
  <2>1. /\ listEntry' = [k \in ListKeys |-> listEntry'[k]]
        /\ calm' = [k \in ListKeys |-> calm'[k]]
    BY <1>1
  <2> QED
    BY <1>2, <2>1
<1>4. ListsTypeOK'
  BY <1>1, <1>3, SameTypes DEF ListsInv, ListsTypeOK
<1> QED
  BY <1>2, <1>4 DEF ListsInv

\* What requests do to the tables.
LEMMA TablesTyped ==
    ASSUME AudienceTypeOK, SaveSettings \/ RelateUsers \/ RemoveComment \/ Interact
    PROVE  AudienceTypeOK'
<1>1. CASE SaveSettings
  <2>1. post' \in Posts /\ UNCHANGED <<friends, blocks, marked, commented>>
    BY <1>1 DEF SaveSettings
  <2> QED
    BY <2>1 DEF AudienceTypeOK
<1>2. CASE RelateUsers
  <2>1. /\ friends' \subseteq friends \union Pairs /\ blocks' \subseteq blocks \union Pairs
        /\ UNCHANGED <<post, marked, commented>>
    BY <1>2 DEF RelateUsers
  <2> QED
    BY <2>1 DEF AudienceTypeOK
<1>3. CASE RemoveComment
  <2>1. commented' \subseteq commented /\ UNCHANGED <<post, friends, blocks, marked>>
    BY <1>3 DEF RemoveComment
  <2> QED
    BY <2>1 DEF AudienceTypeOK
<1>4. CASE Interact
  <2>1. /\ marked' \subseteq marked \union (Tables \X Users) /\ commented' \subseteq commented \union Users
        /\ UNCHANGED <<post, friends, blocks>>
    BY <1>4 DEF Interact
  <2> QED
    BY <2>1 DEF AudienceTypeOK
<1> QED
  BY <1>1, <1>2, <1>3, <1>4

LEMMA ChangeTablesInv ==
    ASSUME ListsInv, ChangeTables
    PROVE  ListsInv'
<1>1. /\ UNCHANGED <<database, listEntry, listReader>>
      /\ calm' = [k \in ListKeys |-> IF Loaded(k)' = Loaded(k) THEN calm[k] ELSE 0]
  BY DEF ChangeTables
<1>2. AudienceTypeOK'
  BY TablesTyped DEF ChangeTables, ListsInv, ListsTypeOK
<1>3. calm \in [ListKeys -> Nat] /\ listEntry \in [ListKeys -> [ids : Lists, left : Nat]]
  BY DEF ListsInv, ListsTypeOK
<1>4. \A k \in ListKeys : calm'[k] = IF Loaded(k)' = Loaded(k) THEN calm[k] ELSE 0
  BY <1>1
<1>5. calm' \in [ListKeys -> Nat]
  BY <1>1, <1>3
<1>6. ListsTypeOK'
  BY <1>1, <1>2, <1>5 DEF ListsInv, ListsTypeOK
<1>7. ASSUME NEW k \in ListKeys PROVE ListKept(k)'
  <2>1. ListKept(k) /\ Ttl(k) \in Nat /\ Ttl(k)' = Ttl(k) /\ listEntry'[k] = listEntry[k]
    BY <1>1, TtlIs DEF ListsInv, Ttl
  <2>2. CASE Loaded(k)' = Loaded(k)
    BY <1>4, <2>1, <2>2 DEF ListKept
  <2>3. CASE Loaded(k)' # Loaded(k)
    <3>1. calm'[k] = 0
      BY <1>4, <2>3
    <3> QED
      BY <1>3, <2>1, <3>1 DEF ListKept
  <2> QED
    BY <2>2, <2>3
<1> QED
  BY <1>6, <1>7 DEF ListsInv

LEMMA ListsInvStep ==
    ASSUME ListsInv, [ListsNext]_listsVars
    PROVE  ListsInv'
<1>1. CASE UNCHANGED listsVars
  <2>1. UNCHANGED <<audienceVars, database>> /\ UNCHANGED <<listEntry, listReader, calm>>
    BY <1>1 DEF listsVars
  <2>2. ListsTypeOK'
    BY <2>1, SameTypes DEF ListsInv, ListsTypeOK
  <2>3. \A l \in ListKeys : ListKept(l)'
    BY <2>1, SameTables DEF ListsInv, ListKept, Ttl
  <2> QED
    BY <2>2, <2>3 DEF ListsInv
<1>2. ASSUME NEW r \in ListReaders, LoadList(r) \/ WarmFriendGraph(r)
      PROVE  ListsInv'
  <2>1. \A u \in Users : FriendsKey(u) \in ListKeys
    BY DEF ListKeys
  <2> QED
    BY <1>2, <2>1, BeginsLoadInv DEF LoadList, WarmFriendGraph
<1> QED
  BY <1>1, <1>2, StoreListInv, LoadFailsInv, ListGoesInv, ListsTickInv, ChangeTablesInv
     DEF ListsNext

\* Once the lists of a user are settled, a read returns what its loader would read.
LEMMA SettledIs ==
    ASSUME ListsInv, NEW u, Settled(u), NEW k \in ListKeys, k.user = u
    PROVE  ReadList(k) = Loaded(k)
<1>1. calm[k] = Ttl(k) /\ ListKept(k) /\ Ttl(k) \in Nat
  BY TtlIs DEF Settled, ListsInv
<1>2. listEntry[k].left \in Nat
  BY DEF ListsInv, ListsTypeOK
<1> QED
  BY <1>1, <1>2 DEF ReadList, Held, ListKept

\* The lists that the use cases hand to the queries, asked for the author.
LEMMA AskedForAuthor ==
    ASSUME ListsInv, NEW u \in Users, Settled(u)
    PROVE  /\ Author \in GetBlockedIds(u) \ {u} <=> IsBlockedEitherWay(u)
           /\ Author \in FindFriendUserIds(u) \ {u} <=> IsFriendOf(u)
           /\ Author \in FindFriendUserIds(u) <=> IsFriendOf(u)
           /\ GetBlockedPostIds(u) <=> IsBlockedEitherWay(u) /\ IsUserInteractedWithPost(u)
<1>0. AudienceTypeOK /\ Author \in Users
  BY AudienceAssumption DEF ListsInv, ListsTypeOK
<1>1. FindFriendUserIds(u) = FriendIds(u)
  <2>1. /\ FriendsKey(u) \in ListKeys /\ FriendsKey(u).user = u /\ FriendsKey(u).kind = "friends"
    BY DEF ListKeys, FriendsKey
  <2> QED
    BY <2>1, SettledIs DEF FindFriendUserIds, Loaded
<1>2. GetBlockedIds(u) = BlockedIds(u)
  <2>1. /\ BlocksKey(u) \in ListKeys /\ BlocksKey(u).user = u /\ BlocksKey(u).kind = "blocks"
    BY DEF ListKeys, BlocksKey
  <2> QED
    BY <2>1, SettledIs DEF GetBlockedIds, Loaded
<1>3. /\ Author \in BlockedIds(u) <=> IsBlockedEitherWay(u)
      /\ Author \in FriendIds(u) <=> IsFriendOf(u)
  BY <1>0 DEF BlockedIds, FriendIds, IsBlockedEitherWay, IsFriendOf
<1>4. u = Author => ~ IsFriendOf(u) /\ ~ IsBlockedEitherWay(u)
  BY <1>0, NotOneself DEF IsFriendOf, IsBlockedEitherWay
<1> DEFINE authors == GetBlockedIds(u) \ {u}
<1>5. Author \in authors <=> IsBlockedEitherWay(u)
  BY <1>2, <1>3, <1>4
<1>6. ASSUME authors # {}
      PROVE  ThisPost \in ReadList(PostsKey(u, authors)) <=>
                Author \in authors /\ IsUserInteractedWithPost(u)
  <2>1. authors \subseteq Users /\ u \notin authors
    BY <1>2 DEF BlockedIds
  <2> HIDE DEF authors
  <2> DEFINE k == PostsKey(u, authors)
  <2>2. /\ k \in ListKeys /\ k.user = u /\ k.kind = "posts" /\ k.authors = authors
    BY <1>6, <2>1 DEF ListKeys, PostsKey
  <2> HIDE DEF k
  <2>3. ReadList(k) = FoundPostIds(u, authors)
    BY <2>2, SettledIs DEF Loaded
  <2>4. /\ PostgresFindPostIdsWhereUserInteractedWithAuthors(u, authors) <=>
              Author \in authors /\ IsUserInteractedWithPost(u)
        /\ MongoFindPostIdsWhereUserInteractedWithAuthors(u, authors) <=>
              Author \in authors /\ IsUserInteractedWithPost(u)
    BY DEF PostgresFindPostIdsWhereUserInteractedWithAuthors,
           MongoFindPostIdsWhereUserInteractedWithAuthors, IsUserInteractedWithPost
  <2>5. ThisPost \in FoundPostIds(u, authors) <=> Author \in authors /\ IsUserInteractedWithPost(u)
    BY <2>4 DEF FoundPostIds
  <2> QED
    BY <2>3, <2>5 DEF k
<1>7. GetBlockedPostIds(u) <=> authors # {} /\ ThisPost \in ReadList(PostsKey(u, authors))
  BY DEF GetBlockedPostIds
<1>8. GetBlockedPostIds(u) <=> Author \in authors /\ IsUserInteractedWithPost(u)
  <2>1. Author \in authors => authors # {}
    OBVIOUS
  <2> HIDE DEF authors
  <2> QED
    BY <1>6, <1>7, <2>1
<1> HIDE DEF authors
<1> QED
  BY <1>1, <1>3, <1>4, <1>5, <1>8 DEF authors

\* What the rule says of the author and of the marks.
LEMMA RuleOfUser ==
    ASSUME AudienceTypeOK, NEW u \in Users
    PROVE  /\ IsBlocked(u) <=> IsBlockedEitherWay(u)
           /\ u = Author => ~ IsFriendOf(u) /\ ~ IsBlockedEitherWay(u) /\ u \notin post.mentions
           /\ u # Guest /\ Author \in Users
           /\ \A t \in Tables : <<t, u>> \in marked => IsUserInteractedWithPost(u)
<1>1. Author \in Users /\ u # Guest
  BY AudienceAssumption
<1>2. u = Author => ~ IsFriendOf(u) /\ ~ IsBlockedEitherWay(u)
  BY NotOneself DEF IsFriendOf, IsBlockedEitherWay
<1>3. Author \notin post.mentions
  BY DEF AudienceTypeOK, Posts
<1>4. \A t \in Tables : <<t, u>> \in marked => IsUserInteractedWithPost(u)
  BY DEF IsUserInteractedWithPost
<1> QED
  BY <1>1, <1>2, <1>3, <1>4 DEF IsBlocked

\* What a user finds in the feed and in the search.
Finds(u) ==
    \/ IsBlockedEitherWay(u) /\ IsUserInteractedWithPost(u)
    \/ /\ CanOpen(u)
       /\ ~ (post.audience = "friends-only" /\ u \in post.mentions /\ u # Author /\ ~ IsFriendOf(u))

\* The conditions of either database, with the two sets as they are asked for the author.
LEMMA FindsIs ==
    ASSUME AudienceTypeOK, NEW u \in Users
    PROVE  /\ Finds(u) <=>
                 \/ post.audience = "public" /\ ~ IsBlockedEitherWay(u)
                 \/ Author = u
                 \/ post.audience = "friends-only" /\ IsFriendOf(u) /\ ~ IsBlockedEitherWay(u)
                 \/ IsBlockedEitherWay(u) /\ IsUserInteractedWithPost(u)
           /\ CanOpen(u) \/ (IsBlockedEitherWay(u) /\ IsUserInteractedWithPost(u)) <=>
                 \/ post.audience = "public" /\ ~ IsBlockedEitherWay(u)
                 \/ Author = u
                 \/ post.audience = "friends-only" /\ IsFriendOf(u) /\ ~ IsBlockedEitherWay(u)
                 \/ post.audience = "friends-only" /\ u \in post.mentions /\ ~ IsBlockedEitherWay(u)
                 \/ IsBlockedEitherWay(u) /\ IsUserInteractedWithPost(u)
<1>1. /\ IsBlocked(u) <=> IsBlockedEitherWay(u)
      /\ u = Author => ~ IsFriendOf(u) /\ ~ IsBlockedEitherWay(u) /\ u \notin post.mentions
      /\ u # Guest
  BY RuleOfUser
<1>2. CanOpen(u) <=>
        /\ \/ u = Author \/ post.audience = "public"
           \/ post.audience = "friends-only" /\ (u \in post.mentions \/ IsFriendOf(u))
        /\ IsBlockedEitherWay(u) => IsUserInteractedWithPost(u)
  BY <1>1 DEF CanOpen, InAudience
<1> QED
  BY <1>1, <1>2 DEF Finds

LEMMA FeedMatches ==
    ASSUME ListsInv, NEW u \in Users, Settled(u)
    PROVE  /\ GetNewFeeds(u, "for-you") <=> Finds(u) /\ post.type \in FeedTypes
           /\ GetNewFeeds(u, "following") <=>
                 Finds(u) /\ post.type \in FeedTypes /\ (IsFriendOf(u) \/ u = Author)
<1>0. AudienceTypeOK
  BY DEF ListsInv, ListsTypeOK
<1>1. /\ Author \in GetBlockedIds(u) \ {u} <=> IsBlockedEitherWay(u)
      /\ Author \in FindFriendUserIds(u) \ {u} <=> IsFriendOf(u)
      /\ GetBlockedPostIds(u) <=> IsBlockedEitherWay(u) /\ IsUserInteractedWithPost(u)
  BY <1>0, AskedForAuthor, RuleOfUser
<1>2. ASSUME NEW authors
      PROVE  /\ PostgresFindPosts(u, FindFriendUserIds(u), GetBlockedIds(u), GetBlockedPostIds(u), authors) <=>
                   Finds(u) /\ post.type \in FeedTypes /\ Author \in authors
             /\ MongoFindPosts(u, FindFriendUserIds(u), GetBlockedIds(u), GetBlockedPostIds(u), authors) <=>
                   Finds(u) /\ post.type \in FeedTypes /\ Author \in authors
  BY <1>1, <1>0, FindsIs DEF PostgresFindPosts, MongoFindPosts
<1>3. Author \in Users /\ (Author \in FindFriendUserIds(u) \union {u} <=> IsFriendOf(u) \/ u = Author)
  BY <1>0, AskedForAuthor, RuleOfUser
<1>4. GetNewFeeds(u, "for-you") <=> Finds(u) /\ post.type \in FeedTypes
  <2>1. "for-you" # "following"
    OBVIOUS
  <2> QED
    BY <1>2, <1>3, <2>1 DEF GetNewFeeds
<1>5. GetNewFeeds(u, "following") <=>
        Finds(u) /\ post.type \in FeedTypes /\ (IsFriendOf(u) \/ u = Author)
  BY <1>2, <1>3 DEF GetNewFeeds
<1> QED
  BY <1>4, <1>5

LEMMA SearchMatches ==
    ASSUME ListsInv, NEW u \in Users, Settled(u)
    PROVE  /\ SearchPosts(u, "everybody") <=> Finds(u)
           /\ SearchPosts(u, "friends") <=> Finds(u) /\ IsFriendOf(u)
           /\ SearchPosts(u, "not-friends") <=> Finds(u) /\ ~ IsFriendOf(u)
           /\ SearchPosts(u, "only-me") <=> u = Author
<1>0. AudienceTypeOK
  BY DEF ListsInv, ListsTypeOK
<1>1. /\ Author \in GetBlockedIds(u) \ {u} <=> IsBlockedEitherWay(u)
      /\ Author \in FindFriendUserIds(u) \ {u} <=> IsFriendOf(u)
      /\ Author \in FindFriendUserIds(u) <=> IsFriendOf(u)
      /\ GetBlockedPostIds(u) <=> IsBlockedEitherWay(u) /\ IsUserInteractedWithPost(u)
      /\ u # Guest
  BY <1>0, AskedForAuthor, RuleOfUser
<1>2. ASSUME NEW people \in People
      PROVE  SearchPosts(u, people) <=>
               /\ Finds(u)
               /\ people = "friends" => IsFriendOf(u)
               /\ people = "not-friends" => ~ IsFriendOf(u)
               /\ people = "only-me" => Author = u
  <2>1. PostgresFindPostsForSearch(u, people, FindFriendUserIds(u), GetBlockedIds(u), GetBlockedPostIds(u)) <=>
           /\ Finds(u)
           /\ people = "friends" => IsFriendOf(u)
           /\ people = "not-friends" => ~ IsFriendOf(u)
           /\ people = "only-me" => Author = u
    BY <1>1, <1>0, FindsIs DEF PostgresFindPostsForSearch
  <2>2. MongoFindPostsForSearch(u, people, FindFriendUserIds(u), GetBlockedIds(u), GetBlockedPostIds(u)) <=>
           /\ Finds(u)
           /\ people = "friends" => IsFriendOf(u)
           /\ people = "not-friends" => ~ IsFriendOf(u)
           /\ people = "only-me" => Author = u
    BY <1>1, <1>0, FindsIs DEF MongoFindPostsForSearch, People
  <2>3. (u # Guest /\ GetBlockedPostIds(u)) <=> GetBlockedPostIds(u)
    BY <1>1
  <2>4. SearchPosts(u, people) <=>
          IF database = "postgres"
          THEN PostgresFindPostsForSearch(u, people, FindFriendUserIds(u), GetBlockedIds(u), u # Guest /\ GetBlockedPostIds(u))
          ELSE MongoFindPostsForSearch(u, people, FindFriendUserIds(u), GetBlockedIds(u), u # Guest /\ GetBlockedPostIds(u))
    BY <1>1 DEF SearchPosts
  <2>5. PostgresFindPostsForSearch(u, people, FindFriendUserIds(u), GetBlockedIds(u), u # Guest /\ GetBlockedPostIds(u))
        <=> PostgresFindPostsForSearch(u, people, FindFriendUserIds(u), GetBlockedIds(u), GetBlockedPostIds(u))
    BY <2>3 DEF PostgresFindPostsForSearch
  <2>6. MongoFindPostsForSearch(u, people, FindFriendUserIds(u), GetBlockedIds(u), u # Guest /\ GetBlockedPostIds(u))
        <=> MongoFindPostsForSearch(u, people, FindFriendUserIds(u), GetBlockedIds(u), GetBlockedPostIds(u))
    BY <2>3 DEF MongoFindPostsForSearch
  <2> QED
    BY <2>1, <2>2, <2>4, <2>5, <2>6
<1>3. {"everybody", "friends", "not-friends", "only-me"} = People
  BY DEF People
<1>4. u = Author => Finds(u)
  BY <1>0, FindsIs
<1>5. SearchPosts(u, "everybody") <=> Finds(u)
  BY <1>2, <1>3
<1>6. SearchPosts(u, "friends") <=> Finds(u) /\ IsFriendOf(u)
  BY <1>2, <1>3
<1>7. SearchPosts(u, "not-friends") <=> Finds(u) /\ ~ IsFriendOf(u)
  BY <1>2, <1>3
<1>8. SearchPosts(u, "only-me") <=> u = Author
  BY <1>2, <1>3, <1>4
<1> QED
  BY <1>5, <1>6, <1>7, <1>8

LEMMA InteractionMatches ==
    ASSUME ListsInv, NEW u \in Users, Settled(u), NEW t \in Tables
    PROVE  GetPostsByUserInteraction(u, t) <=>
             /\ <<t, u>> \in marked
             /\ CanOpen(u) \/ (IsBlockedEitherWay(u) /\ IsUserInteractedWithPost(u))
<1>0. AudienceTypeOK
  BY DEF ListsInv, ListsTypeOK
<1>1. /\ Author \in GetBlockedIds(u) \ {u} <=> IsBlockedEitherWay(u)
      /\ Author \in FindFriendUserIds(u) \ {u} <=> IsFriendOf(u)
      /\ GetBlockedPostIds(u) <=> IsBlockedEitherWay(u) /\ IsUserInteractedWithPost(u)
      /\ <<t, u>> \in marked => IsUserInteractedWithPost(u)
  BY <1>0, AskedForAuthor, RuleOfUser
<1>2. PostgresFindPostsByUserInteraction(u, t, FindFriendUserIds(u), GetBlockedIds(u), GetBlockedPostIds(u)) <=>
        /\ <<t, u>> \in marked
        /\ CanOpen(u) \/ (IsBlockedEitherWay(u) /\ IsUserInteractedWithPost(u))
  BY <1>1, <1>0, FindsIs DEF PostgresFindPostsByUserInteraction
<1>3. MongoFindPostsByUserInteraction(u, t, FindFriendUserIds(u), GetBlockedIds(u), GetBlockedPostIds(u)) <=>
        /\ <<t, u>> \in marked
        /\ CanOpen(u) \/ (IsBlockedEitherWay(u) /\ IsUserInteractedWithPost(u))
  BY <1>1, <1>0, FindsIs DEF MongoFindPostsByUserInteraction
<1> QED
  BY <1>2, <1>3 DEF GetPostsByUserInteraction

LEMMA PostsOfUserMatch ==
    ASSUME AudienceTypeOK, NEW u \in Users \union {Guest}
    PROVE  GetPostsByUser(u) <=> CanOpen(u) /\ ~ IsBlocked(u)
<1>0. post.audience \in {"public", "friends-only", "only-me"} /\ Guest \notin post.mentions /\ Guest # Author
  BY AudienceAssumption DEF AudienceTypeOK, Posts, Audiences
<1>1. CanOpen(u) /\ ~ IsBlocked(u) <=>
        /\ ~ IsBlocked(u)
        /\ \/ u = Author \/ post.audience = "public"
           \/ post.audience = "friends-only" /\ u # Guest /\ (u \in post.mentions \/ IsFriendOf(u))
  BY DEF CanOpen, InAudience
<1> DEFINE isFriend == ~(u = Author) /\ u # Guest /\ IsFriendOf(u)
<1>2. PostgresFindPostsByUserId(u, u = Author \/ isFriend, u = Author) <=>
        \/ u = Author \/ post.audience = "public"
        \/ post.audience = "friends-only" /\ u # Guest /\ (u \in post.mentions \/ IsFriendOf(u))
  BY <1>0 DEF PostgresFindPostsByUserId
<1>3. MongoFindPostsByUserId(u, u = Author \/ isFriend, u = Author) <=>
        \/ u = Author \/ post.audience = "public"
        \/ post.audience = "friends-only" /\ u # Guest /\ (u \in post.mentions \/ IsFriendOf(u))
  BY <1>0 DEF MongoFindPostsByUserId
<1>4. u = Author => ~ IsBlocked(u)
  <2>1. u = Author => {u, Author} \notin blocks
    BY NotOneself
  <2> QED
    BY <2>1 DEF IsBlocked, IsBlockedEitherWay
<1>5. (u # Guest /\ ~(u = Author) => ~ IsBlockedEitherWay(u)) <=> ~ IsBlocked(u)
  BY <1>4 DEF IsBlocked
<1>6. GetPostsByUser(u) <=>
        /\ u # Guest /\ ~(u = Author) => ~ IsBlockedEitherWay(u)
        /\ IF database = "postgres" THEN PostgresFindPostsByUserId(u, u = Author \/ isFriend, u = Author)
           ELSE MongoFindPostsByUserId(u, u = Author \/ isFriend, u = Author)
  BY DEF GetPostsByUser
<1> HIDE DEF isFriend
<1> QED
  BY <1>1, <1>2, <1>3, <1>5, <1>6

LEMMA GuestMatches ==
    /\ GetGuestNewFeeds <=> CanOpen(Guest) /\ post.type \in FeedTypes
    /\ \A people \in People : SearchPosts(Guest, people) <=> CanOpen(Guest)
<1>1. CanOpen(Guest) <=> post.audience = "public"
  BY AudienceAssumption DEF CanOpen, InAudience, IsBlocked
<1>2. GetGuestNewFeeds <=> CanOpen(Guest) /\ post.type \in FeedTypes
  BY <1>1 DEF GetGuestNewFeeds, PostgresFindGuestPosts, MongoFindGuestPosts
<1>3. ASSUME NEW people \in People PROVE SearchPosts(Guest, people) <=> CanOpen(Guest)
  BY <1>1 DEF SearchPosts, PostgresFindPostsForSearch, MongoFindPostsForSearch
<1> QED
  BY <1>2, <1>3

LEMMA ListsMatch ==
    ASSUME ListsInv
    PROVE  ListsMatchDetail
<1>0. AudienceTypeOK
  BY DEF ListsInv, ListsTypeOK
<1>1. ASSUME NEW u \in Users, Settled(u)
      PROVE LET kept == IsBlocked(u) /\ IsUserInteractedWithPost(u)
                mentionedOnly == /\ post.audience = "friends-only" /\ u \in post.mentions
                                 /\ u # Author /\ ~IsFriendOf(u)
                found == kept \/ (CanOpen(u) /\ ~mentionedOnly)
            IN  /\ GetNewFeeds(u, "for-you") <=> (found /\ post.type \in FeedTypes)
                /\ GetNewFeeds(u, "following") <=>
                      (found /\ post.type \in FeedTypes /\ (IsFriendOf(u) \/ u = Author))
                /\ SearchPosts(u, "everybody") <=> found
                /\ SearchPosts(u, "friends") <=> (found /\ IsFriendOf(u))
                /\ SearchPosts(u, "not-friends") <=> (found /\ ~IsFriendOf(u))
                /\ SearchPosts(u, "only-me") <=> u = Author
                /\ \A t \in Tables : GetPostsByUserInteraction(u, t) <=>
                      (<<t, u>> \in marked /\ (kept \/ CanOpen(u)))
  <2>1. IsBlocked(u) <=> IsBlockedEitherWay(u)
    BY <1>0, RuleOfUser
  <2>2. (\/ IsBlocked(u) /\ IsUserInteractedWithPost(u)
         \/ CanOpen(u) /\ ~ (/\ post.audience = "friends-only" /\ u \in post.mentions
                             /\ u # Author /\ ~ IsFriendOf(u))) <=> Finds(u)
    BY <2>1 DEF Finds
  <2>3. \A t \in Tables : GetPostsByUserInteraction(u, t) <=>
          (<<t, u>> \in marked /\ ((IsBlocked(u) /\ IsUserInteractedWithPost(u)) \/ CanOpen(u)))
    BY <1>1, <2>1, InteractionMatches
  <2> QED
    BY <1>1, <2>2, <2>3, FeedMatches, SearchMatches
<1>2. \A u \in Users \union {Guest} : GetPostsByUser(u) <=> (CanOpen(u) /\ ~IsBlocked(u))
  BY <1>0, PostsOfUserMatch
<1> QED
  BY <1>1, <1>2, GuestMatches DEF ListsMatchDetail

-----------------------------------------------------------------------------
(* Posts: who passes the checks                                               *)

Checks == {<<>>, <<"interacted">>, <<"block">>, <<"friend">>, <<"friend", "block">>, <<"block", "friend">>}

LEMMA ChecksAre ==
    /\ Head(<<"interacted">>) = "interacted" /\ Tail(<<"interacted">>) = <<>>
    /\ Head(<<"block">>) = "block" /\ Tail(<<"block">>) = <<>>
    /\ Head(<<"friend">>) = "friend" /\ Tail(<<"friend">>) = <<>>
    /\ Head(<<"friend", "block">>) = "friend" /\ Tail(<<"friend", "block">>) = <<"block">>
    /\ Head(<<"block", "friend">>) = "block" /\ Tail(<<"block", "friend">>) = <<"friend">>
    /\ <<"interacted">> # <<>> /\ <<"block">> # <<>> /\ <<"friend">> # <<>>
    /\ <<"friend", "block">> # <<>> /\ <<"block", "friend">> # <<>>
    /\ <<"friend", "block">> # <<"block">> /\ <<"friend", "block">> # <<"friend">>
    /\ <<"block", "friend">> # <<"block">> /\ <<"block", "friend">> # <<"friend">>
    /\ <<"friend", "block">> # <<"interacted">> /\ <<"block", "friend">> # <<"interacted">>
    /\ <<"friend", "block">> # <<"block", "friend">>
    /\ <<"interacted">> # <<"block">> /\ <<"interacted">> # <<"friend">> /\ <<"block">> # <<"friend">>
OBVIOUS

\* The check whose turn it is, and what is left after it.
LEMMA TurnIs ==
    ASSUME NEW s \in Checks, s # <<>>
    PROVE  /\ Tail(s) \in Checks
           /\ Head(s) = "friend" =>
                 (s = <<"friend">> /\ Tail(s) = <<>>) \/ (s = <<"friend", "block">> /\ Tail(s) = <<"block">>)
           /\ Head(s) = "block" =>
                 (s = <<"block">> /\ Tail(s) = <<>>) \/ (s = <<"block", "friend">> /\ Tail(s) = <<"friend">>)
           /\ Head(s) = "interacted" => s = <<"interacted">> /\ Tail(s) = <<>>
BY ChecksAre DEF Checks

Seen(u, p, fr) ==
    \/ u = Author \/ p.audience = "public"
    \/ p.audience = "friends-only" /\ (u \in p.mentions \/ {u, Author} \in fr)

Met(u, mk, cm) == u \in cm \/ \E t \in Tables : <<t, u>> \in mk

\* What the checks that a mark has passed have found, by those that are left.
MarkRight(q, p, fr, bl, mk, cm) ==
    /\ q.checks \in {<<>>, <<"interacted">>, <<"block">>, <<"friend", "block">>}
    /\ q.checks = <<"friend", "block">> => p.audience = "friends-only"
    /\ q.checks # <<"friend", "block">> => Seen(q.user, p, fr)
    /\ q.checks = <<>> /\ {q.user, Author} \in bl => Met(q.user, mk, cm)

\* The same for a comment.
CommentRight(q, p, fr, bl) ==
    /\ q.checks \in {<<>>, <<"block">>, <<"friend">>, <<"block", "friend">>}
    /\ q.checks \in {<<>>, <<"block">>} =>
          /\ Seen(q.user, p, fr)
          /\ \/ q.user = Author \/ p.strangers \/ p.audience = "friends-only"
             \/ q.user \in p.mentions \/ {q.user, Author} \in fr
    /\ q.checks \in {<<"friend">>, <<"block", "friend">>} => p.audience # "only-me"
    /\ q.checks \in {<<>>, <<"friend">>} => {q.user, Author} \notin bl

EngagerRight(q, p, fr, bl, mk, cm) ==
    /\ q.op \in {"mark", "unmark"} /\ ~ q.stale => MarkRight(q, p, fr, bl, mk, cm)
    /\ q.op = "comment" /\ ~ q.stale => CommentRight(q, p, fr, bl)

EngagerOK(q) ==
    /\ q \in EngagerStates
    /\ q.op # "idle" => q.user \in Users
    /\ q.op \in {"mark", "unmark"} => q.table \in Tables

AccessInv ==
    /\ AccessTypeOK
    /\ \A e \in Engagers : EngagerOK(engager[e])
    /\ \A e \in Engagers : EngagerRight(engager[e], post, friends, blocks, marked, commented)

LEMMA EngagerStatesAre ==
    EngagerStates = [op : {"idle", "mark", "unmark", "comment"}, user : Users \union {Guest},
                     table : Tables \union {Guest}, stale : BOOLEAN, checks : Checks]
BY DEF EngagerStates, Checks

LEMMA RestingIs ==
    /\ Resting \in EngagerStates /\ Resting.op = "idle" /\ ~ Resting.stale /\ EngagerOK(Resting)
    /\ \A p, fr, bl, mk, cm : EngagerRight(Resting, p, fr, bl, mk, cm)
<1>1. Resting.op = "idle" /\ ~ Resting.stale /\ Resting \in EngagerStates
  BY DEF Resting, EngagerStates
<1> QED
  BY <1>1 DEF EngagerOK, EngagerRight

LEMMA AccessInvInit ==
    ASSUME AccessInit
    PROVE  AccessInv
<1>1. engager \in [Engagers -> EngagerStates] /\ \A e \in Engagers : engager[e] = Resting
  BY RestingIs DEF AccessInit, AudienceInit
<1>2. /\ post \in Posts /\ friends = {} /\ blocks = {} /\ marked = {} /\ commented = {}
  BY DEF AccessInit, AudienceInit
<1>3. AccessTypeOK
  BY <1>1, <1>2 DEF AccessTypeOK, AudienceTypeOK
<1> QED
  BY <1>1, <1>3, RestingIs DEF AccessInv

\* A step of one request.
LEMMA EngagerMoves ==
    ASSUME AccessInv, NEW e \in Engagers, NEW q, EngagerOK(q),
           EngagerRight(q, post, friends, blocks, marked, commented),
           engager' = [engager EXCEPT ![e] = q], UNCHANGED <<post, friends, blocks, marked, commented>>
    PROVE  AccessInv'
<1>0. AccessTypeOK /\ engager \in [Engagers -> EngagerStates] /\ q \in EngagerStates
  BY DEF AccessInv, AccessTypeOK, AudienceTypeOK, EngagerOK
<1>1. engager' \in [Engagers -> EngagerStates]
  BY <1>0
<1>2. AccessTypeOK'
  BY <1>0, <1>1 DEF AccessTypeOK, AudienceTypeOK
<1>3. \A f \in Engagers : engager'[f] = IF f = e THEN q ELSE engager[f]
  BY <1>0
<1>4. \A f \in Engagers : EngagerOK(engager'[f])
  BY <1>3 DEF AccessInv
<1>5. \A f \in Engagers : EngagerRight(engager'[f], post, friends, blocks, marked, commented)
  BY <1>3 DEF AccessInv
<1>6. \A f \in Engagers : EngagerRight(engager'[f], post', friends', blocks', marked', commented')
  BY <1>5
<1> QED
  BY <1>2, <1>4, <1>6 DEF AccessInv, EngagerOK

LEMMA RestsInv ==
    ASSUME AccessInv, NEW e \in Engagers, Rests(e), UNCHANGED <<post, friends, blocks, marked, commented>>
    PROVE  AccessInv'
BY EngagerMoves, RestingIs DEF Rests

\* What another request changes leaves nothing to say of those under way.
LEMMA DisturbedInv ==
    ASSUME AccessInv, Disturbs, post' \in Posts, friends' \subseteq Pairs, blocks' \subseteq Pairs,
           marked' \subseteq Tables \X Users, commented' \subseteq Users
    PROVE  AccessInv'
<1>1. ASSUME NEW f \in Engagers
      PROVE  /\ EngagerOK(engager'[f])
             /\ EngagerRight(engager'[f], post', friends', blocks', marked', commented')
  <2>1. EngagerOK(engager[f])
    BY DEF AccessInv
  <2>2. CASE engager[f] = Resting
    <3>1. engager'[f] = Resting
      BY <2>2 DEF Disturbs
    <3> QED
      BY <3>1, RestingIs
  <2>3. CASE engager[f] # Resting
    <3> DEFINE q == [engager[f] EXCEPT !.stale = TRUE]
    <3>1. engager'[f] = q
      BY <2>3 DEF Disturbs
    <3>2. q \in EngagerStates /\ q.stale /\ q.op = engager[f].op /\ q.user = engager[f].user
          /\ q.table = engager[f].table
      BY <2>1 DEF EngagerOK, EngagerStates
    <3> HIDE DEF q
    <3>3. EngagerOK(q)
      BY <2>1, <3>2 DEF EngagerOK
    <3>4. EngagerRight(q, post', friends', blocks', marked', commented')
      BY <3>2 DEF EngagerRight
    <3> QED
      BY <3>1, <3>3, <3>4
  <2> QED
    BY <2>2, <2>3
<1>2. engager' \in [Engagers -> EngagerStates]
  <2>1. engager' = [f \in Engagers |-> engager'[f]]
    BY DEF Disturbs
  <2> QED
    BY <1>1, <2>1 DEF EngagerOK
<1>3. AccessTypeOK'
  BY <1>2 DEF AccessTypeOK, AudienceTypeOK
<1> QED
  BY <1>1, <1>3 DEF AccessInv, EngagerOK

LEMMA StartMarkInv ==
    ASSUME AccessInv, NEW e \in Engagers, StartMark(e)
    PROVE  AccessInv'
<1>0. AccessTypeOK /\ AudienceTypeOK /\ post.audience \in {"public", "friends-only", "only-me"}
  BY DEF AccessInv, AccessTypeOK, AudienceTypeOK, Posts, Audiences
<1>1. PICK u \in Users, t \in Tables, op \in {"mark", "unmark"} :
        /\ post.audience = "only-me" => u = Author
        /\ engager' = [engager EXCEPT ![e] =
              [Resting EXCEPT !.op = op, !.user = u, !.table = t,
                  !.checks = IF u = Author THEN <<>>
                             ELSE IF post.audience = "friends-only" /\ u \notin post.mentions
                             THEN <<"friend", "block">> ELSE <<"block">>]]
  BY ZenonT(30) DEF StartMark
<1> DEFINE left == IF u = Author THEN <<>>
                   ELSE IF post.audience = "friends-only" /\ u \notin post.mentions
                   THEN <<"friend", "block">> ELSE <<"block">>
           q == [Resting EXCEPT !.op = op, !.user = u, !.table = t, !.checks = left]
<1>2. engager' = [engager EXCEPT ![e] = q]
  BY <1>1
<1>3. left \in {<<>>, <<"block">>, <<"friend", "block">>}
  OBVIOUS
<1>4. /\ left = <<"friend", "block">> => post.audience = "friends-only"
      /\ left # <<"friend", "block">> => Seen(u, post, friends)
      /\ left = <<>> => {u, Author} \notin blocks
  <2>1. u = Author => {u, Author} \notin blocks
    BY <1>0, NotOneself
  <2> QED
    BY <1>0, <1>1, <2>1, ChecksAre DEF Seen
<1> HIDE DEF left
<1>5. left \in Checks
  BY <1>3 DEF Checks
<1>6. /\ q \in EngagerStates /\ q.op = op /\ q.user = u /\ q.table = t /\ q.checks = left
  BY <1>5, EngagerStatesAre DEF Resting
<1> HIDE DEF q
<1>7. EngagerOK(q)
  BY <1>6 DEF EngagerOK
<1>8. MarkRight(q, post, friends, blocks, marked, commented)
  BY <1>3, <1>4, <1>6 DEF MarkRight
<1>9. EngagerRight(q, post, friends, blocks, marked, commented)
  BY <1>6, <1>8 DEF EngagerRight
<1>10. UNCHANGED <<post, friends, blocks, marked, commented>>
  BY DEF StartMark, audienceVars
<1> QED
  BY <1>2, <1>7, <1>9, <1>10, EngagerMoves

LEMMA StartCommentInv ==
    ASSUME AccessInv, NEW e \in Engagers, StartComment(e)
    PROVE  AccessInv'
<1>0. AccessTypeOK /\ AudienceTypeOK /\ post.audience \in {"public", "friends-only", "only-me"}
  BY DEF AccessInv, AccessTypeOK, AudienceTypeOK, Posts, Audiences
<1>1. PICK u \in Users :
        /\ post.audience = "only-me" => u = Author
        /\ engager' = [engager EXCEPT ![e] =
              [Resting EXCEPT !.op = "comment", !.user = u,
                  !.checks = IF \/ u = Author \/ u \in post.mentions
                                \/ post.audience = "public" /\ post.strangers
                             THEN <<"block">> ELSE <<"block", "friend">>]]
  BY ZenonT(30) DEF StartComment
<1> DEFINE left == IF \/ u = Author \/ u \in post.mentions
                      \/ post.audience = "public" /\ post.strangers
                   THEN <<"block">> ELSE <<"block", "friend">>
           q == [Resting EXCEPT !.op = "comment", !.user = u, !.checks = left]
<1>2. engager' = [engager EXCEPT ![e] = q]
  BY <1>1
<1>3. left \in {<<"block">>, <<"block", "friend">>}
  OBVIOUS
<1>4. /\ left = <<"block">> =>
            /\ Seen(u, post, friends)
            /\ u = Author \/ post.strangers \/ u \in post.mentions
      /\ left = <<"block", "friend">> => post.audience # "only-me"
  BY <1>0, <1>1, ChecksAre DEF Seen
<1> HIDE DEF left
<1>5. left \in Checks /\ left # <<>> /\ left # <<"friend">>
  BY <1>3, ChecksAre DEF Checks
<1>6. /\ q \in EngagerStates /\ q.op = "comment" /\ q.user = u /\ q.checks = left
  BY <1>5, EngagerStatesAre DEF Resting
<1> HIDE DEF q
<1>7. EngagerOK(q)
  BY <1>6 DEF EngagerOK
<1>8. CommentRight(q, post, friends, blocks)
  BY <1>3, <1>4, <1>5, <1>6 DEF CommentRight
<1>9. EngagerRight(q, post, friends, blocks, marked, commented)
  BY <1>6, <1>8 DEF EngagerRight
<1>10. UNCHANGED <<post, friends, blocks, marked, commented>>
  BY DEF StartComment, audienceVars
<1> QED
  BY <1>2, <1>7, <1>9, <1>10, EngagerMoves

\* A request goes on with what is left of its checks.
LEMMA ProceedsInv ==
    ASSUME AccessInv, NEW e \in Engagers, NEW left \in Checks,
           engager' = [engager EXCEPT ![e].checks = left],
           UNCHANGED <<post, friends, blocks, marked, commented>>,
           \A q : q.user = engager[e].user /\ q.checks = left =>
              /\ engager[e].op = "comment" /\ ~ engager[e].stale => CommentRight(q, post, friends, blocks)
              /\ engager[e].op \in {"mark", "unmark"} /\ ~ engager[e].stale =>
                    MarkRight(q, post, friends, blocks, marked, commented)
    PROVE  AccessInv'
<1> DEFINE q == [engager[e] EXCEPT !.checks = left]
<1>0. EngagerOK(engager[e])
  BY DEF AccessInv
<1>1. engager' = [engager EXCEPT ![e] = q]
  OBVIOUS
<1>2. /\ q \in EngagerStates /\ q.op = engager[e].op /\ q.user = engager[e].user /\ q.checks = left
      /\ q.table = engager[e].table /\ q.stale = engager[e].stale
  BY <1>0, EngagerStatesAre DEF EngagerOK
<1> HIDE DEF q
<1>3. EngagerOK(q)
  BY <1>0, <1>2 DEF EngagerOK
<1>4. EngagerRight(q, post, friends, blocks, marked, commented)
  BY <1>2 DEF EngagerRight
<1> QED
  BY <1>1, <1>3, <1>4, EngagerMoves

\* The check whose turn it is, of a request under way.
LEMMA TurnTaken ==
    ASSUME AccessInv, NEW e \in Engagers, NEW check, Turn(e, check)
    PROVE  LET s == engager[e].checks
           IN  /\ s \in Checks /\ Tail(s) \in Checks
               /\ check = "friend" =>
                     (s = <<"friend">> /\ Tail(s) = <<>>) \/ (s = <<"friend", "block">> /\ Tail(s) = <<"block">>)
               /\ check = "block" =>
                     (s = <<"block">> /\ Tail(s) = <<>>) \/ (s = <<"block", "friend">> /\ Tail(s) = <<"friend">>)
               /\ check = "interacted" => s = <<"interacted">> /\ Tail(s) = <<>>
<1>1. engager[e].checks \in Checks
  BY EngagerStatesAre DEF AccessInv, EngagerOK
<1>2. engager[e].checks # <<>> /\ Head(engager[e].checks) = check
  BY DEF Turn
<1> QED
  BY <1>1, <1>2, TurnIs

\* What is known of a request whose checks are not stale.
LEMMA FreshIs ==
    ASSUME AccessInv, NEW e \in Engagers, ~ engager[e].stale
    PROVE  /\ engager[e].op = "comment" => CommentRight(engager[e], post, friends, blocks)
           /\ engager[e].op \in {"mark", "unmark"} =>
                 MarkRight(engager[e], post, friends, blocks, marked, commented)
BY DEF AccessInv, EngagerRight

LEMMA CheckFriendInv ==
    ASSUME AccessInv, NEW e \in Engagers, CheckFriend(e)
    PROVE  AccessInv'
<1> DEFINE s == engager[e].checks
           u == engager[e].user
<1>0. UNCHANGED <<post, friends, blocks, marked, commented>> /\ Turn(e, "friend")
  BY DEF CheckFriend, audienceVars
<1>1. CASE ~ IsFriendOf(u)
  BY <1>0, <1>1, RestsInv DEF CheckFriend
<1>2. CASE IsFriendOf(u)
  <2>1. engager' = [engager EXCEPT ![e].checks = Tail(s)] /\ {u, Author} \in friends
    BY <1>2 DEF CheckFriend, Passes, IsFriendOf
  <2>2. /\ s \in Checks /\ Tail(s) \in Checks
        /\ (s = <<"friend">> /\ Tail(s) = <<>>) \/ (s = <<"friend", "block">> /\ Tail(s) = <<"block">>)
    BY <1>0, TurnTaken
  <2>3. post.audience \in {"public", "friends-only", "only-me"}
    BY DEF AccessInv, AccessTypeOK, AudienceTypeOK, Posts, Audiences
  <2>4. ASSUME NEW q, q.user = u, q.checks = Tail(s), engager[e].op = "comment", ~ engager[e].stale
        PROVE  CommentRight(q, post, friends, blocks)
    <3>1. CommentRight(engager[e], post, friends, blocks)
      BY <2>4, FreshIs
    <3>2. s = <<"friend">> /\ q.checks = <<>>
      BY <2>2, <2>4, <3>1, ChecksAre DEF CommentRight
    <3>3. post.audience # "only-me" /\ {u, Author} \notin blocks
      BY <3>1, <3>2 DEF CommentRight
    <3>4. Seen(u, post, friends)
      BY <2>1, <2>3, <3>3 DEF Seen
    <3> QED
      BY <2>1, <2>4, <3>2, <3>3, <3>4, ChecksAre DEF CommentRight
  <2>5. ASSUME NEW q, q.user = u, q.checks = Tail(s), engager[e].op \in {"mark", "unmark"}, ~ engager[e].stale
        PROVE  MarkRight(q, post, friends, blocks, marked, commented)
    <3>1. MarkRight(engager[e], post, friends, blocks, marked, commented)
      BY <2>5, FreshIs
    <3>2. s = <<"friend", "block">> /\ q.checks = <<"block">>
      BY <2>2, <2>5, <3>1, ChecksAre DEF MarkRight
    <3>3. post.audience = "friends-only"
      BY <3>1, <3>2 DEF MarkRight
    <3>4. Seen(u, post, friends)
      BY <2>1, <3>3 DEF Seen
    <3> QED
      BY <2>5, <3>2, <3>4, ChecksAre DEF MarkRight
  <2> HIDE DEF s, u
  <2> QED
    BY <1>0, <2>1, <2>2, <2>4, <2>5, ProceedsInv DEF s, u
<1> QED
  BY <1>1, <1>2

LEMMA CheckBlockInv ==
    ASSUME AccessInv, NEW e \in Engagers, CheckBlock(e)
    PROVE  AccessInv'
<1> DEFINE s == engager[e].checks
           u == engager[e].user
<1>0. UNCHANGED <<post, friends, blocks, marked, commented>> /\ Turn(e, "block")
  BY DEF CheckBlock, audienceVars
<1>9. /\ s \in Checks /\ Tail(s) \in Checks
      /\ (s = <<"block">> /\ Tail(s) = <<>>) \/ (s = <<"block", "friend">> /\ Tail(s) = <<"friend">>)
  BY <1>0, TurnTaken
<1>8. engager[e].op \in {"mark", "unmark"} /\ ~ engager[e].stale =>
        s = <<"block">> /\ Tail(s) = <<>> /\ Seen(u, post, friends)
  <2> SUFFICES ASSUME engager[e].op \in {"mark", "unmark"}, ~ engager[e].stale
               PROVE  s = <<"block">> /\ Tail(s) = <<>> /\ Seen(u, post, friends)
    OBVIOUS
  <2>1. MarkRight(engager[e], post, friends, blocks, marked, commented)
    BY FreshIs
  <2>2. s = <<"block">> /\ Tail(s) = <<>>
    BY <1>9, <2>1, ChecksAre DEF MarkRight
  <2> QED
    BY <2>1, <2>2, ChecksAre DEF MarkRight
<1>1. CASE IsBlockedEitherWay(u) /\ engager[e].op = "comment"
  BY <1>0, <1>1, RestsInv DEF CheckBlock
<1>2. CASE ~ IsBlockedEitherWay(u)
  <2>1. engager' = [engager EXCEPT ![e].checks = Tail(s)] /\ {u, Author} \notin blocks
    BY <1>2 DEF CheckBlock, Passes, IsBlockedEitherWay
  <2>4. ASSUME NEW q, q.user = u, q.checks = Tail(s), engager[e].op = "comment", ~ engager[e].stale
        PROVE  CommentRight(q, post, friends, blocks)
    <3>1. CommentRight(engager[e], post, friends, blocks)
      BY <2>4, FreshIs
    <3>2. CASE s = <<"block">> /\ Tail(s) = <<>>
      BY <2>1, <2>4, <3>1, <3>2, ChecksAre DEF CommentRight
    <3>3. CASE s = <<"block", "friend">> /\ Tail(s) = <<"friend">>
      BY <2>1, <2>4, <3>1, <3>3, ChecksAre DEF CommentRight
    <3> QED
      BY <1>9, <3>2, <3>3
  <2>5. ASSUME NEW q, q.user = u, q.checks = Tail(s), engager[e].op \in {"mark", "unmark"}, ~ engager[e].stale
        PROVE  MarkRight(q, post, friends, blocks, marked, commented)
    BY <1>8, <2>1, <2>5, ChecksAre DEF MarkRight
  <2> HIDE DEF s, u
  <2> QED
    BY <1>0, <1>9, <2>1, <2>4, <2>5, ProceedsInv DEF s, u
<1>3. CASE IsBlockedEitherWay(u) /\ engager[e].op # "comment"
  <2>1. engager' = [engager EXCEPT ![e].checks = <<"interacted">>]
    BY <1>3 DEF CheckBlock
  <2>2. <<"interacted">> \in Checks
    BY DEF Checks
  <2>5. ASSUME NEW q, q.user = u, q.checks = <<"interacted">>, engager[e].op \in {"mark", "unmark"},
               ~ engager[e].stale
        PROVE  MarkRight(q, post, friends, blocks, marked, commented)
    BY <1>8, <2>5, ChecksAre DEF MarkRight
  <2> HIDE DEF s, u
  <2> QED
    BY <1>0, <1>3, <2>1, <2>2, <2>5, ProceedsInv DEF s, u
<1> QED
  BY <1>1, <1>2, <1>3

LEMMA CheckInteractedInv ==
    ASSUME AccessInv, NEW e \in Engagers, CheckInteracted(e)
    PROVE  AccessInv'
<1> DEFINE s == engager[e].checks
           u == engager[e].user
<1>0. UNCHANGED <<post, friends, blocks, marked, commented>> /\ Turn(e, "interacted")
  BY DEF CheckInteracted, audienceVars
<1>1. CASE ~ IsUserInteractedWithPost(u)
  BY <1>0, <1>1, RestsInv DEF CheckInteracted
<1>2. CASE IsUserInteractedWithPost(u)
  <2>1. engager' = [engager EXCEPT ![e].checks = Tail(s)] /\ Met(u, marked, commented)
    BY <1>2 DEF CheckInteracted, Passes, IsUserInteractedWithPost, Met
  <2>2. /\ s \in Checks /\ Tail(s) \in Checks /\ s = <<"interacted">> /\ Tail(s) = <<>>
    BY <1>0, TurnTaken
  <2>4. ASSUME engager[e].op = "comment", ~ engager[e].stale
        PROVE  FALSE
    <3>1. CommentRight(engager[e], post, friends, blocks)
      BY <2>4, FreshIs
    <3> QED
      BY <2>2, <3>1, ChecksAre DEF CommentRight
  <2>5. ASSUME NEW q, q.user = u, q.checks = Tail(s), engager[e].op \in {"mark", "unmark"}, ~ engager[e].stale
        PROVE  MarkRight(q, post, friends, blocks, marked, commented)
    <3>1. MarkRight(engager[e], post, friends, blocks, marked, commented)
      BY <2>5, FreshIs
    <3>2. Seen(u, post, friends)
      BY <2>2, <3>1, ChecksAre DEF MarkRight
    <3> QED
      BY <2>1, <2>2, <2>5, <3>2, ChecksAre DEF MarkRight
  <2> HIDE DEF s, u
  <2> QED
    BY <1>0, <2>1, <2>2, <2>4, <2>5, ProceedsInv DEF s, u
<1> QED
  BY <1>1, <1>2

LEMMA EngageInv ==
    ASSUME AccessInv, NEW e \in Engagers, Engage(e)
    PROVE  AccessInv'
<1> DEFINE u   == engager[e].user
           row == <<engager[e].table, u>>
<1>0. AccessTypeOK /\ EngagerOK(engager[e])
  BY DEF AccessInv
<1>1. /\ engager[e].op # "idle"
      /\ marked' = CASE engager[e].op = "mark"   -> marked \union {row}
                     [] engager[e].op = "unmark" -> marked \ {row}
                     [] OTHER                    -> marked
      /\ commented' = IF engager[e].op = "comment" THEN commented \union {u} ELSE commented
      /\ engager' = [f \in Engagers |->
                       IF f = e THEN Resting
                       ELSE [engager[f] EXCEPT !.stale = @ \/ engager[f].user = u]]
      /\ UNCHANGED <<post, friends, blocks>>
  BY DEF Engage
<1>2. u \in Users /\ (engager[e].op \in {"mark", "unmark"} => row \in Tables \X Users)
  BY <1>0, <1>1 DEF EngagerOK
<1>3. \A v : v # u => \A t : <<t, v>> # row
  OBVIOUS
<1>4. engager[e].op \in {"mark", "unmark", "comment"}
  BY <1>0, <1>1 DEF EngagerOK, EngagerStates
<1> HIDE DEF row
<1>5. marked' \subseteq Tables \X Users /\ commented' \subseteq Users
  BY <1>0, <1>1, <1>2, <1>4 DEF AccessTypeOK, AudienceTypeOK
<1>6. \A v : v # u => (Met(v, marked', commented') <=> Met(v, marked, commented))
  <2>1. \A v : v # u => (v \in commented' <=> v \in commented)
    BY <1>1
  <2>2. \A v : v # u => \A t : (<<t, v>> \in marked' <=> <<t, v>> \in marked)
    BY <1>1, <1>3, <1>4
  <2> QED
    BY <2>1, <2>2 DEF Met
<1> HIDE DEF u
<1>7. ASSUME NEW f \in Engagers
      PROVE  EngagerOK(engager'[f]) /\ EngagerRight(engager'[f], post, friends, blocks, marked', commented')
  <2>1. CASE f = e
    <3>1. engager'[f] = Resting
      BY <1>1, <2>1
    <3> QED
      BY <3>1, RestingIs
  <2>2. CASE f # e
    <3> DEFINE q == [engager[f] EXCEPT !.stale = @ \/ engager[f].user = u]
    <3>0. /\ EngagerOK(engager[f])
          /\ EngagerRight(engager[f], post, friends, blocks, marked, commented)
      BY DEF AccessInv
    <3>1. engager'[f] = q
      BY <1>1, <2>2
    <3>2. /\ q \in EngagerStates /\ q.op = engager[f].op /\ q.user = engager[f].user
          /\ q.table = engager[f].table /\ q.checks = engager[f].checks
      BY <3>0 DEF EngagerOK, EngagerStates
    <3>3. ~ q.stale => ~ engager[f].stale /\ engager[f].user # u
      BY <3>0 DEF EngagerOK, EngagerStates
    <3> HIDE DEF q
    <3>4. EngagerOK(q)
      BY <3>0, <3>2 DEF EngagerOK
    <3>5. ASSUME ~ q.stale, q.op \in {"mark", "unmark"} PROVE MarkRight(q, post, friends, blocks, marked', commented')
      <4>1. MarkRight(engager[f], post, friends, blocks, marked, commented) /\ q.user # u
        BY <3>0, <3>2, <3>3, <3>5 DEF EngagerRight
      <4>2. Met(q.user, marked', commented') <=> Met(q.user, marked, commented)
        BY <1>6, <4>1
      <4> QED
        BY <3>2, <4>1, <4>2 DEF MarkRight
    <3>6. ASSUME ~ q.stale, q.op = "comment" PROVE CommentRight(q, post, friends, blocks)
      <4>1. CommentRight(engager[f], post, friends, blocks)
        BY <3>0, <3>2, <3>3, <3>6 DEF EngagerRight
      <4> QED
        BY <3>2, <4>1 DEF CommentRight
    <3>7. EngagerRight(q, post, friends, blocks, marked', commented')
      BY <3>5, <3>6 DEF EngagerRight
    <3> QED
      BY <3>1, <3>4, <3>7
  <2> QED
    BY <2>1, <2>2
<1>8. engager' \in [Engagers -> EngagerStates]
  <2>1. engager' = [f \in Engagers |-> engager'[f]]
    BY <1>1
  <2> QED
    BY <1>7, <2>1 DEF EngagerOK
<1>9. AccessTypeOK'
  BY <1>0, <1>1, <1>5, <1>8 DEF AccessTypeOK, AudienceTypeOK
<1>10. \A f \in Engagers : EngagerRight(engager'[f], post', friends', blocks', marked', commented')
  BY <1>1, <1>7
<1> QED
  BY <1>7, <1>9, <1>10 DEF AccessInv, EngagerOK

LEMMA AccessInvStep ==
    ASSUME AccessInv, [AccessNext]_accessVars
    PROVE  AccessInv'
<1>0. AccessTypeOK
  BY DEF AccessInv
<1>1. ASSUME NEW e \in Engagers, Engaging(e) PROVE AccessInv'
  BY <1>1, StartMarkInv, StartCommentInv, CheckFriendInv, CheckBlockInv, CheckInteractedInv, EngageInv
     DEF Engaging
<1>2. CASE UpdatePost
  <2>1. post' \in Posts /\ Disturbs /\ UNCHANGED <<friends, blocks, marked, commented>>
    BY <1>2 DEF UpdatePost, SaveSettings
  <2> QED
    BY <1>0, <2>1, DisturbedInv DEF AccessTypeOK, AudienceTypeOK
<1>3. CASE DeleteComment
  <2>1. commented' \subseteq commented /\ Disturbs /\ UNCHANGED <<post, friends, blocks, marked>>
    BY <1>3 DEF DeleteComment, RemoveComment
  <2> QED
    BY <1>0, <2>1, DisturbedInv DEF AccessTypeOK, AudienceTypeOK
<1>4. CASE ChangeRelationship
  <2>1. /\ friends' \subseteq friends \union Pairs /\ blocks' \subseteq blocks \union Pairs
        /\ Disturbs /\ UNCHANGED <<post, marked, commented>>
    BY <1>4 DEF ChangeRelationship, RelateUsers
  <2> QED
    BY <1>0, <2>1, DisturbedInv DEF AccessTypeOK, AudienceTypeOK
<1>5. CASE UNCHANGED accessVars
  <2>1. UNCHANGED <<post, friends, blocks, marked, commented, engager>>
    BY <1>5 DEF accessVars, audienceVars
  <2> QED
    BY <2>1 DEF AccessInv, AccessTypeOK, AudienceTypeOK, EngagerOK
<1> QED
  BY <1>1, <1>2, <1>3, <1>4, <1>5 DEF AccessNext

LEMMA PassedIs ==
    ASSUME AccessInv
    PROVE  PassedIsAllowed
<1> SUFFICES ASSUME NEW e \in Engagers, engager[e].op # "idle", engager[e].checks = <<>>, ~ engager[e].stale
             PROVE  IF engager[e].op = "comment" THEN CanReply(engager[e].user) ELSE CanOpen(engager[e].user)
  BY DEF PassedIsAllowed
<1> DEFINE u == engager[e].user
<1>1. u \in Users /\ u # Guest /\ engager[e].op \in {"mark", "unmark", "comment"}
  BY AudienceAssumption DEF AccessInv, EngagerOK, EngagerStates
<1>2. Seen(u, post, friends) => InAudience(u)
  BY <1>1 DEF Seen, InAudience, IsFriendOf
<1>3. IsBlocked(u) <=> {u, Author} \in blocks
  BY <1>1 DEF IsBlocked, IsBlockedEitherWay
<1>4. CASE engager[e].op = "comment"
  <2>1. CommentRight(engager[e], post, friends, blocks)
    BY <1>4, FreshIs
  <2> QED
    BY <1>2, <1>3, <1>4, <2>1, ChecksAre DEF CommentRight, CanReply, IsFriendOf
<1>5. CASE engager[e].op # "comment"
  <2>1. MarkRight(engager[e], post, friends, blocks, marked, commented)
    BY <1>1, <1>5, FreshIs
  <2>2. Seen(u, post, friends) /\ ({u, Author} \in blocks => Met(u, marked, commented))
    BY <2>1, ChecksAre DEF MarkRight
  <2> QED
    BY <1>2, <1>3, <1>5, <2>2 DEF CanOpen, Met, IsUserInteractedWithPost
<1> QED
  BY <1>4, <1>5

\* The post, the relationships, the marks and the requests keep their types.
THEOREM AccessTypeCorrect == AccessSpec => []AccessTypeOK
<1>1. AccessInit => AccessInv
  BY AccessInvInit
<1>2. AccessInv /\ [AccessNext]_accessVars => AccessInv'
  BY AccessInvStep
<1>3. AccessInv => AccessTypeOK
  BY DEF AccessInv
<1> QED
  BY <1>1, <1>2, <1>3, PTL DEF AccessSpec

\* PassedIsAllowed: a like, a bookmark or a comment that has passed its checks, made one after the
\* other, is one that the rule allows, unless what they read has changed.
THEOREM PassedAsTheRule == AccessSpec => []PassedIsAllowed
<1>1. AccessInit => AccessInv
  BY AccessInvInit
<1>2. AccessInv /\ [AccessNext]_accessVars => AccessInv'
  BY AccessInvStep
<1>3. AccessInv => PassedIsAllowed
  BY PassedIs
<1> QED
  BY <1>1, <1>2, <1>3, PTL DEF AccessSpec

\* The rows, the cached lists and those that load them keep their types.
THEOREM ListsTypeCorrect == ListsSpec => []ListsTypeOK
<1>1. ListsInit => ListsInv
  BY ListsInvInit
<1>2. ListsInv /\ [ListsNext]_listsVars => ListsInv'
  BY ListsInvStep
<1>3. ListsInv => ListsTypeOK
  BY DEF ListsInv
<1> QED
  BY <1>1, <1>2, <1>3, PTL DEF ListsSpec

\* ListsMatchDetail: given the lists of friends and blocks as Redis has them, the conditions of both
\* databases select what opening the post would show, of a user once nothing their lists go by has
\* changed for as long as a list lives.
THEOREM ListsAsTheRule == ListsSpec => []ListsMatchDetail
<1>1. ListsInit => ListsInv
  BY ListsInvInit
<1>2. ListsInv /\ [ListsNext]_listsVars => ListsInv'
  BY ListsInvStep
<1>3. ListsInv => ListsMatchDetail
  BY ListsMatch
<1> QED
  BY <1>1, <1>2, <1>3, PTL DEF ListsSpec

\* PostAccess and PostLists change the same rows: what is known of the requests is kept by the steps
\* of the first, what is known of the lists by those of the second, and the types by both.
SharedInv ==
    /\ AccessTypeOK /\ ListsTypeOK
    /\ subject \notin {"friends", "blocks"} => AccessInv
    /\ subject \in {"friends", "blocks"} => ListsInv

LEMMA SharedInvStep ==
    ASSUME SharedInv, [Next]_vars
    PROVE  SharedInv'
<1>1. CASE AccessStep
  <2>1. /\ subject = "access" /\ subject' = subject /\ AccessNext
        /\ UNCHANGED <<database, listEntry, listReader, calm>>
    BY <1>1 DEF AccessStep, ownListsVars
  <2>2. AccessInv'
    BY <2>1, AccessInvStep DEF SharedInv
  <2> QED
    BY <2>1, <2>2 DEF SharedInv, AccessInv, AccessTypeOK, ListsTypeOK
<1>2. CASE ListsStep
  <2>1. /\ subject \in {"friends", "blocks"} /\ subject' = subject /\ ListsNext /\ UNCHANGED engager
    BY <1>2 DEF ListsStep
  <2>2. ListsInv'
    BY <2>1, ListsInvStep DEF SharedInv
  <2>3. ListsTypeOK' /\ AudienceTypeOK'
    BY <2>2 DEF ListsInv, ListsTypeOK
  <2>4. (engager \in [Engagers -> EngagerStates])'
    BY <2>1 DEF SharedInv, AccessTypeOK, EngagerStates
  <2> QED
    BY <2>1, <2>2, <2>3, <2>4 DEF SharedInv, AccessTypeOK
<1>3. ASSUME UNCHANGED <<subject, accessVars, ownListsVars>>
      PROVE  SharedInv'
  <2>1. UNCHANGED accessVars /\ UNCHANGED listsVars /\ subject' = subject
    BY <1>3 DEF accessVars, ownListsVars, listsVars
  <2>2. subject \notin {"friends", "blocks"} => AccessInv'
    BY <2>1, AccessInvStep DEF SharedInv
  <2>3. subject \in {"friends", "blocks"} => ListsInv'
    BY <2>1, ListsInvStep DEF SharedInv
  <2>4. AccessTypeOK'
    BY <2>1 DEF SharedInv, accessVars, audienceVars, AccessTypeOK, AudienceTypeOK, EngagerStates
  <2>5. ListsTypeOK'
    BY <1>3, <2>4 DEF SharedInv, ownListsVars, AccessTypeOK, ListsTypeOK
  <2> QED
    BY <2>1, <2>2, <2>3, <2>4, <2>5 DEF SharedInv
<1>4. TreeStep \/ PagesStep \/ UNCHANGED vars => UNCHANGED <<subject, accessVars, ownListsVars>>
  BY DEF TreeStep, PagesStep, vars
<1> QED
  BY <1>1, <1>2, <1>3, <1>4 DEF Next

\* TypeOK: the posts, their lists, trees and pages keep the shape of the code's rows, entries and
\* requests in every behaviour that MCPosts checks.
THEOREM PostsTypeCorrect == PostsSpec => []TypeOK
<1>1. Init => SharedInv /\ TreeInit /\ PagesInit
  BY AccessInvInit, ListsInvInit DEF Init, SharedInv, AccessInv, ListsInv
<1>2. SharedInv /\ [Next]_vars => SharedInv'
  BY SharedInvStep
<1>3. [Next]_vars => [TreeNext]_treeVars /\ [PagesNext]_pagesVars
  BY DEF Next, AccessStep, ListsStep, TreeStep, PagesStep, vars
<1>4. SharedInv => AccessTypeOK /\ ListsTypeOK
  BY DEF SharedInv
<1>5. PostsSpec => []SharedInv /\ TreeSpec /\ PagesSpec
  BY <1>1, <1>2, <1>3, PTL DEF PostsSpec, TreeSpec, PagesSpec
<1> QED
  BY <1>4, <1>5, TreeTypeCorrect, PagesTypeCorrect, PTL DEF TypeOK
=============================================================================
