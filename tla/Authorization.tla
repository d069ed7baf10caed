---------------------------- MODULE Authorization ----------------------------
(* Roles, their permissions, and the cache key by which AuthGuard decides what a role may  *)
(* call: the administrators' use cases, the synchronisation of the permissions with the    *)
(* routes of the application, and the cache warm-up.  A permission is one method and path.  *)
(*                                                                         *)
(* The key of one role is followed, of whichever: the keys of two have nothing in common.    *)
(***************************************************************************)
EXTENDS FiniteSets, Naturals

CONSTANTS
    Admin, User,    \* the system roles
    CustomRoles,
    Permissions,    \* rows that exist or will be made
    Routes,         \* methods and paths
    Catalogue,      \* those of the application
    UserRoutes,     \* those of the modules in USER_MODULE_ALLOWLIST
    NoRoute, NoRole,
    Callers,        \* requests and jobs under way at a time
    MaxCalls        \* bound: requests of administrators

SystemRoles == {Admin, User}
Roles       == SystemRoles \union CustomRoles

ASSUME AuthorizationAssumption ==
    /\ Admin # User /\ CustomRoles \intersect SystemRoles = {} /\ NoRole \notin Roles
    /\ UserRoutes \subseteq Catalogue /\ Catalogue \subseteq Routes /\ NoRoute \notin Routes
    /\ MaxCalls \in Nat

VARIABLES
    role,       \* [Roles -> its row and role_permissions]
    standing,   \* [Permissions -> "unborn", "live", "deleted" (the row stays) or "removed"]
    route,      \* [Permissions -> the method and path of the row]
    watched,    \* the role whose key is followed
    cached,     \* the entry of that key
    caller,     \* [Callers -> the use case it executes]
    calls

authorizationVars == <<role, standing, route, watched, cached, caller, calls>>
permissionVars    == <<standing, route>>

-----------------------------------------------------------------------------
Live == {p \in Permissions : standing[p] = "live"}

\* findPermissionByPathAndMethod, and the unique index of live rows.
HasRoute(q, except) == \E p \in Live \ except : route[p] = q

NoCopyOfRole == [found |-> FALSE, active |-> FALSE, routes |-> {}]

\* findRoleWithPermissionsById, keyed by method and path.
RoleWithPermissions(r) ==
    IF role[r].state # "live" THEN NoCopyOfRole
    ELSE [found |-> TRUE, active |-> role[r].active,
          routes |-> {route[p] : p \in role[r].grants \intersect Live}]

\* spoilt (history): stored by a load that a write overtook, or left by a write that
\* invalidates nothing.
NoRoleEntry == [set |-> FALSE, copy |-> NoCopyOfRole, spoilt |-> FALSE]

\* active and grants are what update-role asks for, {} to keep the row's; seen, listed and
\* allowed what the synchronisation has read, drop what it deletes.  overtaken (history): what
\* was read has changed since.
Free == [pc |-> "idle", op |-> "none", role |-> NoRole, active |-> {}, grants |-> {},
         permissions |-> {}, route |-> NoRoute, copy |-> NoCopyOfRole,
         seen |-> {}, listed |-> {}, allowed |-> {}, drop |-> {}, missing |-> {}, overtaken |-> FALSE]

GoesOn(c, call) ==
    /\ caller' = [caller EXCEPT ![c] = call]
    /\ UNCHANGED <<role, permissionVars, watched, cached>>

Reads(c, call) == caller[c] = Free /\ GoesOn(c, call) /\ UNCHANGED calls

Begins(c, call) == caller[c] = Free /\ calls < MaxCalls /\ calls' = calls + 1 /\ GoesOn(c, call)

\* A write is done: c goes on with next, and what the others have read and what is cached has
\* become outdated.  Only update-role and delete-role are to delete the entry.
Written(c, next) ==
    LET changed == RoleWithPermissions(watched)' # RoleWithPermissions(watched)
        Outdated(d) == \/ caller[d].pc = "store" /\ changed
                       \/ /\ caller[d].pc = "commit"
                          /\ \E r \in SystemRoles : role'[r].active # role[r].active
    IN  /\ UNCHANGED <<watched, calls>>
        /\ caller' = [d \in Callers |->
              IF d = c THEN next ELSE [caller[d] EXCEPT !.overtaken = @ \/ Outdated(d)]]
        /\ cached' = IF cached.set /\ changed /\ caller[c].op \notin {"update", "deleteRole"}
                     THEN [cached EXCEPT !.spoilt = TRUE] ELSE cached

Invalidates(r) == [Free EXCEPT !.pc = "invalidate", !.role = r]

-----------------------------------------------------------------------------
(* Readers of the key, and the warm-up                                        *)

\* AuthGuard.verifyRole finds no entry.  A token names a role that is or was there; loads
\* exclude each other, as CacheManager shows.
LoadRole(c) ==
    /\ ~cached.set /\ role[watched].state # "unborn"
    /\ \A d \in Callers : ~(caller[d].pc = "store" /\ caller[d].op = "guard")
    /\ Reads(c, [Free EXCEPT !.pc = "store", !.op = "guard", !.copy = RoleWithPermissions(watched)])

\* warmRoles goes through the active roles, and asks for no lock.
StartWarmUp(c) ==
    /\ RoleWithPermissions(watched).active
    /\ Reads(c, [Free EXCEPT !.pc = "load", !.op = "warm"])

WarmLoad(c) ==
    LET copy == RoleWithPermissions(watched)
    IN  /\ caller[c].pc = "load"
        /\ GoesOn(c, IF copy.found THEN [caller[c] EXCEPT !.pc = "store", !.copy = copy] ELSE Free)
        /\ UNCHANGED calls

StoreRole(c) ==
    /\ caller[c].pc = "store"
    /\ cached' = [set |-> TRUE, copy |-> caller[c].copy, spoilt |-> caller[c].overtaken]
    /\ caller' = [caller EXCEPT ![c] = Free]
    /\ UNCHANGED <<role, permissionVars, watched, calls>>

\* The entry is deleted, after update-role and delete-role.
InvalidateRole(c) ==
    /\ caller[c].pc = "invalidate"
    /\ cached' = IF caller[c].role = watched THEN NoRoleEntry ELSE cached
    /\ caller' = [caller EXCEPT ![c] = Free]
    /\ UNCHANGED <<role, permissionVars, watched, calls>>

RoleEntryExpires ==
    /\ cached.set /\ cached' = NoRoleEntry
    /\ UNCHANGED <<role, permissionVars, watched, caller, calls>>

-----------------------------------------------------------------------------
(* Roles                                                                     *)

\* The foreign key of PostgreSQL's role_permissions: the row of the permission is there, deleted or
\* not.  MongoDB checks nothing; of the two the model follows PostgreSQL.
Referable == {p \in Permissions : standing[p] \in {"live", "deleted"}}

\* The system roles are neither renamed nor deleted, and an update of Admin has to say that the
\* role is active.
StartUpdateRole(c) ==
    \E r \in Roles, active \in {{}, {TRUE}, {FALSE}}, grants \in {{}} \union {{g} : g \in SUBSET Referable} :
        /\ role[r].state = "live" /\ (active # {} \/ grants # {})
        /\ r = Admin => active = {TRUE}
        /\ Begins(c, [Free EXCEPT !.pc = "write", !.op = "update", !.role = r,
                        !.active = active, !.grants = grants])

Replaced(old, new) == IF new = {} THEN old ELSE CHOOSE v \in new : TRUE

\* Mutant of UpdateRole: the entry is only deleted for other permissions.
UpdateRoleQuietly(c) ==
    LET q == caller[c]
    IN  /\ q.pc = "write" /\ q.op = "update"
        /\ role[q.role].state = "live" /\ \A g \in q.grants : g \subseteq Referable
        /\ role' = [role EXCEPT ![q.role].active = Replaced(@, q.active), ![q.role].grants = Replaced(@, q.grants)]
        /\ UNCHANGED permissionVars
        /\ Written(c, IF q.grants = {} THEN Free ELSE Invalidates(q.role))

UpdateRole(c) ==
    LET q == caller[c]
    IN  /\ q.pc = "write" /\ q.op = "update"
        /\ role[q.role].state = "live" /\ \A g \in q.grants : g \subseteq Referable
        /\ role' = [role EXCEPT ![q.role].active = Replaced(@, q.active), ![q.role].grants = Replaced(@, q.grants)]
        /\ UNCHANGED permissionVars
        /\ Written(c, Invalidates(q.role))

StartDeleteRole(c) ==
    \E r \in CustomRoles :
        /\ role[r].state = "live"
        /\ Begins(c, [Free EXCEPT !.pc = "write", !.op = "deleteRole", !.role = r])

DeleteRole(c) ==
    LET r == caller[c].role
    IN  /\ caller[c].pc = "write" /\ caller[c].op = "deleteRole" /\ role[r].state = "live"
        /\ role' = [role EXCEPT ![r].state = "deleted"]
        /\ UNCHANGED permissionVars
        /\ Written(c, Invalidates(r))

\* No key of a role can be there before its id.
CreateRole(c) ==
    /\ caller[c] = Free /\ calls < MaxCalls
    /\ \E r \in CustomRoles, active \in BOOLEAN, grants \in SUBSET Referable :
          /\ role[r].state = "unborn"
          /\ role' = [role EXCEPT ![r] = [state |-> "live", active |-> active, grants |-> grants]]
    /\ calls' = calls + 1
    /\ UNCHANGED <<permissionVars, watched, cached, caller>>

-----------------------------------------------------------------------------
(* Permissions                                                               *)

StartCreatePermission(c) ==
    \E q \in Routes :
        /\ ~HasRoute(q, {})
        /\ Begins(c, [Free EXCEPT !.pc = "write", !.op = "create", !.route = q])

CreatePermission(c) ==
    /\ caller[c].pc = "write" /\ caller[c].op = "create" /\ ~HasRoute(caller[c].route, {})
    /\ \E p \in Permissions :
          /\ standing[p] = "unborn"
          /\ standing' = [standing EXCEPT ![p] = "live"]
          /\ route' = [route EXCEPT ![p] = caller[c].route]
    /\ UNCHANGED role
    /\ Written(c, Free)

StartUpdatePermission(c) ==
    \E p \in Live, q \in Routes :
        /\ q # route[p] /\ ~HasRoute(q, {p})
        /\ Begins(c, [Free EXCEPT !.pc = "write", !.op = "move", !.permissions = {p}, !.route = q])

\* No key is invalidated: the roles that have the permission keep the older path for the TTL.
UpdatePermission(c) ==
    /\ caller[c].pc = "write" /\ caller[c].op = "move"
    /\ \E p \in caller[c].permissions \intersect Live :
          /\ ~HasRoute(caller[c].route, {p})
          /\ route' = [route EXCEPT ![p] = caller[c].route]
    /\ UNCHANGED <<role, standing>>
    /\ Written(c, Free)

StartDeletePermission(c) ==
    \E p \in Live :
        /\ \A r \in Roles : role[r].state = "live" => p \notin role[r].grants
        /\ Begins(c, [Free EXCEPT !.pc = "write", !.op = "delete", !.permissions = {p}])

\* The row stays, and with it the role_permissions that were made since the count.
DeletePermission(c) ==
    /\ caller[c].pc = "write" /\ caller[c].op = "delete"
    /\ \E p \in caller[c].permissions \intersect Live : standing' = [standing EXCEPT ![p] = "deleted"]
    /\ UNCHANGED <<role, route>>
    /\ Written(c, Free)

-----------------------------------------------------------------------------
(* The synchronisation, one transaction                                       *)

\* syncPermissions finds what to delete and what to create.
SyncPermissions(c) ==
    Begins(c, [Free EXCEPT !.pc = "list", !.op = "sync",
                 !.drop = {p \in Live : route[p] \notin Catalogue},
                 !.missing = Catalogue \ {route[p] : p \in Live}])

\* Mutant of SyncRoles: both roles are written as active.
SyncRolesActive(c) ==
    /\ caller[c].pc = "list" /\ UNCHANGED calls
    /\ GoesOn(c, [caller[c] EXCEPT !.pc = "commit", !.listed = Live \ caller[c].drop,
                    !.allowed = {p \in Live \ caller[c].drop : route[p] \in UserRoutes}, !.seen = SystemRoles])

\* The permissions that are left, and the system roles that are active.
SyncRoles(c) ==
    /\ caller[c].pc = "list" /\ UNCHANGED calls
    /\ GoesOn(c, [caller[c] EXCEPT !.pc = "commit", !.listed = Live \ caller[c].drop,
                    !.allowed = {p \in Live \ caller[c].drop : route[p] \in UserRoutes},
                    !.seen = {r \in SystemRoles : role[r].active}])

\* What it writes is seen from here on, and no key is invalidated.  A row that somebody else
\* has removed or made meanwhile fails the whole, and a role that would be left without
\* permissions is not written.
SyncCommits(c) ==
    LET q == caller[c]
        Given(r, created) ==
            IF r = Admin THEN q.listed \union created
            ELSE q.allowed \union {p \in created : route'[p] \in UserRoutes}
    IN  /\ q.pc = "commit"
        /\ q.listed \subseteq Referable
        /\ \A m \in q.missing : ~HasRoute(m, q.drop)
        /\ \E made \in [q.missing -> {p \in Permissions : standing[p] = "unborn"}] :
              /\ \A m, n \in q.missing : made[m] = made[n] => m = n
              /\ LET created == {made[m] : m \in q.missing}
                     written == {r \in SystemRoles : Given(r, created) # {}}
                 IN  /\ standing' = [p \in Permissions |-> IF p \in created THEN "live"
                                       ELSE IF p \in q.drop THEN "removed" ELSE standing[p]]
                     /\ route' = [p \in Permissions |-> IF p \in created
                                    THEN CHOOSE m \in q.missing : made[m] = p ELSE route[p]]
                     /\ role' = [r \in Roles |->
                           IF r \in written
                           THEN [state |-> role[r].state, active |-> r \in q.seen,
                                 grants |-> Given(r, created)]
                           ELSE [role[r] EXCEPT !.grants = @ \ q.drop]]
        /\ Written(c, Free)

-----------------------------------------------------------------------------
\* A row is gone, an index or a foreign key refuses, a call fails or the process dies: nothing
\* is written, and an entry that was to be deleted stays.
CallerFails(c) ==
    /\ caller[c] # Free
    /\ caller' = [caller EXCEPT ![c] = Free]
    /\ cached' = [cached EXCEPT !.spoilt = @ \/ (cached.set /\ caller[c].role = watched
                                                          /\ caller[c].pc = "invalidate")]
    /\ UNCHANGED <<role, permissionVars, watched, calls>>

\* After the seed: the application's permissions, and the roles as a synchronisation makes them.
AuthorizationInit ==
    /\ \E f \in [Catalogue -> Permissions] :
          /\ \A m, n \in Catalogue : f[m] = f[n] => m = n
          /\ standing = [p \in Permissions |-> IF \E m \in Catalogue : f[m] = p THEN "live" ELSE "unborn"]
          /\ route = [p \in Permissions |->
                IF \E m \in Catalogue : f[m] = p THEN CHOOSE m \in Catalogue : f[m] = p ELSE NoRoute]
    /\ role = [r \in Roles |->
          [state |-> IF r \in SystemRoles THEN "live" ELSE "unborn", active |-> r \in SystemRoles,
           grants |-> CASE r = Admin -> Live
                        [] r = User  -> {p \in Live : route[p] \in UserRoutes}
                        [] OTHER     -> {}]]
    /\ watched \in Roles
    /\ cached = NoRoleEntry
    /\ caller = [c \in Callers |-> Free]
    /\ calls = 0

ReadsOfRole(c) == LoadRole(c) \/ StartWarmUp(c) \/ WarmLoad(c) \/ StoreRole(c)

Administers(c) ==
    \/ StartUpdateRole(c) \/ UpdateRole(c) \/ StartDeleteRole(c) \/ DeleteRole(c) \/ CreateRole(c)
    \/ StartCreatePermission(c) \/ CreatePermission(c) \/ StartUpdatePermission(c) \/ UpdatePermission(c)
    \/ StartDeletePermission(c) \/ DeletePermission(c) \/ InvalidateRole(c)

Synchronises(c) == SyncPermissions(c) \/ SyncRoles(c) \/ SyncCommits(c)

AuthorizationNext ==
    \/ \E c \in Callers : ReadsOfRole(c) \/ Administers(c) \/ Synchronises(c) \/ CallerFails(c)
    \/ RoleEntryExpires

AuthorizationSpec == AuthorizationInit /\ [][AuthorizationNext]_authorizationVars

-----------------------------------------------------------------------------
(* Properties                                                                *)

Copied == [found : BOOLEAN, active : BOOLEAN, routes : SUBSET Routes]

Calls ==
    [pc : {"idle", "load", "store", "write", "invalidate", "list", "commit"},
     op : {"none", "guard", "warm", "update", "deleteRole", "create", "move", "delete", "sync"},
     role : Roles \union {NoRole}, active : SUBSET BOOLEAN, grants : SUBSET SUBSET Permissions,
     permissions : SUBSET Permissions, route : Routes \union {NoRoute}, copy : Copied,
     seen : SUBSET SystemRoles, listed : SUBSET Permissions,
     allowed : SUBSET Permissions, drop : SUBSET Permissions,
     missing : SUBSET Catalogue, overtaken : BOOLEAN]

\* The state keeps its shape, no two live permissions have one route, PostgreSQL's role_permissions
\* refers to rows that are there, and Admin is there and active (update-role:41).
AuthorizationTypeOK ==
    /\ role \in [Roles -> [state : {"unborn", "live", "deleted"}, active : BOOLEAN,
                           grants : SUBSET Permissions]]
    /\ standing \in [Permissions -> {"unborn", "live", "deleted", "removed"}]
    /\ route \in [Permissions -> Routes \union {NoRoute}]
    /\ cached \in [set : BOOLEAN, copy : Copied, spoilt : BOOLEAN]
    /\ watched \in Roles /\ caller \in [Callers -> Calls] /\ calls \in 0..MaxCalls
    /\ \A p, q \in Live : route[p] = route[q] => p = q
    /\ \A r \in Roles : role[r].grants \subseteq Referable
    /\ role[Admin].state = "live" /\ role[Admin].active

\* AuthGuard decides by what the role is and may, or by an entry that is about to be deleted, or
\* is spoilt: a write overtook the load or the warm-up that stored it, the permissions were
\* changed or synchronised, which deletes no key, or the process of a change died before it did.
RolesAreObeyed ==
    cached.set /\ cached.copy # RoleWithPermissions(watched) =>
        \/ cached.spoilt
        \/ \E c \in Callers : caller[c].pc = "invalidate" /\ caller[c].role = watched

\* A role becomes active, or no longer is, only by an update that asks for it, or by a
\* synchronisation that read the row before such an update and wrote it after
\* (syncPermissionsToRole): what an administrator has switched off stays off.
ActiveIsKept ==
    [][\A r \in Roles : role[r].state = "live" /\ role'[r].active # role[r].active =>
          \E c \in Callers :
             \/ caller[c].pc = "write" /\ caller[c].role = r /\ caller[c].active = {role'[r].active}
             \/ caller[c].pc = "commit" /\ caller[c].overtaken]_authorizationVars
=============================================================================
