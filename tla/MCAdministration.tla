--------------------------- MODULE MCAdministration ---------------------------
(* Users and roles, as their owners and the administrators change them, and the cache keys  *)
(* that answer for them.  The two modules share no state, and a title has no part in what  *)
(* happens to user names: a behaviour follows the user names, the titles or the roles.       *)
EXTENDS Profiles, Authorization, TLC

CONSTANTS n1, n2, t1, t2, p1, p2, p3, get, put, old, c1, c2

VARIABLE part

administrationVars == <<part, profileVars, authorizationVars>>

Asks(q) == IF part = "names" THEN q.newTitle = Nobody ELSE q.newName = Nobody

\* Bound: the permissions of a custom role, and those that an update asks for.
AtMostOne(grants) == Cardinality(grants) <= 1

AdministrationInit ==
    /\ part \in {"names", "titles", "roles"}
    /\ ProfilesInit
    /\ AuthorizationInit
    \* The titles are interchangeable, and the role that is watched is none of the users' affair.
    /\ title = t1
    /\ part # "roles" => watched = Admin

ProfileStep ==
    /\ part \in {"names", "titles"}
    /\ ProfilesNext
    /\ \A c \in Clients : Asks(client'[c])
    /\ UNCHANGED <<part, authorizationVars>>

AuthorizationStep ==
    /\ part = "roles"
    /\ AuthorizationNext
    /\ \A c \in Callers : \A asked \in caller'[c].grants : AtMostOne(asked)
    /\ \A r \in CustomRoles : AtMostOne(role'[r].grants)
    /\ UNCHANGED <<part, profileVars>>

AdministrationNext == ProfileStep \/ AuthorizationStep

AdministrationSpec == AdministrationInit /\ [][AdministrationNext]_administrationVars

\* The state of both modules keeps its shape and its keys: user names, permissions, Admin, and the
\* foreign key that PostgreSQL alone has, from a role's permissions.
AdministrationTypeOK == ProfilesTypeOK /\ AuthorizationTypeOK

Symmetry == Permutations(UserNames) \union Permutations(Permissions) \union Permutations(Clients)
=============================================================================
