------------------------------- MODULE Profiles -------------------------------
(***************************************************************************)
(* User names and what users call themselves: update-me, the administrators'   *)
(* use cases, and the cache keys that answer for them.  The key of a user is     *)
(* read by every request of theirs, the key of a user name by profile pages and    *)
(* by the check that a name is free, and a change has to find and delete them all.  *)
(*                                                                         *)
(* One user, Self, updates their own profile.  Loads of a key exclude each other,    *)
(* as CacheManager shows they do while the lock lasts.                        *)
(***************************************************************************)
CONSTANTS
    Self,       \* the user who calls update-me
    Others,     \* users whom only administrators create, change and delete
    UserNames,
    Titles,     \* values of the column name
    Nobody,     \* no user name, no title, or nobody of that name
    Clients     \* requests under way at a time

ASSUME ProfileAssumption ==
    /\ Self \notin Others
    /\ Nobody \notin Others \union {Self} \union UserNames \union Titles

Accounts == Others \union {Self}

VARIABLES
    userName,   \* [Accounts -> the user name of the row, or Nobody]
    present,    \* the users with a row that is not deleted
    unborn,     \* those without a row
    title,      \* the name in the row of Self
    byId,       \* the entry of the key user(Self)
    byName,     \* [UserNames -> the entry of the key userByUsername]
    client      \* [Clients -> the request it executes]

profileVars == <<userName, present, unborn, title, byId, byName, client>>

-----------------------------------------------------------------------------
\* who: the user found, or Nobody.  spoilt (history): the entry was stored by a load that a
\* write overtook, or is one that a write did not delete.
NoEntry     == [set |-> FALSE, who |-> Nobody, spoilt |-> FALSE]
NoCopy      == [userName |-> Nobody, title |-> Nobody]
NoProfile   == [set |-> FALSE, copy |-> NoCopy, spoilt |-> FALSE]

Owner(n)    == IF \E u \in present : userName[u] = n THEN CHOOSE u \in present : userName[u] = n
               ELSE Nobody

\* current is the user as the use case has read it; old (history) says that it was no longer
\* true when it was read or has changed since.  found is what a load under way has found.
Ready == [pc |-> "idle", op |-> "none", user |-> Nobody, newName |-> Nobody, newTitle |-> Nobody,
          current |-> NoCopy, old |-> FALSE, found |-> Nobody, late |-> FALSE, keys |-> {}]

Ends(c) == client' = [client EXCEPT ![c] = Ready]

\* Mutant of KeysOf: the name that the user gives up is forgotten.
KeysOfFree(user, names) ==
    {n \in names \ {Nobody} : Owner(n) = Nobody} \union (IF user = Self THEN {Self} ELSE {})

\* Mutant of KeysOf: an update of the profile leaves the key of the user alone.
KeysOfNames(user, names) == names \ {Nobody}

\* The keys of a user: the user's own, if it is Self, and those of the names.
KeysOf(user, names) == (names \ {Nobody}) \union (IF user = Self THEN {Self} ELSE {})

\* A request whose write or deletion of a key is still to come.
WillInvalidate(key) == \E c \in Clients : key \in client[c].keys

Invalidating(keys) == IF keys = {} THEN Ready ELSE [Ready EXCEPT !.pc = "invalidate", !.keys = keys]

-----------------------------------------------------------------------------
(* The reads of user.service, through the cache                                *)

\* Where a request goes on with the user it has read by id, or with the owner of a name.
AfterCurrent(q) ==
    IF q.op = "read" THEN Ready ELSE [q EXCEPT !.pc = IF q.newName = Nobody THEN "write" ELSE "check"]

AfterCheck(q, who) ==
    IF q.op = "read" \/ who \notin {Nobody, q.user} THEN Ready ELSE [q EXCEPT !.pc = "write"]

\* findUserById
GetUser(c) ==
    /\ client[c].pc = "current" /\ byId.set
    /\ client' = [client EXCEPT ![c] = AfterCurrent([@ EXCEPT
                    !.current = byId.copy, !.old = byId.spoilt \/ WillInvalidate(Self)])]
    /\ UNCHANGED <<userName, present, unborn, title, byId, byName>>

LoadUser(c) ==
    /\ client[c].pc = "current" /\ ~byId.set
    /\ \A d \in Clients : client[d].pc # "storeUser"
    /\ client' = [client EXCEPT ![c].pc = "storeUser",
                    ![c].current = [userName |-> userName[Self], title |-> title]]
    /\ UNCHANGED <<userName, present, unborn, title, byId, byName>>

StoreUser(c) ==
    /\ client[c].pc = "storeUser"
    /\ byId' = [set |-> TRUE, copy |-> client[c].current, spoilt |-> client[c].old]
    /\ client' = [client EXCEPT ![c] = AfterCurrent(@)]
    /\ UNCHANGED <<userName, present, unborn, title, byName>>

\* findUserByUsername
GetOwner(c) ==
    /\ client[c].pc = "check" /\ byName[client[c].newName].set
    /\ client' = [client EXCEPT ![c] = AfterCheck(@, byName[@.newName].who)]
    /\ UNCHANGED <<userName, present, unborn, title, byId, byName>>

LoadOwner(c) ==
    LET n == client[c].newName
    IN  /\ client[c].pc = "check" /\ ~byName[n].set
        /\ \A d \in Clients : ~(client[d].pc = "storeOwner" /\ client[d].newName = n)
        /\ client' = [client EXCEPT ![c].pc = "storeOwner", ![c].found = Owner(n)]
        /\ UNCHANGED <<userName, present, unborn, title, byId, byName>>

StoreOwner(c) ==
    /\ client[c].pc = "storeOwner"
    /\ byName' = [byName EXCEPT ![client[c].newName] =
                    [set |-> TRUE, who |-> client[c].found, spoilt |-> client[c].late]]
    /\ client' = [client EXCEPT ![c] =
                    AfterCheck([@ EXCEPT !.found = Nobody, !.late = FALSE], @.found)]
    /\ UNCHANGED <<userName, present, unborn, title, byId>>

-----------------------------------------------------------------------------
(* The use cases                                                             *)

\* get-me and the guard of every route; get-user-profile.
Read(c) ==
    /\ client[c] = Ready
    /\ \/ client' = [client EXCEPT ![c].pc = "current", ![c].op = "read"]
       \/ \E n \in UserNames :
             client' = [client EXCEPT ![c].pc = "check", ![c].op = "read", ![c].newName = n]
    /\ UNCHANGED <<userName, present, unborn, title, byId, byName>>

\* A profile is updated with a new user name, a new title, both or neither (the rest of it).
UpdateMe(c) ==
    /\ client[c] = Ready
    /\ \E n \in UserNames \union {Nobody}, t \in Titles \union {Nobody} :
          client' = [client EXCEPT ![c] = [@ EXCEPT !.pc = "current", !.op = "me",
                        !.user = Self, !.newName = n, !.newTitle = t]]
    /\ UNCHANGED <<userName, present, unborn, title, byId, byName>>

\* Administrators read the row itself, and check a name that is new.
AdminUpdateUser(c) ==
    /\ client[c] = Ready
    /\ \E u \in present, n \in UserNames \union {Nobody}, t \in Titles \union {Nobody} :
          /\ u # Self => t = Nobody
          /\ client' = [client EXCEPT ![c] = [@ EXCEPT !.op = "update",
                !.pc = IF n \in {Nobody, userName[u]} THEN "write" ELSE "check",
                !.user = u, !.newName = n, !.newTitle = t, !.current.userName = userName[u]]]
    /\ UNCHANGED <<userName, present, unborn, title, byId, byName>>

AdminDeleteUser(c) ==
    /\ client[c] = Ready
    /\ \E u \in present \ {Self} :
          client' = [client EXCEPT ![c] = [@ EXCEPT !.pc = "write", !.op = "delete", !.user = u,
                        !.current.userName = userName[u]]]
    /\ UNCHANGED <<userName, present, unborn, title, byId, byName>>

AdminCreateUser(c) ==
    /\ client[c] = Ready
    /\ \E u \in unborn \ {client[d].user : d \in Clients}, n \in UserNames \union {Nobody} :
          client' = [client EXCEPT ![c] = [@ EXCEPT !.op = "create", !.user = u, !.newName = n,
                        !.pc = IF n = Nobody THEN "write" ELSE "check"]]
    /\ UNCHANGED <<userName, present, unborn, title, byId, byName>>

-----------------------------------------------------------------------------
(* The writes                                                                *)

\* Mutant of Taken: the index is of the rows of others than Self alone.
TakenByOthers(q) == q.newName # Nobody /\ Owner(q.newName) \notin {Nobody, q.user, Self}

\* The unique index of live rows refuses a name that has an owner by now.
Taken(q) == q.newName # Nobody /\ Owner(q.newName) \notin {Nobody, q.user}

\* What a write of user w that adds or takes these names spoils: the copies of w that others
\* have read, and the loads of the names under way.
Overtakes(q, w, names) ==
    [q EXCEPT !.old = @ \/ (q.user = w /\ q.pc \in {"check", "storeOwner", "write"})
                        \/ (q.pc = "storeUser" /\ w = Self),
              !.late = @ \/ (q.pc = "storeOwner" /\ q.newName \in names)]

\* The entries of names that nobody is going to delete.
Spoil(names) ==
    byName' = [n \in UserNames |->
                 IF n \in names /\ byName[n].set THEN [byName[n] EXCEPT !.spoilt = TRUE]
                 ELSE byName[n]]

\* updateMe and update of the repository, and the keys that are deleted next.  update-me gives
\* the title of the user it read where none is asked for.
UpdateUser(c) ==
    LET q    == client[c]
        name == IF q.newName = Nobody THEN userName[q.user] ELSE q.newName
        told == IF q.newTitle # Nobody THEN q.newTitle
                ELSE IF q.op = "me" THEN q.current.title ELSE title
        keys == KeysOf(q.user, {q.current.userName, name})
    IN  /\ q.pc = "write" /\ q.op \in {"me", "update"}
        /\ q.user \in present /\ ~Taken(q)
        /\ userName' = [userName EXCEPT ![q.user] = name]
        /\ title' = IF q.user = Self THEN told ELSE title
        /\ client' = [d \in Clients |->
              IF d = c THEN Invalidating(keys)
              ELSE IF <<userName, title>>' = <<userName, title>> THEN client[d]
              ELSE Overtakes(client[d], q.user, {userName[q.user], name})]
        /\ IF q.old THEN Spoil({userName[q.user]} \ keys) ELSE UNCHANGED byName
        /\ UNCHANGED <<present, unborn, byId>>

DeleteUser(c) ==
    LET q    == client[c]
        keys == KeysOf(q.user, {q.current.userName})
    IN  /\ q.pc = "write" /\ q.op = "delete" /\ q.user \in present
        /\ present' = present \ {q.user}
        /\ client' = [d \in Clients |->
              IF d = c THEN Invalidating(keys)
              ELSE Overtakes(client[d], q.user, {userName[q.user]})]
        /\ IF q.old THEN Spoil({userName[q.user]} \ keys) ELSE UNCHANGED byName
        /\ UNCHANGED <<userName, unborn, title, byId>>

\* Nothing is invalidated, and the check has just cached that nobody has the name.
InsertUser(c) ==
    LET q == client[c]
    IN  /\ q.pc = "write" /\ q.op = "create" /\ ~Taken(q)
        /\ userName' = [userName EXCEPT ![q.user] = q.newName]
        /\ present' = present \union {q.user} /\ unborn' = unborn \ {q.user}
        /\ client' = [d \in Clients |->
              IF d = c THEN Ready ELSE Overtakes(client[d], q.user, {q.newName})]
        /\ Spoil({q.newName})
        /\ UNCHANGED <<title, byId>>

\* The row is gone, or the index refuses the name.
WriteRefused(c) ==
    LET q == client[c]
    IN  /\ q.pc = "write"
        /\ \/ q.op # "create" /\ q.user \notin present
           \/ Taken(q)
        /\ Ends(c)
        /\ UNCHANGED <<userName, present, unborn, title, byId, byName>>

\* Promise.all over the keys, which are deleted in any order.
InvalidateUserCache(c) ==
    /\ client[c].pc = "invalidate"
    /\ \E key \in client[c].keys :
          /\ client' = [client EXCEPT ![c] = Invalidating(@.keys \ {key})]
          /\ byId' = IF key = Self THEN NoProfile ELSE byId
          /\ byName' = [n \in UserNames |-> IF n = key THEN NoEntry ELSE byName[n]]
    /\ UNCHANGED <<userName, present, unborn, title>>

\* The process dies or a call throws: the keys that are left are nobody's.
ClientDies(c) ==
    /\ client[c] # Ready
    /\ Ends(c)
    /\ Spoil(client[c].keys)
    /\ byId' = [byId EXCEPT !.spoilt = @ \/ (byId.set /\ Self \in client[c].keys)]
    /\ UNCHANGED <<userName, present, unborn, title>>

EntryExpires ==
    /\ \/ byId.set /\ byId' = NoProfile /\ UNCHANGED byName
       \/ \E n \in UserNames : byName[n].set /\ byName' = [byName EXCEPT ![n] = NoEntry] /\ UNCHANGED byId
    /\ UNCHANGED <<userName, present, unborn, title, client>>

-----------------------------------------------------------------------------
ProfilesInit ==
    /\ \E n \in UserNames : userName = [u \in Accounts |-> IF u = Self THEN n ELSE Nobody]
    /\ present = {Self} /\ unborn = Others
    /\ title \in Titles
    /\ byId = NoProfile
    /\ byName = [n \in UserNames |-> NoEntry]
    /\ client = [c \in Clients |-> Ready]

Lookups(c) == GetUser(c) \/ LoadUser(c) \/ StoreUser(c) \/ GetOwner(c) \/ LoadOwner(c) \/ StoreOwner(c)

Starts(c) == Read(c) \/ UpdateMe(c) \/ AdminUpdateUser(c) \/ AdminDeleteUser(c) \/ AdminCreateUser(c)

Writes(c) == UpdateUser(c) \/ DeleteUser(c) \/ InsertUser(c) \/ WriteRefused(c)

ProfilesNext ==
    \/ \E c \in Clients : Starts(c) \/ Lookups(c) \/ Writes(c) \/ InvalidateUserCache(c) \/ ClientDies(c)
    \/ EntryExpires

ProfilesSpec == ProfilesInit /\ [][ProfilesNext]_profileVars

-----------------------------------------------------------------------------
(* Properties                                                                *)

Copies == [userName : UserNames \union {Nobody}, title : Titles \union {Nobody}]

Requests ==
    [pc : {"idle", "current", "storeUser", "check", "storeOwner", "write", "invalidate"},
     op : {"none", "read", "me", "update", "delete", "create"}, user : Accounts \union {Nobody},
     newName : UserNames \union {Nobody}, newTitle : Titles \union {Nobody}, current : Copies,
     old : BOOLEAN, found : Accounts \union {Nobody}, late : BOOLEAN,
     keys : SUBSET (UserNames \union {Self})]

\* The state keeps its shape, no two live users share a name, and only a write that is done has
\* keys to delete.
ProfilesTypeOK ==
    /\ userName \in [Accounts -> UserNames \union {Nobody}]
    /\ present \subseteq Accounts /\ unborn \subseteq Others \ present
    /\ \A u, v \in present : userName[u] = userName[v] /\ userName[u] # Nobody => u = v
    /\ title \in Titles
    /\ byId \in [set : BOOLEAN, copy : Copies, spoilt : BOOLEAN]
    /\ byName \in [UserNames -> [set : BOOLEAN, who : Accounts \union {Nobody}, spoilt : BOOLEAN]]
    /\ client \in [Clients -> Requests]
    /\ \A c \in Clients : client[c].keys # {} <=> client[c].pc = "invalidate"

\* A profile page finds the user who has the name, and nobody else: an entry that is wrong is
\* about to be deleted, or is spoilt: its load was overtaken, its name was given to a user by
\* admin-create-user, which deletes no key, or was given up in an update or deletion that knew
\* an older name of the user, or that died (invalidateUserCache).
NamesFindTheirUsers ==
    \A n \in UserNames :
        byName[n].set /\ byName[n].who # Owner(n) => byName[n].spoilt \/ WillInvalidate(n)

\* Nobody's title is changed by an update that asked for no such change, unless the user it read
\* was not true any more: update-me writes the title of that user back (update-me:35).
TitleIsKept ==
    [][title' # title =>
         \E c \in Clients : /\ client[c].pc = "write" /\ client'[c].pc # "write"
                            /\ client[c].newTitle = title' \/ client[c].old]_profileVars
=============================================================================
