----------------------------- MODULE CacheManager -----------------------------
(***************************************************************************)
(* Cache-aside reads of one Redis key (CacheManager.read) against use cases  *)
(* that change the database and then invalidate the key.                     *)
(*                                                                         *)
(* A reader that misses takes the key's lock, looks again, loads from the    *)
(* database and stores what it loaded; one that finds the lock taken polls   *)
(* and finally starts over.  The lock and the entry are Redis keys with a    *)
(* time to live: the lock may expire under its holder, and a holder that     *)
(* dies leaves it to expire.                                                *)
(***************************************************************************)
EXTENDS Integers, FiniteSets

CONSTANTS
    Readers,            \* concurrent executions of read
    NoReader,           \* the lock is free
    Updaters,           \* concurrent executions of an update with its invalidation
    Empty,              \* the key holds nothing
    MaxWaitAttempts,    \* maxWaitAttempts
    MaxVersion,         \* bound: changes of the database
    MaxDisturbances     \* bound: crashes, failed loaders, and entries that expire

ASSUME CacheAssumption ==
    /\ NoReader \notin Readers
    /\ Empty \notin Nat
    /\ MaxWaitAttempts \in Nat
    /\ MaxVersion \in Nat
    /\ MaxDisturbances \in Nat

VARIABLES
    db,             \* the version of the data in the database
    cache,          \* the version in the entry, or Empty; null data is a version too
    lock,           \* the reader whose token the lock key holds
    reader,         \* [Readers -> the execution of read]
    updater,        \* [Updaters -> what the execution has written but not invalidated]
    disturbances,   \* disturbances so far
    invalidated,    \* history: the newest version whose invalidation is complete
    tainted         \* history: the entry was loaded before an invalidation it survived

vars == <<db, cache, lock, reader, updater, disturbances, invalidated, tainted>>

-----------------------------------------------------------------------------
ReaderPcs   == {"idle", "get", "lock", "again", "load", "store", "release", "wait"}
HoldingPcs  == {"again", "load", "store", "release"}

\* got: what this read has loaded; attempt: polls so far; lost: the lock expired under the
\* reader; overtaken: an invalidation ran after the load.
Resting == [pc |-> "idle", got |-> Empty, attempt |-> 0, lost |-> FALSE, overtaken |-> FALSE]

Goes(r, pc) == reader' = [reader EXCEPT ![r].pc = pc]

\* A read comes in.
Read(r) ==
    /\ reader[r].pc = "idle"
    /\ Goes(r, "get")
    /\ UNCHANGED <<db, cache, lock, updater, disturbances, invalidated, tainted>>

\* A hit ends the read, a miss goes on to the lock.
Get(r) ==
    /\ reader[r].pc = "get"
    /\ IF cache # Empty THEN reader' = [reader EXCEPT ![r] = Resting] ELSE Goes(r, "lock")
    /\ UNCHANGED <<db, cache, lock, updater, disturbances, invalidated, tainted>>

\* SET key token PX ttl NX
AcquireLock(r) ==
    /\ reader[r].pc = "lock"
    /\ IF lock = NoReader
       THEN /\ lock' = r
            /\ Goes(r, "again")
       ELSE /\ reader' = [reader EXCEPT ![r].pc = "wait", ![r].attempt = 0]
            /\ UNCHANGED lock
    /\ UNCHANGED <<db, cache, updater, disturbances, invalidated, tainted>>

GetAgain(r) ==
    /\ reader[r].pc = "again"
    /\ Goes(r, IF cache # Empty THEN "release" ELSE "load")
    /\ UNCHANGED <<db, cache, lock, updater, disturbances, invalidated, tainted>>

\* loader()
Load(r) ==
    /\ reader[r].pc = "load"
    /\ reader' = [reader EXCEPT ![r].pc = "store", ![r].got = db]
    /\ UNCHANGED <<db, cache, lock, updater, disturbances, invalidated, tainted>>

Store(r) ==
    /\ reader[r].pc = "store"
    /\ cache' = reader[r].got
    /\ tainted' = reader[r].overtaken
    /\ Goes(r, "release")
    /\ UNCHANGED <<db, lock, updater, disturbances, invalidated>>

\* Mutant: the lock is deleted without a look at its token.
ReleaseAnyLock(r) ==
    /\ reader[r].pc = "release"
    /\ lock' = NoReader
    /\ reader' = [reader EXCEPT ![r] = Resting]
    /\ UNCHANGED <<db, cache, updater, disturbances, invalidated, tainted>>

\* The script deletes the lock only if it still holds the reader's token.
ReleaseLock(r) ==
    /\ reader[r].pc = "release"
    /\ lock' = IF lock = r THEN NoReader ELSE lock
    /\ reader' = [reader EXCEPT ![r] = Resting]
    /\ UNCHANGED <<db, cache, updater, disturbances, invalidated, tainted>>

\* Mutant: one poll too many.
PollOnceMore(r) ==
    /\ reader[r].pc = "wait"
    /\ \/ /\ reader[r].attempt > MaxWaitAttempts
          /\ reader' = [reader EXCEPT ![r].pc = "get", ![r].attempt = 0]
       \/ /\ reader[r].attempt <= MaxWaitAttempts
          /\ cache # Empty
          /\ reader' = [reader EXCEPT ![r] = Resting]
       \/ /\ reader[r].attempt <= MaxWaitAttempts
          /\ cache = Empty
          /\ reader' = [reader EXCEPT ![r].attempt = @ + 1]
    /\ UNCHANGED <<db, cache, lock, updater, disturbances, invalidated, tainted>>

\* A poll of waitAndRetry; after the last the read starts over.
Poll(r) ==
    /\ reader[r].pc = "wait"
    /\ \/ /\ reader[r].attempt >= MaxWaitAttempts
          /\ reader' = [reader EXCEPT ![r].pc = "get", ![r].attempt = 0]
       \/ /\ reader[r].attempt < MaxWaitAttempts
          /\ cache # Empty
          /\ reader' = [reader EXCEPT ![r] = Resting]
       \/ /\ reader[r].attempt < MaxWaitAttempts
          /\ cache = Empty
          /\ reader' = [reader EXCEPT ![r].attempt = @ + 1]
    /\ UNCHANGED <<db, cache, lock, updater, disturbances, invalidated, tainted>>

-----------------------------------------------------------------------------
(* Updates                                                                 *)

\* The use case's write commits.
Update(u) ==
    /\ updater[u] = Empty
    /\ db < MaxVersion
    /\ db' = db + 1
    /\ updater' = [updater EXCEPT ![u] = db + 1]
    /\ UNCHANGED <<cache, lock, reader, disturbances, invalidated, tainted>>

\* Mutant: the update deletes the key of another entry.
InvalidateOtherKey(u) ==
    /\ updater[u] # Empty
    /\ invalidated' = IF updater[u] > invalidated THEN updater[u] ELSE invalidated
    /\ updater' = [updater EXCEPT ![u] = Empty]
    /\ UNCHANGED <<db, cache, lock, reader, disturbances, tainted>>

\* DEL key
Invalidate(u) ==
    /\ updater[u] # Empty
    /\ cache' = Empty
    /\ tainted' = FALSE
    /\ reader' = [r \in Readers |->
                    [reader[r] EXCEPT !.overtaken = @ \/ reader[r].pc = "store"]]
    /\ invalidated' = IF updater[u] > invalidated THEN updater[u] ELSE invalidated
    /\ updater' = [updater EXCEPT ![u] = Empty]
    /\ UNCHANGED <<db, lock, disturbances>>

-----------------------------------------------------------------------------
(* Time and faults                                                         *)

\* Mutant: the lock has no time to live.
LockStays == FALSE /\ UNCHANGED vars

\* lockTtlMs is over, whatever its holder is doing.
LockExpires ==
    /\ lock # NoReader
    /\ lock' = NoReader
    /\ reader' = [reader EXCEPT ![lock].lost = @ \/ reader[lock].pc \in HoldingPcs]
    /\ UNCHANGED <<db, cache, updater, disturbances, invalidated, tainted>>

Disturbance == /\ disturbances < MaxDisturbances
               /\ disturbances' = disturbances + 1

\* ttlSeconds is over, or Redis evicts the entry.
EntryExpires ==
    /\ Disturbance
    /\ cache # Empty
    /\ cache' = Empty
    /\ tainted' = FALSE
    /\ UNCHANGED <<db, lock, reader, updater, invalidated>>

\* The loader or a Redis call throws under the lock: it is released, nothing is stored.
TryFails(r) ==
    /\ Disturbance
    /\ reader[r].pc \in {"again", "load", "store"}
    /\ Goes(r, "release")
    /\ UNCHANGED <<db, cache, lock, updater, invalidated, tainted>>

\* The process dies, or a Redis call throws outside the try block: a held lock stays until
\* it expires.
ReaderDies(r) ==
    /\ Disturbance
    /\ reader[r].pc # "idle"
    /\ reader' = [reader EXCEPT ![r] = Resting]
    /\ UNCHANGED <<db, cache, lock, updater, invalidated, tainted>>

\* An update dies between its write and its invalidation.
UpdaterDies(u) ==
    /\ Disturbance
    /\ updater[u] # Empty
    /\ updater' = [updater EXCEPT ![u] = Empty]
    /\ UNCHANGED <<db, cache, lock, reader, invalidated, tainted>>

-----------------------------------------------------------------------------
Init ==
    /\ db = 0
    /\ cache = Empty
    /\ lock = NoReader
    /\ reader = [r \in Readers |-> Resting]
    /\ updater = [u \in Updaters |-> Empty]
    /\ disturbances = 0
    /\ invalidated = 0
    /\ tainted = FALSE

Reading(r) == \/ Get(r) \/ AcquireLock(r) \/ GetAgain(r) \/ Load(r) \/ Store(r)
              \/ ReleaseLock(r) \/ Poll(r)

Next ==
    \/ \E r \in Readers : Read(r) \/ Reading(r) \/ TryFails(r) \/ ReaderDies(r)
    \/ \E u \in Updaters : Update(u) \/ Invalidate(u) \/ UpdaterDies(u)
    \/ LockExpires
    \/ EntryExpires

Spec == Init /\ [][Next]_vars

\* Reads and updates go on, and Redis expires the lock.
Fairness ==
    /\ \A r \in Readers : WF_vars(Reading(r))
    /\ \A u \in Updaters : WF_vars(Invalidate(u))
    /\ WF_vars(LockExpires)

FairSpec == Spec /\ Fairness

-----------------------------------------------------------------------------
(* Properties                                                              *)

Versions     == 0 .. MaxVersion
ReaderStates == [pc : ReaderPcs, got : Versions \union {Empty}, attempt : 0 .. MaxWaitAttempts,
                 lost : BOOLEAN, overtaken : BOOLEAN]

\* The state's shape: what is under way or invalidated has been written, and the lock is
\* somebody's.
TypeOK ==
    /\ db \in Versions
    /\ cache \in Versions \union {Empty}
    /\ lock \in Readers \union {NoReader}
    /\ reader \in [Readers -> ReaderStates]
    /\ updater \in [Updaters -> (1 .. db) \union {Empty}]
    /\ disturbances \in 0 .. MaxDisturbances
    /\ invalidated \in 0 .. db
    /\ tainted \in BOOLEAN

\* "so each key has only one loader running" (waitAndRetry): two readers hold the key's
\* lock at once only if its time to live ended under one of them. No reader takes or
\* releases a lock that is another's.
OneLoaderUnlessExpired ==
    \A r, s \in Readers :
        r # s /\ reader[r].pc \in HoldingPcs /\ reader[s].pc \in HoldingPcs
            => reader[r].lost \/ reader[s].lost

\* An entry older than a completed invalidation was loaded before and stored after it: no
\* other order of reads and updates leaves one behind (read, invalidate).
StaleOnlyIfOvertaken == cache # Empty /\ cache < invalidated => tainted

\* Every read comes to an end: its lock holder may die, its lock expire, its loader fail.
ReadEnds == \A r \in Readers : reader[r].pc = "get" ~> reader[r].pc = "idle"

\* "invalidate both users so APIs ... do not read stale data" (friend.service): with every
\* update invalidated and nothing having failed, the entry is what the database holds.
InvalidatedIsFresh ==
    disturbances = 0 /\ (\A u \in Updaters : updater[u] = Empty) => cache \in {Empty, db}
=============================================================================
