------------------------------ MODULE RedisProofs ------------------------------
(***************************************************************************)
(* Theorems about the four parts that MCRedis runs side by side: the cached    *)
(* key, the idempotency key, the video and the notifications of a recipient,     *)
(* for any number of readers, requests, executions and attempts.               *)
(***************************************************************************)
EXTENDS MCRedis, FiniteSetTheorems, SequenceTheorems, TLAPS

-----------------------------------------------------------------------------
(* CacheManager: the type invariant                                                      *)

\* A reader rests in a state of a reader.
LEMMA RestingType == Resting \in ReaderStates
BY CacheAssumption DEF Resting, ReaderStates, ReaderPcs

\* The steps of a reader that only move it on.
LEMMA GoesType ==
    ASSUME TypeOK, NEW r \in Readers, NEW next \in ReaderPcs, Goes(r, next)
    PROVE  reader' \in [Readers -> ReaderStates]
BY DEF TypeOK, Goes, ReaderStates

LEMMA RestsType ==
    ASSUME TypeOK, NEW r \in Readers, reader' = [reader EXCEPT ![r] = Resting]
    PROVE  reader' \in [Readers -> ReaderStates]
BY RestingType DEF TypeOK

\* The state keeps its shape (TypeOK), whatever the readers, the updates and Redis do.
THEOREM CacheTypeCorrect == Spec => []TypeOK
<1>1. Init => TypeOK
  <2> SUFFICES ASSUME Init PROVE TypeOK
    OBVIOUS
  <2>1. tainted \in BOOLEAN
    BY DEF Init
  <2>2. QED
    BY <2>1, RestingType, CacheAssumption DEF Init, TypeOK, Versions
<1>2. TypeOK /\ [Next]_vars => TypeOK'
  <2> SUFFICES ASSUME TypeOK, [Next]_vars PROVE TypeOK'
    OBVIOUS
  <2>1. ASSUME NEW r \in Readers, Read(r) PROVE TypeOK'
    BY <2>1, GoesType DEF Read, TypeOK, ReaderPcs
  <2>2. ASSUME NEW r \in Readers, Reading(r) PROVE TypeOK'
    <3>1. CASE Get(r)
      BY <3>1, GoesType, RestsType DEF Get, TypeOK, ReaderPcs
    <3>2. CASE AcquireLock(r)
      <4>1. reader' \in [Readers -> ReaderStates]
        BY <3>2, CacheAssumption DEF AcquireLock, Goes, TypeOK, ReaderStates, ReaderPcs
      <4>2. QED
        BY <3>2, <4>1 DEF AcquireLock, TypeOK
    <3>3. CASE GetAgain(r)
      BY <3>3, GoesType DEF GetAgain, TypeOK, ReaderPcs
    <3>4. CASE Load(r)
      <4>1. reader' \in [Readers -> ReaderStates]
        <5> DEFINE loaded == [reader[r] EXCEPT !.pc = "store", !.got = db]
        <5>1. loaded \in ReaderStates
          BY DEF TypeOK, ReaderStates, ReaderPcs
        <5>2. reader' = [reader EXCEPT ![r] = loaded]
          BY <3>4 DEF Load, TypeOK
        <5>3. QED
          BY <5>1, <5>2 DEF TypeOK
      <4>2. QED
        BY <3>4, <4>1 DEF Load, TypeOK
    <3>5. CASE Store(r)
      <4>1. reader' \in [Readers -> ReaderStates]
        BY <3>5, GoesType DEF Store, ReaderPcs
      <4>2. reader[r] \in ReaderStates
        BY DEF TypeOK
      <4>3. QED
        BY <3>5, <4>1, <4>2 DEF Store, TypeOK, ReaderStates
    <3>6. CASE ReleaseLock(r)
      BY <3>6, RestsType DEF ReleaseLock, TypeOK
    <3>7. CASE Poll(r)
      <4>1. reader' \in [Readers -> ReaderStates]
        BY <3>7, RestsType, CacheAssumption DEF Poll, TypeOK, ReaderStates, ReaderPcs
      <4>2. QED
        BY <3>7, <4>1 DEF Poll, TypeOK
    <3>8. QED
      BY <2>2, <3>1, <3>2, <3>3, <3>4, <3>5, <3>6, <3>7 DEF Reading
  <2>3. ASSUME NEW r \in Readers, TryFails(r) \/ ReaderDies(r) PROVE TypeOK'
    <3>1. reader' \in [Readers -> ReaderStates]
      BY <2>3, GoesType, RestsType DEF TryFails, ReaderDies, ReaderPcs
    <3>2. QED
      BY <2>3, <3>1, CacheAssumption DEF TryFails, ReaderDies, TypeOK, Disturbance
  <2>4. ASSUME NEW u \in Updaters, Update(u) PROVE TypeOK'
    BY <2>4, CacheAssumption DEF Update, TypeOK, Versions
  <2>5. ASSUME NEW u \in Updaters, Invalidate(u) PROVE TypeOK'
    <3>1. reader' \in [Readers -> ReaderStates]
      BY <2>5 DEF Invalidate, TypeOK, ReaderStates
    <3>2. tainted' \in BOOLEAN
      BY <2>5 DEF Invalidate
    <3>3. QED
      BY <2>5, <3>1, <3>2 DEF Invalidate, TypeOK
  <2>6. ASSUME NEW u \in Updaters, UpdaterDies(u) PROVE TypeOK'
    BY <2>6, CacheAssumption DEF UpdaterDies, TypeOK, Disturbance
  <2>7. CASE LockExpires
    <3>1. reader' \in [Readers -> ReaderStates]
      BY <2>7, ZenonT(60) DEF LockExpires, TypeOK, ReaderStates
    <3>2. QED
      BY <2>7, <3>1 DEF LockExpires, TypeOK
  <2>8. CASE EntryExpires
    <3>1. tainted' \in BOOLEAN
      BY <2>8 DEF EntryExpires
    <3>2. QED
      BY <2>8, <3>1, CacheAssumption DEF EntryExpires, TypeOK, Disturbance
  <2>9. CASE UNCHANGED vars
    BY <2>9 DEF vars, TypeOK
  <2>10. QED
    BY <2>1, <2>2, <2>3, <2>4, <2>5, <2>6, <2>7, <2>8, <2>9 DEF Next
<1>3. QED
  BY <1>1, <1>2, PTL DEF Spec

-----------------------------------------------------------------------------
(* The lock                                                                *)

\* A reader past the lock holds it until its time to live ends under the reader.
HeldUnlessExpired ==
    \A r \in Readers : reader[r].pc \in HoldingPcs /\ ~ reader[r].lost => lock = r

\* Two readers load or store at once only after a lock has expired under one of them
\* (acquireLock with NX, releaseLock with its token).
THEOREM OneLoader == Spec => []OneLoaderUnlessExpired
<1>1. Init => HeldUnlessExpired
  BY DEF Init, HeldUnlessExpired, Resting, HoldingPcs
<1>2. TypeOK /\ HeldUnlessExpired /\ [Next]_vars => HeldUnlessExpired'
  <2> SUFFICES ASSUME TypeOK, HeldUnlessExpired, [Next]_vars PROVE HeldUnlessExpired'
    OBVIOUS
  <2> USE CacheAssumption DEF TypeOK, ReaderStates, HeldUnlessExpired, HoldingPcs, Resting
  <2>1. ASSUME NEW r \in Readers, Read(r) \/ Reading(r) PROVE HeldUnlessExpired'
    <3>1. CASE Read(r) \/ Get(r) \/ GetAgain(r) \/ Load(r) \/ Store(r) \/ Poll(r)
      BY <3>1 DEF Read, Get, GetAgain, Load, Store, Poll, Goes
    <3>2. CASE AcquireLock(r)
      BY <3>2 DEF AcquireLock, Goes
    <3>3. CASE ReleaseLock(r)
      BY <3>3 DEF ReleaseLock
    <3>4. QED
      BY <2>1, <3>1, <3>2, <3>3 DEF Reading
  <2>2. ASSUME NEW r \in Readers, TryFails(r) \/ ReaderDies(r) PROVE HeldUnlessExpired'
    BY <2>2 DEF TryFails, ReaderDies, Goes
  <2>3. ASSUME NEW u \in Updaters, Update(u) \/ Invalidate(u) \/ UpdaterDies(u)
        PROVE HeldUnlessExpired'
    BY <2>3 DEF Update, Invalidate, UpdaterDies
  <2>4. CASE LockExpires
    BY <2>4 DEF LockExpires
  <2>5. CASE EntryExpires \/ UNCHANGED vars
    BY <2>5 DEF EntryExpires, vars
  <2>6. QED
    BY <2>1, <2>2, <2>3, <2>4, <2>5 DEF Next
<1>3. HeldUnlessExpired => OneLoaderUnlessExpired
  BY DEF HeldUnlessExpired, OneLoaderUnlessExpired
<1>4. QED
  BY <1>1, <1>2, <1>3, CacheTypeCorrect, PTL DEF Spec

-----------------------------------------------------------------------------
(* Stale entries                                                           *)

\* What a reader is about to store is no older than the last completed invalidation,
\* unless that invalidation has overtaken it; the same goes for the entry.
LoadedFresh ==
    /\ \A r \in Readers : /\ reader[r].pc = "store"
                          /\ ~ reader[r].overtaken
                          /\ reader[r].got # Empty
                          => reader[r].got >= invalidated
    /\ cache # Empty /\ ~ tainted => cache >= invalidated

\* Only a load before and a store after an invalidation leaves an entry that is older
\* than the invalidation (read, invalidate).
THEOREM StaleNeedsOvertaking == Spec => []StaleOnlyIfOvertaken
<1>1. Init => LoadedFresh
  BY DEF Init, LoadedFresh, Resting
<1>2. TypeOK /\ LoadedFresh /\ [Next]_vars => LoadedFresh'
  <2> SUFFICES ASSUME TypeOK, LoadedFresh, [Next]_vars PROVE LoadedFresh'
    OBVIOUS
  <2> USE CacheAssumption DEF TypeOK, Versions, ReaderStates, LoadedFresh, Resting
  <2>1. ASSUME NEW r \in Readers, Read(r) \/ Reading(r) PROVE LoadedFresh'
    <3>1. CASE Read(r) \/ Get(r) \/ AcquireLock(r) \/ GetAgain(r)
      BY <3>1 DEF Read, Get, AcquireLock, GetAgain, Goes
    <3>2. CASE Load(r)
      BY <3>2 DEF Load
    <3>3. CASE Store(r)
      BY <3>3 DEF Store, Goes
    <3>4. CASE ReleaseLock(r) \/ Poll(r)
      BY <3>4 DEF ReleaseLock, Poll
    <3>5. QED
      BY <2>1, <3>1, <3>2, <3>3, <3>4 DEF Reading
  <2>2. ASSUME NEW r \in Readers, TryFails(r) \/ ReaderDies(r) PROVE LoadedFresh'
    BY <2>2 DEF TryFails, ReaderDies, Goes
  <2>3. ASSUME NEW u \in Updaters, Invalidate(u) PROVE LoadedFresh'
    BY <2>3 DEF Invalidate
  <2>4. ASSUME NEW u \in Updaters, Update(u) \/ UpdaterDies(u) PROVE LoadedFresh'
    BY <2>4 DEF Update, UpdaterDies
  <2>5. CASE LockExpires
    BY <2>5 DEF LockExpires
  <2>6. CASE EntryExpires \/ UNCHANGED vars
    BY <2>6 DEF EntryExpires, vars
  <2>7. QED
    BY <2>1, <2>2, <2>3, <2>4, <2>5, <2>6 DEF Next
<1>3. TypeOK /\ LoadedFresh => StaleOnlyIfOvertaken
  BY CacheAssumption DEF TypeOK, Versions, ReaderStates, LoadedFresh, StaleOnlyIfOvertaken
<1>4. QED
  BY <1>1, <1>2, <1>3, CacheTypeCorrect, PTL DEF Spec

-----------------------------------------------------------------------------
(* Types and the lock                                                      *)

\* The fields of the state without the two facts that relate them.
RequestFields ==
    /\ entry \in Requests \union {NoRequest}
    /\ keyLock \in Requests \union {NoRequest}
    /\ request \in [Requests -> RequestState]
    /\ expired \in BOOLEAN

\* Only the lock's holder is between the lock and the end.
HolderOnly == \A r \in Requests : request[r].pc \in HeldPcs => keyLock = r

\* A handler runs while its request waits for it, or after the timeout; a result to be
\* stored, or stored, is that of a handler that succeeded.
HandlerCorrect ==
    /\ \A r \in Requests : request[r].handler = "running" =>
                             request[r].pc = "run" \/ request[r].answer = "timeout"
    /\ \A r \in Requests : request[r].pc = "run" => request[r].handler = "running"
    /\ \A r \in Requests : request[r].pc = "store" => request[r].handler = "succeeded"
    /\ \A r \in Requests : request[r].pc \in {"idle", "lookup", "lock"} =>
                             request[r].handler = "none"
    /\ entry # NoRequest => request[entry].handler = "succeeded"

IdempotencyInv == RequestFields /\ HolderOnly /\ HandlerCorrect

\* The values that the actions use are values of the fields.
LEMMA RequestValues ==
    /\ \A x \in {"idle", "lookup", "lock", "done", "run", "store", "release"} : x \in Pcs
    /\ \A x \in {"none", "running", "succeeded", "failed"} : x \in HandlerPcs
    /\ \A x \in {"none", "conflict", "busy", "replay", "result", "error", "timeout"} : x \in Answers
BY DEF Pcs, HeldPcs, HandlerPcs, Answers

LEMMA OneRequestType ==
    ASSUME RequestFields, NEW r \in Requests
    PROVE  /\ request[r] \in RequestState
           /\ request[r].pc \in Pcs /\ request[r].handler \in HandlerPcs
           /\ request[r].answer \in Answers
BY DEF RequestFields, RequestState

LEMMA MovesType ==
    ASSUME RequestFields, NEW r \in Requests, NEW next \in Pcs, NEW handler \in HandlerPcs,
           NEW answer \in Answers, Moves(r, next, handler, answer)
    PROVE  /\ request' \in [Requests -> RequestState]
           /\ request'[r].pc = next
           /\ request'[r].handler = handler
           /\ request'[r].answer = answer
           /\ request'[r].late = request[r].late
           /\ request'[r].of = request[r].of
           /\ request'[r].body = request[r].body
           /\ \A s \in Requests : s # r => request'[s] = request[s]
<1> DEFINE moved == [request[r] EXCEPT !.pc = next, !.handler = handler, !.answer = answer]
<1>1. moved \in RequestState
  BY DEF RequestFields, RequestState
<1>2. request' = [request EXCEPT ![r] = moved]
  BY DEF Moves, RequestFields
<1>3. request[r] \in RequestState
  BY DEF RequestFields
<1> QED
  BY <1>1, <1>2, <1>3 DEF RequestFields, RequestState

-----------------------------------------------------------------------------
(* The three parts, action by action                                       *)

LEMMA InitIdempotencyInv == IdempotencyInit => IdempotencyInv
<1> SUFFICES ASSUME IdempotencyInit PROVE IdempotencyInv
  OBVIOUS
<1>1. expired \in BOOLEAN
  BY DEF IdempotencyInit
<1>2. \A b \in Bodies : /\ Request(b) \in RequestState
                       /\ Request(b).pc = "idle" /\ Request(b).handler = "none"
  BY RequestValues DEF Request, RequestState
<1>3. request \in [Requests -> RequestState]
  BY <1>2 DEF IdempotencyInit
<1>4. \A r \in Requests : request[r].pc = "idle" /\ request[r].handler = "none"
  BY <1>2 DEF IdempotencyInit
<1> QED
  BY <1>1, <1>3, <1>4 DEF IdempotencyInit, IdempotencyInv, RequestFields, HolderOnly, HandlerCorrect, HeldPcs

LEMMA LookUpKeeps ==
    ASSUME IdempotencyInv, NEW r \in Requests, LookUp(r)
    PROVE  IdempotencyInv'
<1>1. request' \in [Requests -> RequestState]
  <2>1. CASE Moves(r, "done", "none", "conflict")
    BY <2>1, MovesType, RequestValues DEF IdempotencyInv
  <2>2. CASE request' = [request EXCEPT ![r].pc = "lock"]
    BY <2>2, RequestValues DEF IdempotencyInv, RequestFields, RequestState
  <2>3. CASE request' = [request EXCEPT ![r].pc = "done", ![r].answer = "replay", ![r].of = entry]
    <3> DEFINE replayed == [request[r] EXCEPT !.pc = "done", !.answer = "replay", !.of = entry]
    <3>1. replayed \in RequestState
      BY RequestValues DEF IdempotencyInv, RequestFields, RequestState
    <3>2. request' = [request EXCEPT ![r] = replayed]
      BY <2>3 DEF IdempotencyInv, RequestFields
    <3>3. QED
      BY <3>1, <3>2 DEF IdempotencyInv, RequestFields
  <2>4. QED
    BY <2>1, <2>2, <2>3 DEF LookUp
<1>2. RequestFields'
  BY <1>1 DEF LookUp, IdempotencyInv, RequestFields
<1>3. HolderOnly'
  BY IdempotencyAssumption DEF LookUp, IdempotencyInv, RequestFields, RequestState, HolderOnly, HandlerCorrect, HeldPcs, Moves
<1>4. HandlerCorrect'
  BY IdempotencyAssumption DEF LookUp, IdempotencyInv, RequestFields, RequestState, HolderOnly, HandlerCorrect, HeldPcs, Moves
<1> QED
  BY <1>2, <1>3, <1>4 DEF IdempotencyInv

LEMMA AcquireLockKeeps ==
    ASSUME IdempotencyInv, NEW r \in Requests, AcquireKeyLock(r)
    PROVE  IdempotencyInv'
<1>1. request' \in [Requests -> RequestState]
  BY MovesType, OneRequestType, RequestValues DEF AcquireKeyLock, IdempotencyInv
<1>2. RequestFields'
  BY <1>1 DEF AcquireKeyLock, IdempotencyInv, RequestFields
<1>3. HolderOnly'
  BY IdempotencyAssumption DEF AcquireKeyLock, IdempotencyInv, RequestFields, RequestState, HolderOnly, HandlerCorrect, HeldPcs, Moves
<1>4. HandlerCorrect'
  BY IdempotencyAssumption DEF AcquireKeyLock, IdempotencyInv, RequestFields, RequestState, HolderOnly, HandlerCorrect, HeldPcs, Moves
<1> QED
  BY <1>2, <1>3, <1>4 DEF IdempotencyInv

LEMMA HandlerSucceedsKeeps ==
    ASSUME IdempotencyInv, NEW r \in Requests, HandlerSucceeds(r)
    PROVE  IdempotencyInv'
<1>1. request' \in [Requests -> RequestState]
  BY MovesType, OneRequestType, RequestValues DEF HandlerSucceeds, IdempotencyInv
<1>2. RequestFields'
  BY <1>1 DEF HandlerSucceeds, IdempotencyInv, RequestFields
<1>3. HolderOnly'
  BY IdempotencyAssumption DEF HandlerSucceeds, IdempotencyInv, RequestFields, RequestState, HolderOnly, HandlerCorrect, HeldPcs, Moves
<1>4. HandlerCorrect'
  BY IdempotencyAssumption DEF HandlerSucceeds, IdempotencyInv, RequestFields, RequestState, HolderOnly, HandlerCorrect, HeldPcs, Moves
<1> QED
  BY <1>2, <1>3, <1>4 DEF IdempotencyInv

LEMMA HandlerFailsKeeps ==
    ASSUME IdempotencyInv, NEW r \in Requests, HandlerFails(r)
    PROVE  IdempotencyInv'
<1>1. request' \in [Requests -> RequestState]
  BY MovesType, OneRequestType, RequestValues DEF HandlerFails, IdempotencyInv
<1>2. RequestFields'
  BY <1>1 DEF HandlerFails, IdempotencyInv, RequestFields
<1>3. HolderOnly'
  BY IdempotencyAssumption DEF HandlerFails, IdempotencyInv, RequestFields, RequestState, HolderOnly, HandlerCorrect, HeldPcs, Moves
<1>4. HandlerCorrect'
  BY IdempotencyAssumption DEF HandlerFails, IdempotencyInv, RequestFields, RequestState, HolderOnly, HandlerCorrect, HeldPcs, Moves
<1> QED
  BY <1>2, <1>3, <1>4 DEF IdempotencyInv

LEMMA TimesOutKeeps ==
    ASSUME IdempotencyInv, NEW r \in Requests, TimesOut(r)
    PROVE  IdempotencyInv'
<1>1. request' \in [Requests -> RequestState]
  BY MovesType, OneRequestType, RequestValues DEF TimesOut, IdempotencyInv
<1>2. RequestFields'
  BY <1>1 DEF TimesOut, IdempotencyInv, RequestFields
<1>3. HolderOnly'
  BY IdempotencyAssumption DEF TimesOut, IdempotencyInv, RequestFields, RequestState, HolderOnly, HandlerCorrect, HeldPcs, Moves
<1>4. HandlerCorrect'
  BY IdempotencyAssumption DEF TimesOut, IdempotencyInv, RequestFields, RequestState, HolderOnly, HandlerCorrect, HeldPcs, Moves
<1> QED
  BY <1>2, <1>3, <1>4 DEF IdempotencyInv

LEMMA StoreKeeps ==
    ASSUME IdempotencyInv, NEW r \in Requests, StoreResult(r)
    PROVE  IdempotencyInv'
<1>1. request' \in [Requests -> RequestState]
  <2>1. PICK answer \in {"result", "error"} :
          request' = [s \in Requests |->
                        IF s = r THEN [request[r] EXCEPT !.pc = "release", !.answer = answer]
                        ELSE [request[s] EXCEPT !.late = @ \/ request[s].pc = "lock"]]
    BY DEF StoreResult
  <2>2. [request[r] EXCEPT !.pc = "release", !.answer = answer] \in RequestState
    BY RequestValues DEF IdempotencyInv, RequestFields, RequestState
  <2>3. \A s \in Requests :
          [request[s] EXCEPT !.late = request[s].late \/ request[s].pc = "lock"] \in RequestState
    BY DEF IdempotencyInv, RequestFields, RequestState
  <2>4. QED
    BY <2>1, <2>2, <2>3
<1>2. RequestFields'
  BY <1>1 DEF StoreResult, IdempotencyInv, RequestFields
<1>3. HolderOnly'
  BY IdempotencyAssumption DEF StoreResult, IdempotencyInv, RequestFields, RequestState, HolderOnly, HandlerCorrect, HeldPcs
<1>4. HandlerCorrect'
  <2>1. \A s \in Requests : s # r => /\ request'[s].pc = request[s].pc
                                     /\ request'[s].handler = request[s].handler
                                     /\ request'[s].answer = request[s].answer
    BY DEF StoreResult, IdempotencyInv, RequestFields, RequestState
  <2>2. /\ request'[r].pc = "release"
        /\ request'[r].handler = "succeeded"
        /\ entry' = r
    BY DEF StoreResult, IdempotencyInv, RequestFields, RequestState, HandlerCorrect
  <2>3. QED
    BY <2>1, <2>2 DEF IdempotencyInv, HandlerCorrect
<1> QED
  BY <1>2, <1>3, <1>4 DEF IdempotencyInv

LEMMA StoreFailsKeeps ==
    ASSUME IdempotencyInv, NEW r \in Requests, StoreFails(r)
    PROVE  IdempotencyInv'
<1>1. request' \in [Requests -> RequestState]
  BY MovesType, OneRequestType, RequestValues DEF StoreFails, IdempotencyInv
<1>2. RequestFields'
  BY <1>1 DEF StoreFails, IdempotencyInv, RequestFields
<1>3. HolderOnly'
  BY IdempotencyAssumption DEF StoreFails, IdempotencyInv, RequestFields, RequestState, HolderOnly, HandlerCorrect, HeldPcs, Moves
<1>4. HandlerCorrect'
  BY IdempotencyAssumption DEF StoreFails, IdempotencyInv, RequestFields, RequestState, HolderOnly, HandlerCorrect, HeldPcs, Moves
<1> QED
  BY <1>2, <1>3, <1>4 DEF IdempotencyInv

LEMMA ReleaseLockKeeps ==
    ASSUME IdempotencyInv, NEW r \in Requests, ReleaseKeyLock(r)
    PROVE  IdempotencyInv'
<1>1. request' \in [Requests -> RequestState]
  BY RequestValues DEF ReleaseKeyLock, IdempotencyInv, RequestFields, RequestState
<1>2. RequestFields'
  BY <1>1 DEF ReleaseKeyLock, IdempotencyInv, RequestFields
<1>3. HolderOnly'
  BY IdempotencyAssumption DEF ReleaseKeyLock, IdempotencyInv, RequestFields, RequestState, HolderOnly, HandlerCorrect, HeldPcs
<1>4. HandlerCorrect'
  BY IdempotencyAssumption DEF ReleaseKeyLock, IdempotencyInv, RequestFields, RequestState, HolderOnly, HandlerCorrect, HeldPcs
<1> QED
  BY <1>2, <1>3, <1>4 DEF IdempotencyInv

LEMMA DiesKeeps ==
    ASSUME IdempotencyInv, NEW r \in Requests, Dies(r)
    PROVE  IdempotencyInv'
<1>1. request' \in [Requests -> RequestState]
  BY MovesType, OneRequestType, RequestValues DEF Dies, IdempotencyInv
<1>2. RequestFields'
  BY <1>1 DEF Dies, IdempotencyInv, RequestFields
<1>3. HolderOnly'
  BY IdempotencyAssumption DEF Dies, IdempotencyInv, RequestFields, RequestState, HolderOnly, HandlerCorrect, HeldPcs, Moves
<1>4. HandlerCorrect'
  BY IdempotencyAssumption DEF Dies, IdempotencyInv, RequestFields, RequestState, HolderOnly, HandlerCorrect, HeldPcs, Moves
<1> QED
  BY <1>2, <1>3, <1>4 DEF IdempotencyInv

LEMMA ArriveKeeps ==
    ASSUME IdempotencyInv, NEW r \in Requests, Arrive(r)
    PROVE  IdempotencyInv'
<1>1. request' \in [Requests -> RequestState]
  BY RequestValues DEF Arrive, IdempotencyInv, RequestFields, RequestState
<1>2. RequestFields'
  BY <1>1 DEF Arrive, IdempotencyInv, RequestFields
<1>3. HolderOnly'
  BY IdempotencyAssumption DEF Arrive, IdempotencyInv, RequestFields, RequestState, HolderOnly, HandlerCorrect, HeldPcs
<1>4. HandlerCorrect'
  BY IdempotencyAssumption DEF Arrive, IdempotencyInv, RequestFields, RequestState, HolderOnly, HandlerCorrect, HeldPcs
<1> QED
  BY <1>2, <1>3, <1>4 DEF IdempotencyInv

LEMMA TimeKeeps ==
    ASSUME IdempotencyInv, KeyLockExpires \/ ResultExpires
    PROVE  IdempotencyInv'
<1>1. expired' \in BOOLEAN
  BY DEF KeyLockExpires, ResultExpires, IdempotencyInv, RequestFields
<1> QED
  BY <1>1, IdempotencyAssumption
     DEF KeyLockExpires, ResultExpires, IdempotencyInv, RequestFields, HolderOnly, HandlerCorrect, HeldPcs

LEMMA IdempotencyInvHolds == IdempotencySpec => []IdempotencyInv
<1>1. IdempotencyInv /\ [IdempotencyNext]_idempotencyVars => IdempotencyInv'
  <2> SUFFICES ASSUME IdempotencyInv, [IdempotencyNext]_idempotencyVars PROVE IdempotencyInv'
    OBVIOUS
  <2>1. ASSUME NEW r \in Requests, Handling(r) \/ Dies(r) \/ Arrive(r) PROVE IdempotencyInv'
    BY <2>1, LookUpKeeps, AcquireLockKeeps, HandlerSucceedsKeeps, HandlerFailsKeeps,
       TimesOutKeeps, StoreKeeps, StoreFailsKeeps, ReleaseLockKeeps, DiesKeeps, ArriveKeeps
       DEF Handling
  <2>2. CASE UNCHANGED idempotencyVars
    BY <2>2 DEF idempotencyVars, IdempotencyInv, RequestFields, HolderOnly, HandlerCorrect
  <2> QED
    BY <2>1, <2>2, TimeKeeps DEF IdempotencyNext
<1> QED
  BY <1>1, InitIdempotencyInv, PTL DEF IdempotencySpec

\* The state keeps its shape, and only the lock's holder is past the lock.
THEOREM IdempotencyTypeCorrect == IdempotencySpec => []IdempotencyTypeOK
<1>1. IdempotencyInv => IdempotencyTypeOK
  BY DEF IdempotencyInv, RequestFields, HolderOnly, HandlerCorrect, IdempotencyTypeOK
<1> QED
  BY <1>1, IdempotencyInvHolds, PTL

\* Two handlers run at once only after a timeout (intercept of both interceptors): whoever
\* runs without one is past the lock, and holds it.
THEOREM OneRunsBeforeTimeout == IdempotencySpec => []OneRunsUnlessTimedOut
<1>1. IdempotencyInv => OneRunsUnlessTimedOut
  BY DEF IdempotencyInv, HolderOnly, HandlerCorrect, HeldPcs, OneRunsUnlessTimedOut
<1> QED
  BY <1>1, IdempotencyInvHolds, PTL

-----------------------------------------------------------------------------
(* Replays                                                                 *)

\* What a request replays was stored by a handler that succeeded, which it stays.
Replayed ==
    \A r \in Requests :
        request[r].answer = "replay"
            => /\ request[r].of \in Requests
               /\ request[request[r].of].handler = "succeeded"
               /\ request[request[r].of].body = request[r].body
               /\ request[r].pc = "done" /\ request[r].handler # "running"

\* No step changes a body, nor the outcome of a handler that has ended.
LEMMA PastStays ==
    ASSUME IdempotencyInv, [IdempotencyNext]_idempotencyVars, NEW r \in Requests
    PROVE  /\ request'[r].body = request[r].body
           /\ request[r].handler = "succeeded" => request'[r].handler = "succeeded"
<1>1. ASSUME NEW s \in Requests, Handling(s) \/ Dies(s) \/ Arrive(s)
      PROVE  /\ request'[r].body = request[r].body
             /\ request[r].handler = "succeeded" => request'[r].handler = "succeeded"
  <2>1. CASE LookUp(s) \/ AcquireKeyLock(s)
    BY <2>1 DEF LookUp, AcquireKeyLock, Moves, IdempotencyInv, RequestFields, RequestState, HandlerCorrect
  <2>2. CASE HandlerSucceeds(s) \/ HandlerFails(s) \/ TimesOut(s)
    BY <2>2 DEF HandlerSucceeds, HandlerFails, TimesOut, Moves, IdempotencyInv, RequestFields, RequestState
  <2>3. CASE StoreResult(s)
    <3>1. CASE r = s
      BY <2>3, <3>1 DEF StoreResult, IdempotencyInv, RequestFields, RequestState
    <3>2. CASE r # s
      BY <2>3, <3>2 DEF StoreResult, IdempotencyInv, RequestFields, RequestState
    <3> QED
      BY <3>1, <3>2
  <2>4. CASE StoreFails(s) \/ ReleaseKeyLock(s)
    BY <2>4 DEF StoreFails, ReleaseKeyLock, Moves, IdempotencyInv, RequestFields, RequestState
  <2>5. CASE Dies(s) \/ Arrive(s)
    BY <2>5 DEF Dies, Arrive, Moves, IdempotencyInv, RequestFields, RequestState
  <2>6. QED
    BY <1>1, <2>1, <2>2, <2>3, <2>4, <2>5 DEF Handling
<1>2. CASE KeyLockExpires \/ ResultExpires \/ UNCHANGED idempotencyVars
  BY <1>2 DEF KeyLockExpires, ResultExpires, idempotencyVars
<1> QED
  BY <1>1, <1>2 DEF IdempotencyNext

\* Only a look-up makes an answer a replay, and only a request that has ended has one.
LEMMA ReplayedKept ==
    ASSUME IdempotencyInv, Replayed, [IdempotencyNext]_idempotencyVars, NEW r \in Requests, request'[r].answer = "replay",
           request[r].answer = "replay"
    PROVE  request'[r] = request[r]
<1>1. request[r].pc = "done" /\ request[r].handler # "running"
  BY DEF Replayed
<1>2. ASSUME NEW s \in Requests, Handling(s) \/ Dies(s) \/ Arrive(s)
      PROVE  request'[r] = request[r]
  <2>1. CASE LookUp(s) \/ AcquireKeyLock(s)
    BY <2>1, <1>1 DEF LookUp, AcquireKeyLock, Moves, IdempotencyInv, RequestFields, RequestState
  <2>2. CASE HandlerSucceeds(s) \/ HandlerFails(s) \/ TimesOut(s)
    BY <2>2, <1>1 DEF HandlerSucceeds, HandlerFails, TimesOut, Moves, IdempotencyInv, RequestFields, RequestState
  <2>3. CASE StoreResult(s)
    BY <2>3, <1>1 DEF StoreResult, IdempotencyInv, RequestFields, RequestState
  <2>4. CASE StoreFails(s) \/ ReleaseKeyLock(s)
    BY <2>4, <1>1 DEF StoreFails, ReleaseKeyLock, Moves, IdempotencyInv, RequestFields, RequestState
  <2>5. CASE Dies(s) \/ Arrive(s)
    BY <2>5, <1>1 DEF Dies, Arrive, Moves, IdempotencyInv, RequestFields, RequestState
  <2>6. QED
    BY <1>2, <2>1, <2>2, <2>3, <2>4, <2>5 DEF Handling
<1>3. CASE KeyLockExpires \/ ResultExpires \/ UNCHANGED idempotencyVars
  BY <1>3 DEF KeyLockExpires, ResultExpires, idempotencyVars
<1> QED
  BY <1>2, <1>3 DEF IdempotencyNext

LEMMA ReplayNew ==
    ASSUME IdempotencyInv, [IdempotencyNext]_idempotencyVars, NEW r \in Requests, request'[r].answer = "replay",
           request[r].answer # "replay"
    PROVE  /\ request'[r].of \in Requests
           /\ request'[request'[r].of].handler = "succeeded"
           /\ request'[request'[r].of].body = request'[r].body
           /\ request'[r].pc = "done" /\ request'[r].handler # "running"
<1>1. ASSUME NEW s \in Requests, Handling(s) \/ Dies(s) \/ Arrive(s)
      PROVE  r = s /\ LookUp(r)
  <2>1. CASE LookUp(s)
    BY <2>1 DEF LookUp, Moves, IdempotencyInv, RequestFields, RequestState
  <2>2. CASE AcquireKeyLock(s) \/ HandlerSucceeds(s) \/ HandlerFails(s) \/ TimesOut(s)
    BY <2>2 DEF AcquireKeyLock, HandlerSucceeds, HandlerFails, TimesOut, Moves, IdempotencyInv, RequestFields, RequestState
  <2>3. CASE StoreResult(s)
    BY <2>3 DEF StoreResult, IdempotencyInv, RequestFields, RequestState
  <2>4. CASE StoreFails(s) \/ ReleaseKeyLock(s) \/ Dies(s) \/ Arrive(s)
    BY <2>4 DEF StoreFails, ReleaseKeyLock, Dies, Arrive, Moves, IdempotencyInv, RequestFields, RequestState
  <2>5. QED
    BY <1>1, <2>1, <2>2, <2>3, <2>4 DEF Handling
<1>2. LookUp(r)
  BY <1>1 DEF IdempotencyNext, KeyLockExpires, ResultExpires, idempotencyVars
<1>3. /\ entry \in Requests
      /\ request[entry].body = request[r].body
      /\ request' = [request EXCEPT ![r].pc = "done", ![r].answer = "replay", ![r].of = entry]
  BY <1>2 DEF LookUp, Moves, IdempotencyInv, RequestFields, RequestState
<1>4. request[r].handler = "none" /\ request[entry].handler = "succeeded"
  BY <1>2, <1>3, IdempotencyAssumption DEF LookUp, IdempotencyInv, HandlerCorrect
<1>5. entry # r
  BY <1>4
<1> QED
  BY <1>3, <1>4, <1>5 DEF IdempotencyInv, RequestFields, RequestState

\* A request is only ever given the result of the same request (LookUp).
THEOREM ReplaysAreOfTheSame == IdempotencySpec => []ReplayOfSameRequest
<1>1. IdempotencyInit => Replayed
  BY DEF IdempotencyInit, Request, Replayed
<1>2. IdempotencyInv /\ Replayed /\ [IdempotencyNext]_idempotencyVars => Replayed'
  <2> SUFFICES ASSUME IdempotencyInv, Replayed, [IdempotencyNext]_idempotencyVars, NEW r \in Requests,
                      request'[r].answer = "replay"
               PROVE  /\ request'[r].of \in Requests
                      /\ request'[request'[r].of].handler = "succeeded"
                      /\ request'[request'[r].of].body = request'[r].body
                      /\ request'[r].pc = "done" /\ request'[r].handler # "running"
    BY DEF Replayed
  <2>1. CASE request[r].answer = "replay"
    BY <2>1, ReplayedKept, PastStays DEF Replayed
  <2>2. CASE request[r].answer # "replay"
    BY <2>2, ReplayNew
  <2> QED
    BY <2>1, <2>2
<1>3. Replayed => ReplayOfSameRequest
  BY DEF Replayed, ReplayOfSameRequest
<1> QED
  BY <1>1, <1>2, <1>3, IdempotencyInvHolds, PTL DEF IdempotencySpec

-----------------------------------------------------------------------------
(* One answer                                                              *)

\* While a result is stored nobody without one gets past the look-up; who has, was late.
StoredOrLate ==
    \A r \in Requests :
        request[r].answer = "result"
            => \/ expired
               \/ /\ entry # NoRequest
                  /\ \A s \in Requests :
                        s # r /\ (request[s].pc \in {"lock", "run", "store"}
                                    \/ request[s].answer = "result")
                            => request[s].late \/ request[r].late

LEMMA StoredOrLateKept ==
    ASSUME IdempotencyInv, StoredOrLate, NEW q \in Requests, Handling(q) \/ Dies(q) \/ Arrive(q)
    PROVE  StoredOrLate'
<1> USE IdempotencyAssumption DEF IdempotencyInv, RequestFields, RequestState, StoredOrLate
<1>1. CASE LookUp(q)
  BY <1>1 DEF LookUp, Moves
<1>2. CASE AcquireKeyLock(q)
  BY <1>2 DEF AcquireKeyLock, Moves
<1>3. CASE HandlerSucceeds(q) \/ HandlerFails(q)
  BY <1>3 DEF HandlerSucceeds, HandlerFails, Moves
<1>4. CASE TimesOut(q) \/ StoreFails(q) \/ ReleaseKeyLock(q)
  BY <1>4 DEF TimesOut, StoreFails, ReleaseKeyLock, Moves
<1>5. CASE Dies(q) \/ Arrive(q)
  BY <1>5 DEF Dies, Arrive, Moves
<1>6. CASE StoreResult(q)
  <2>1. PICK answer \in {"result", "error"} :
          request' = [s \in Requests |->
                        IF s = q THEN [request[q] EXCEPT !.pc = "release", !.answer = answer]
                        ELSE [request[s] EXCEPT !.late = @ \/ request[s].pc = "lock"]]
    BY <1>6 DEF StoreResult
  <2>2. /\ request'[q].answer = answer /\ request'[q].pc = "release"
        /\ request'[q].late = request[q].late
        /\ request[q].pc = "store" /\ entry' = q /\ UNCHANGED expired
    <3>1. request'[q] = [request[q] EXCEPT !.pc = "release", !.answer = answer]
      BY <2>1
    <3>2. request[q] \in RequestState
      BY DEF IdempotencyInv
    <3>3. request'[q].late = request[q].late
      BY <3>1, <3>2, Zenon DEF RequestState
    <3>4. request'[q].answer = answer /\ request'[q].pc = "release"
      BY <3>1, <3>2
    <3> QED
      BY <1>6, <3>3, <3>4 DEF StoreResult
  <2>3. \A s \in Requests : s # q =>
          /\ request'[s].answer = request[s].answer
          /\ request'[s].pc = request[s].pc
          /\ request'[s].late = (request[s].late \/ request[s].pc = "lock")
    BY <2>1
  <2>4. \A s \in Requests : s # q => request[s].pc \notin {"run", "store"}
    BY <2>2 DEF HolderOnly, HeldPcs
  <2>5. SUFFICES ASSUME NEW r \in Requests, request'[r].answer = "result", ~ expired'
                 PROVE  /\ entry' # NoRequest
                        /\ \A s \in Requests :
                              s # r /\ (request'[s].pc \in {"lock", "run", "store"}
                                          \/ request'[s].answer = "result")
                                  => request'[s].late \/ request'[r].late
    BY DEF StoredOrLate
  <2>6. CASE r = q
    BY <2>2, <2>3, <2>4, <2>5, <2>6
  <2>7. CASE r # q
    BY <2>2, <2>3, <2>4, <2>5, <2>7
  <2> QED
    BY <2>6, <2>7
<1> QED
  BY <1>1, <1>2, <1>3, <1>4, <1>5, <1>6 DEF Handling

\* The handler is run and answered for twice only when a look-up and a store have crossed
\* or a result has expired (intercept).
THEOREM AnsweredOnce == IdempotencySpec => []AnsweredOnceUnlessLate
<1>1. IdempotencyInit => StoredOrLate
  BY DEF IdempotencyInit, Request, StoredOrLate
<1>2. IdempotencyInv /\ StoredOrLate /\ [IdempotencyNext]_idempotencyVars => StoredOrLate'
  <2>1. ASSUME IdempotencyInv, StoredOrLate, KeyLockExpires \/ ResultExpires \/ UNCHANGED idempotencyVars
        PROVE  StoredOrLate'
    BY <2>1 DEF KeyLockExpires, ResultExpires, idempotencyVars, StoredOrLate
  <2> QED
    BY <2>1, StoredOrLateKept DEF IdempotencyNext
<1>3. StoredOrLate => AnsweredOnceUnlessLate
  BY DEF StoredOrLate, AnsweredOnceUnlessLate
<1> QED
  BY <1>1, <1>2, <1>3, IdempotencyInvHolds, PTL DEF IdempotencySpec

-----------------------------------------------------------------------------
(* VideoStream: the type invariant                                         *)

\* Before the job is added nothing runs; a refused add is on record.
UploaderFirst ==
    /\ uploader = "insert" => status = "none"
    /\ uploader \in {"insert", "add"} => job = NewJob /\ \A s \in Slots : ~ Running(s)
    /\ uploader = "mark" => refused

\* An attempt is left to a job that waits or runs, and none to one that is being marked.
AttemptsLeft ==
    /\ job.state \in {"waiting", "active"} => job.made < Attempts
    /\ \A s \in Slots : pc[s] = "mark" => job.state = "failed"

VideoBase == VideoTypeOK /\ UploaderFirst /\ AttemptsLeft

\* The job and the steps of its executions.
JobShape ==
    /\ job \in Jobs /\ pc \in [Slots -> Steps]
    /\ \A s \in Slots : Holds(s) => job.state = "active" /\ Running(s)

VideoValues ==
    /\ status \in {"none", "pending", "processing"} \union Settled
    /\ uploader \in {"insert", "add", "mark", "done"}
    /\ output \in {"none", "partial", "whole"}
    /\ uploaded \in {"none", "damaged", "whole"}
    /\ videoFaults \in 0..MaxVideoFaults

VideoFlags ==
    source \in BOOLEAN /\ overlap \in BOOLEAN /\ refused \in BOOLEAN /\ late \in BOOLEAN /\ lost \in BOOLEAN

LEMMA VideoTypeParts == VideoTypeOK <=> JobShape /\ VideoValues /\ VideoFlags
BY DEF VideoTypeOK, JobShape, VideoValues, VideoFlags

LEMMA NewJobType == NewJob \in Jobs
BY VideoAssumption DEF NewJob, Jobs

LEMMA VideoBaseInit == NoVideo /\ uploader \in {"insert", "done"} => VideoBase
<1> SUFFICES ASSUME NoVideo, uploader \in {"insert", "done"} PROVE VideoBase
  OBVIOUS
<1>1. JobShape
  BY NewJobType, VideoAssumption DEF NoVideo, JobShape, Steps, Holds, NewJob
<1>2. VideoValues
  BY VideoAssumption DEF NoVideo, VideoValues
<1>3. VideoFlags
  BY DEF NoVideo, VideoFlags
<1>4. UploaderFirst /\ AttemptsLeft
  BY DEF NoVideo, UploaderFirst, AttemptsLeft, NewJob, Running
<1> QED
  BY <1>1, <1>2, <1>3, <1>4, VideoTypeParts DEF VideoBase

\* A step of one execution.
LEMMA StepsType ==
    ASSUME pc \in [Slots -> Steps], NEW s \in Slots, NEW step \in Steps, StepsTo(s, step)
    PROVE  /\ pc' \in [Slots -> Steps] /\ pc'[s] = step
           /\ \A t \in Slots \ {s} : pc'[t] = pc[t]
BY DEF StepsTo

\* The steps that are named.
LEMMA StepNames ==
    \A x \in {"idle", "start", "encode", "encoding", "unlink", "throw", "mark",
              "upload", "rmdir", "success", "report"} : x \in Steps
BY DEF Steps, AfterSource

\* A job after an attempt that failed.
LEMMA JobWith ==
    ASSUME JobShape, NEW made \in 0..Attempts, NEW state \in {"waiting", "failed"},
           job' = [job EXCEPT !.made = made, !.holder = NoSlot, !.state = state]
    PROVE  job' \in Jobs /\ job'.made = made /\ job'.holder = NoSlot /\ job'.state = state
BY DEF JobShape, Jobs

LEMMA JobShapeStep ==
    ASSUME VideoBase, [VideoNext]_videoVars
    PROVE  JobShape' /\ AttemptsLeft'
<1> USE VideoAssumption, StepNames DEF Running, Holds
<1>0. JobShape /\ AttemptsLeft /\ UploaderFirst
  BY VideoTypeParts DEF VideoBase
<1>1. CASE UNCHANGED <<job, pc>>
  BY <1>0, <1>1 DEF JobShape, AttemptsLeft
<1>2. CASE AddJob
  <2>1. pc' = pc /\ (job' = job \/ job' = [NewJob EXCEPT !.state = "waiting"])
    BY <1>0, <1>2 DEF AddJob, UploaderFirst
  <2>2. job' \in Jobs /\ job'.holder = NoSlot /\ job'.made = 0
    BY <1>0, <1>2, <2>1 DEF AddJob, UploaderFirst, NewJob, Jobs
  <2>3. QED
    BY <1>0, <1>2, <2>1, <2>2 DEF AddJob, JobShape, AttemptsLeft, UploaderFirst
<1>3. ASSUME NEW s \in Slots, NEW step \in Steps \ {"idle", "mark"}, StepsTo(s, step), Running(s),
             job' = job
      PROVE  JobShape' /\ AttemptsLeft'
  BY <1>0, <1>3, StepsType DEF JobShape, AttemptsLeft
<1>4. ASSUME NEW s \in Slots, EncodeVideoStream(s) \/ EncodingThrows(s)
      PROVE  JobShape' /\ AttemptsLeft'
  <2>1. job' = job /\ Running(s)
    BY <1>4 DEF EncodeVideoStream, Processing, Encode, Encoded, DeleteSource, UploadFiles,
         DeleteDirectory, Success, EncodingThrows
  <2>2. \E step \in Steps \ {"idle", "mark"} : StepsTo(s, step)
    BY <1>4 DEF EncodeVideoStream, Processing, Encode, Encoded, DeleteSource, UploadFiles,
         DeleteDirectory, Success, EncodingThrows
  <2>3. QED
    BY <2>1, <2>2, <1>3
<1>5. ASSUME NEW s \in Slots, Take(s) PROVE JobShape' /\ AttemptsLeft'
  <2>1. StepsTo(s, "start") /\ job.state = "waiting"
    BY <1>5 DEF Take
  <2>2. job' \in Jobs /\ job'.state = "active" /\ job'.holder = s /\ job'.made = job.made
    BY <1>0, <1>5 DEF Take, JobShape, Jobs
  <2>3. QED
    BY <1>0, <2>1, <2>2, StepsType DEF JobShape, AttemptsLeft
<1>6. ASSUME NEW s \in Slots, Completed(s) \/ MarkVideoEncodingFailed(s) PROVE JobShape' /\ AttemptsLeft'
  <2>1. StepsTo(s, "idle")
    BY <1>6 DEF Completed, MarkVideoEncodingFailed
  <2>2. CASE job' = job /\ ~ Holds(s)
    BY <1>0, <2>1, <2>2, StepsType DEF JobShape, AttemptsLeft
  <2>3. CASE Completed(s) /\ Holds(s)
    <3>1. job' \in Jobs /\ job'.state = "completed" /\ job'.holder = NoSlot /\ job.state = "active"
      BY <1>0, <2>3 DEF Completed, JobShape, Jobs
    <3>2. QED
      BY <1>0, <2>1, <3>1, StepsType DEF JobShape, AttemptsLeft
  <2>4. QED
    BY <1>0, <1>6, <2>2, <2>3 DEF Completed, MarkVideoEncodingFailed, JobShape, AttemptsLeft
<1>7. ASSUME NEW s \in Slots, Failed(s) PROVE JobShape' /\ AttemptsLeft'
  <2>1. CASE ~ Holds(s)
    <3>1. StepsTo(s, "idle") /\ job' = job
      BY <1>7, <2>1 DEF Failed
    <3>2. QED
      BY <1>0, <2>1, <3>1, StepsType DEF JobShape, AttemptsLeft
  <2>2. CASE Holds(s)
    <3> DEFINE state == IF job.made + 1 < Attempts THEN "waiting" ELSE "failed"
               step  == IF job.made + 1 >= Attempts THEN "mark" ELSE "idle"
    <3>1. job' = [job EXCEPT !.made = job.made + 1, !.holder = NoSlot, !.state = state]
      BY <1>7, <2>2 DEF Failed
    <3>2. StepsTo(s, step) /\ step \in Steps
      BY <1>7, <2>2 DEF Failed, LastAttempt
    <3>3. job.state = "active" /\ job.made < Attempts /\ job.made \in 0..Attempts
      BY <1>0, <2>2 DEF JobShape, AttemptsLeft, Jobs
    <3>4. state \in {"waiting", "failed"} /\ (state = "waiting" => job.made + 1 < Attempts)
          /\ (step = "mark" => state = "failed")
      BY <3>3
    <3> HIDE DEF state, step
    <3>5. job.made + 1 \in 0..Attempts
      BY <3>3
    <3>6. job' \in Jobs /\ job'.made = job.made + 1 /\ job'.holder = NoSlot /\ job'.state = state
      BY <1>0, <3>1, <3>4, <3>5, JobWith
    <3>7. QED
      BY <1>0, <3>2, <3>3, <3>4, <3>6, StepsType DEF JobShape, AttemptsLeft
  <2>3. QED
    BY <2>1, <2>2
<1>8. ASSUME NEW s \in Slots, WorkerDies(s) \/ LockLost(s) PROVE JobShape' /\ AttemptsLeft'
  <2>1. CASE job' = job
    <3>1. WorkerDies(s) /\ ~ Holds(s)
      BY <1>0, <1>8, <2>1 DEF LockLost, WorkerDies, JobShape, Jobs
    <3>2. QED
      BY <1>0, <2>1, <3>1, StepsType DEF WorkerDies, JobShape, AttemptsLeft
  <2>2. CASE Holds(s) /\ job' = [job EXCEPT !.holder = NoSlot]
    <3>1. job' \in Jobs /\ job'.holder = NoSlot /\ job'.state = job.state /\ job'.made = job.made
      BY <1>0, <2>2 DEF JobShape, Jobs
    <3>2. pc' = pc \/ StepsTo(s, "idle")
      BY <1>8 DEF LockLost, WorkerDies
    <3>3. QED
      BY <1>0, <2>2, <3>1, <3>2, StepsType DEF JobShape, AttemptsLeft
  <2>3. QED
    BY <1>8, <2>1, <2>2 DEF LockLost, WorkerDies
<1>9. CASE Stalled
  <2>1. job.state = "active" /\ job.holder = NoSlot /\ pc' = pc
    BY <1>9 DEF Stalled
  <2>2. job' \in Jobs /\ job'.holder = NoSlot /\ job'.state \in {"waiting", "failed"} /\ job'.made = job.made
    <3>1. CASE job.stalls < MaxStalls
      <4>1. job.stalls + 1 \in 0..MaxStalls
        BY <1>0, <3>1 DEF JobShape, Jobs
      <4>2. job' = [job EXCEPT !.state = "waiting", !.stalls = job.stalls + 1]
        BY <1>9, <3>1 DEF Stalled
      <4>3. QED
        BY <1>0, <2>1, <4>1, <4>2 DEF JobShape, Jobs
    <3>2. CASE ~ (job.stalls < MaxStalls)
      BY <1>0, <1>9, <2>1, <3>2 DEF Stalled, JobShape, Jobs
    <3>3. QED
      BY <3>1, <3>2
  <2>3. QED
    BY <1>0, <2>1, <2>2 DEF JobShape, AttemptsLeft
<1> QED
  BY <1>1, <1>2, <1>4, <1>5, <1>6, <1>7, <1>8, <1>9 DEF VideoNext, Upload, Process, videoVars,
     InsertStatus, MarkRefused, UploaderDies

LEMMA VideoValuesStep ==
    ASSUME VideoValues, [VideoNext]_videoVars
    PROVE  VideoValues'
<1> USE VideoAssumption DEF VideoValues, Settled, UpdateVideoStatus, VideoFault, FaultAt, files, history
<1>1. CASE Upload \/ UploaderDies \/ Stalled
  BY <1>1 DEF Upload, InsertStatus, AddJob, MarkRefused, UploaderDies, Stalled
<1>2. ASSUME NEW s \in Slots, EncodeVideoStream(s) PROVE VideoValues'
  BY <1>2 DEF EncodeVideoStream, Processing, Encode, Encoded, DeleteSource, UploadFiles, DeleteDirectory, Success
<1>3. ASSUME NEW s \in Slots, Take(s) \/ Completed(s) \/ Failed(s) \/ MarkVideoEncodingFailed(s)
      PROVE  VideoValues'
  BY <1>3 DEF Take, Completed, Failed, MarkVideoEncodingFailed
<1>4. ASSUME NEW s \in Slots, EncodingThrows(s) \/ WorkerDies(s) \/ LockLost(s)
      PROVE  VideoValues'
  BY <1>4 DEF EncodingThrows, WorkerDies, LockLost
<1>5. CASE UNCHANGED videoVars
  BY <1>5 DEF videoVars
<1> QED
  BY <1>1, <1>2, <1>3, <1>4, <1>5 DEF VideoNext, Process

\* What the history has once recorded stays, and the source never comes back.
Recorded ==
    /\ overlap' \in BOOLEAN /\ (overlap => overlap')
    /\ refused' \in BOOLEAN /\ (refused => refused')
    /\ late' \in BOOLEAN /\ (late => late')
    /\ lost' \in BOOLEAN
    /\ source' \in BOOLEAN /\ (source' => source)

LEMMA VideoFlagsStep ==
    ASSUME VideoFlags, [VideoNext]_videoVars
    PROVE  Recorded
<1> USE DEF VideoFlags, Recorded, FaultAt, files, history
<1>1. ASSUME NEW s \in Slots, EncodeVideoStream(s) PROVE Recorded
  <2>1. CASE Processing(s)
    BY <2>1 DEF Processing
  <2>2. CASE Encode(s)
    BY <2>2 DEF Encode
  <2>3. CASE Encoded(s)
    BY <2>3 DEF Encoded
  <2>4. CASE DeleteSource(s)
    BY <2>4 DEF DeleteSource
  <2>5. CASE UploadFiles(s)
    BY <2>5 DEF UploadFiles
  <2>6. CASE DeleteDirectory(s)
    BY <2>6 DEF DeleteDirectory
  <2>7. CASE Success(s)
    BY <2>7 DEF Success
  <2> QED
    BY <1>1, <2>1, <2>2, <2>3, <2>4, <2>5, <2>6, <2>7 DEF EncodeVideoStream
<1>2. CASE InsertStatus
  BY <1>2 DEF InsertStatus
<1>3. CASE AddJob
  BY <1>3 DEF AddJob
<1>4. CASE MarkRefused
  BY <1>4 DEF MarkRefused
<1>5. CASE UploaderDies
  BY <1>5 DEF UploaderDies
<1>6. CASE Stalled
  BY <1>6 DEF Stalled
<1>7. ASSUME NEW s \in Slots, Take(s) PROVE Recorded
  BY <1>7 DEF Take
<1>8. ASSUME NEW s \in Slots, Completed(s) PROVE Recorded
  BY <1>8 DEF Completed
<1>9. ASSUME NEW s \in Slots, Failed(s) PROVE Recorded
  BY <1>9 DEF Failed
<1>10. ASSUME NEW s \in Slots, MarkVideoEncodingFailed(s) PROVE Recorded
  BY <1>10 DEF MarkVideoEncodingFailed
<1>11. ASSUME NEW s \in Slots, EncodingThrows(s) PROVE Recorded
  BY <1>11 DEF EncodingThrows
<1>12. ASSUME NEW s \in Slots, WorkerDies(s) PROVE Recorded
  BY <1>12 DEF WorkerDies
<1>13. ASSUME NEW s \in Slots, LockLost(s) PROVE Recorded
  BY <1>13 DEF LockLost
<1>14. CASE UNCHANGED videoVars
  BY <1>14 DEF videoVars
<1> QED
  BY <1>1, <1>2, <1>3, <1>4, <1>5, <1>6, <1>7, <1>8, <1>9, <1>10, <1>11, <1>12, <1>13, <1>14 DEF VideoNext, Upload, Process

LEMMA UploaderStep ==
    ASSUME VideoBase, [VideoNext]_videoVars
    PROVE  UploaderFirst'
<1>0. JobShape /\ VideoFlags /\ UploaderFirst
  BY VideoTypeParts DEF VideoBase
<1> USE <1>0 DEF UploaderFirst, Running, files, history
<1>1. CASE Upload \/ UploaderDies
  BY <1>1 DEF Upload, InsertStatus, AddJob, MarkRefused, UploaderDies
<1>2. CASE Stalled
  BY <1>2 DEF Stalled, NewJob
<1>3. ASSUME NEW s \in Slots, EncodeVideoStream(s) PROVE UploaderFirst'
  BY <1>3 DEF EncodeVideoStream, Processing, Encode, Encoded, DeleteSource, UploadFiles, DeleteDirectory, Success
<1>4. ASSUME NEW s \in Slots, Take(s) PROVE UploaderFirst'
  BY <1>4 DEF Take, NewJob
<1>5. ASSUME NEW s \in Slots, Completed(s) \/ Failed(s) \/ MarkVideoEncodingFailed(s)
      PROVE  UploaderFirst'
  BY <1>5 DEF Completed, Failed, MarkVideoEncodingFailed
<1>6. ASSUME NEW s \in Slots, EncodingThrows(s) \/ WorkerDies(s) \/ LockLost(s)
      PROVE  UploaderFirst'
  BY <1>6 DEF EncodingThrows, WorkerDies, LockLost
<1>7. CASE UNCHANGED videoVars
  BY <1>7 DEF videoVars
<1> QED
  BY <1>1, <1>2, <1>3, <1>4, <1>5, <1>6, <1>7 DEF VideoNext, Process

LEMMA VideoBaseStep == VideoBase /\ [VideoNext]_videoVars => VideoBase'
<1> SUFFICES ASSUME VideoBase, [VideoNext]_videoVars PROVE VideoBase'
  OBVIOUS
<1>1. VideoValues /\ VideoFlags
  BY VideoTypeParts DEF VideoBase
<1>2. VideoFlags'
  BY <1>1, VideoFlagsStep DEF VideoFlags, Recorded
<1>3. VideoTypeOK'
  BY <1>1, <1>2, JobShapeStep, VideoValuesStep DEF VideoTypeOK, JobShape, VideoValues, VideoFlags
<1> QED
  BY <1>3, JobShapeStep, UploaderStep DEF VideoBase

\* The state keeps its shape, only an active job is locked, and its holder executes it.
THEOREM VideoTypeCorrect == VideoSpec => []VideoTypeOK
<1>1. VideoInit => VideoBase
  BY VideoBaseInit DEF VideoInit
<1>2. VideoBase => VideoTypeOK
  BY DEF VideoBase
<1> QED
  BY <1>1, <1>2, VideoBaseStep, PTL DEF VideoSpec

-----------------------------------------------------------------------------
(* VideoStream: the row tells the truth                                    *)

\* Without an overlap at most one execution runs, and only of a job that is not over.
OneExecutes ==
    ~ overlap => \A s \in Slots : Running(s) =>
        /\ Alone(s)
        /\ job.state \in {"waiting", "active"} \/ (job.state = "failed" /\ pc[s] = "mark")

\* The source is deleted for good, and while nobody was late it was deleted by the
\* execution that has the lock, or that has completed the job.
SourceGone ==
    /\ \A s \in Slots : pc[s] \in AfterSource => ~ source
    /\ status = "success" => ~ source
    /\ ~ source /\ ~ late /\ ~ overlap =>
          job.state = "completed" \/ \E s \in Slots : Holds(s) /\ pc[s] \in AfterSource

\* What an execution finds in the folder and the bucket is its own work.
OwnFiles ==
    ~ overlap => \A s \in Slots :
        /\ pc[s] \in {"encoding", "unlink"} => source
        /\ pc[s] = "encoding" => output # "none"
        /\ pc[s] \in {"unlink", "upload"} => output = "whole"
        /\ pc[s] \in {"rmdir", "success"} => uploaded = "whole"
        /\ pc[s] \in {"encode", "encoding", "unlink", "upload", "rmdir", "success"} =>
              status # "success"

\* The attempt that is lost already, though BullMQ has not counted it.
Uncounted ==
    \/ job.state = "active" /\ job.holder = NoSlot
    \/ \E s \in Slots : Holds(s) /\ pc[s] = "throw"

\* Every attempt that failed had a fault of its own.
FaultsCounted ==
    late \/ overlap \/
        /\ videoFaults >= job.made
        /\ Uncounted => videoFaults >= job.made + 1
        /\ \A s \in Slots : pc[s] = "mark" => videoFaults >= Attempts

\* A row is marked failed after its job has failed, or was refused.
FailedIsOver ==
    status = "failed" => refused \/ overlap \/ job.state = "failed"

VideoInv ==
    /\ UploaderFirst /\ AttemptsLeft /\ OneExecutes /\ SourceGone /\ OwnFiles
    /\ FaultsCounted /\ FailedIsOver
    /\ StatusIsTrue

\* The moves of the steps that change the job.
LEMMA TakeMoves ==
    ASSUME JobShape, NEW s \in Slots, Take(s)
    PROVE  /\ pc[s] = "idle" /\ job.state = "waiting"
           /\ pc'[s] = "start" /\ \A t \in Slots \ {s} : pc'[t] = pc[t]
           /\ job'.state = "active" /\ job'.holder = s /\ job'.made = job.made
BY StepsType, StepNames DEF Take, JobShape, Jobs, Running

LEMMA CompletedMoves ==
    ASSUME JobShape, NEW s \in Slots, Completed(s)
    PROVE  /\ pc[s] = "report" /\ pc'[s] = "idle" /\ \A t \in Slots \ {s} : pc'[t] = pc[t]
           /\ \/ ~ Holds(s) /\ job' = job
              \/ /\ Holds(s) /\ job.state = "active"
                 /\ job'.state = "completed" /\ job'.holder = NoSlot /\ job'.made = job.made
BY StepsType, StepNames DEF Completed, JobShape, Jobs

LEMMA FailedMoves ==
    ASSUME JobShape, NEW s \in Slots, Failed(s)
    PROVE  /\ pc[s] = "throw" /\ \A t \in Slots \ {s} : pc'[t] = pc[t]
           /\ \/ ~ Holds(s) /\ job' = job /\ pc'[s] = "idle"
              \/ /\ Holds(s) /\ job.state = "active"
                 /\ job'.holder = NoSlot /\ job'.made = job.made + 1
                 /\ \/ job.made + 1 < Attempts /\ job'.state = "waiting" /\ pc'[s] = "idle"
                    \/ job.made + 1 >= Attempts /\ job'.state = "failed" /\ pc'[s] = "mark"
<1>1. pc[s] = "throw"
  BY DEF Failed
<1>2. CASE ~ Holds(s)
  BY <1>1, <1>2, StepsType, StepNames DEF Failed, JobShape
<1>3. CASE Holds(s)
  <2>1. CASE job.made + 1 < Attempts
    <3>1. StepsTo(s, "idle") /\ job' = [job EXCEPT !.made = job.made + 1, !.holder = NoSlot, !.state = "waiting"]
      BY <1>3, <2>1, VideoAssumption DEF Failed, LastAttempt, JobShape, Jobs
    <3>2. QED
      BY <1>1, <1>3, <2>1, <3>1, StepsType, StepNames DEF JobShape, Jobs
  <2>2. CASE ~ (job.made + 1 < Attempts)
    <3>1. job.made + 1 >= Attempts
      BY <2>2, VideoAssumption DEF JobShape, Jobs
    <3>2. StepsTo(s, "mark") /\ job' = [job EXCEPT !.made = job.made + 1, !.holder = NoSlot, !.state = "failed"]
      BY <1>3, <2>2, <3>1 DEF Failed, LastAttempt
    <3>3. QED
      BY <1>1, <1>3, <3>1, <3>2, StepsType, StepNames DEF JobShape, Jobs
  <2>3. QED
    BY <2>1, <2>2
<1> QED
  BY <1>2, <1>3

LEMMA WorkerDiesMoves ==
    ASSUME JobShape, NEW s \in Slots, WorkerDies(s)
    PROVE  /\ pc'[s] = "idle" /\ \A t \in Slots \ {s} : pc'[t] = pc[t]
           /\ job'.state = job.state /\ job'.made = job.made
           /\ \/ ~ Holds(s) /\ job' = job
              \/ Holds(s) /\ job'.holder = NoSlot
BY StepsType, StepNames DEF WorkerDies, JobShape, Jobs

LEMMA LockLostMoves ==
    ASSUME JobShape, NEW s \in Slots, LockLost(s)
    PROVE  /\ pc' = pc /\ Holds(s)
           /\ job'.state = job.state /\ job'.made = job.made /\ job'.holder = NoSlot
BY DEF LockLost, JobShape, Jobs

LEMMA StalledMoves ==
    ASSUME JobShape, Stalled
    PROVE  /\ pc' = pc /\ job.state = "active" /\ job.holder = NoSlot
           /\ job'.holder = NoSlot /\ job'.made = job.made
           /\ \/ job'.state = "waiting" /\ status' = status /\ overlap' = overlap
              \/ /\ job'.state = "failed"
                 /\ overlap' = (overlap \/ \E s \in Slots : Running(s))
                 /\ \/ status' = status
                    \/ status' = "failed" /\ \E seen \in {job.made, job.made + 1} : seen >= Attempts
<1>1. CASE job.stalls < MaxStalls
  BY <1>1 DEF Stalled, JobShape, Jobs
<1>2. CASE ~ (job.stalls < MaxStalls)
  BY <1>2 DEF Stalled, JobShape, Jobs, UpdateVideoStatus, LastAttempt
<1> QED
  BY <1>1, <1>2

\* A step of an execution within its job.
LEMMA EncodingMoves ==
    ASSUME JobShape, NEW s \in Slots, EncodeVideoStream(s) \/ EncodingThrows(s)
    PROVE  /\ job' = job /\ overlap' = overlap /\ Running(s)
           /\ pc[s] # "mark" /\ pc'[s] \notin {"idle", "mark", "start"}
           /\ \A t \in Slots \ {s} : pc'[t] = pc[t]
<1>1. job' = job /\ overlap' = overlap /\ Running(s) /\ pc[s] # "mark"
  BY DEF EncodeVideoStream, Processing, Encode, Encoded, DeleteSource, UploadFiles,
       DeleteDirectory, Success, EncodingThrows, history, Running
<1>2. \E step \in Steps \ {"idle", "mark", "start"} : StepsTo(s, step)
  BY StepNames DEF EncodeVideoStream, Processing, Encode, Encoded, DeleteSource, UploadFiles,
       DeleteDirectory, Success, EncodingThrows
<1> QED
  BY <1>1, <1>2, StepsType DEF JobShape

LEMMA OneExecutesStep ==
    ASSUME VideoBase, OneExecutes, [VideoNext]_videoVars
    PROVE  OneExecutes'
<1>0. JobShape /\ VideoFlags /\ UploaderFirst /\ AttemptsLeft
  BY VideoTypeParts DEF VideoBase
<1>00. overlap => overlap'
  BY <1>0, VideoFlagsStep DEF Recorded
<1> SUFFICES ASSUME ~ overlap' PROVE OneExecutes'
  BY DEF OneExecutes
<1> USE <1>0, <1>00 DEF OneExecutes, Alone, Running, AttemptsLeft
<1>1. CASE UNCHANGED <<job, pc, overlap>>
  BY <1>1
<1>2. CASE AddJob
  BY <1>2 DEF AddJob, UploaderFirst
<1>3. ASSUME NEW s \in Slots, EncodeVideoStream(s) \/ EncodingThrows(s) PROVE OneExecutes'
  BY <1>3, EncodingMoves
<1>4. ASSUME NEW s \in Slots, Take(s) PROVE OneExecutes'
  <2>1. \A t \in Slots \ {s} : ~ Running(t)
    BY <1>4 DEF Take
  <2>2. QED
    BY <1>4, <2>1, TakeMoves
<1>5. ASSUME NEW s \in Slots, Completed(s) PROVE OneExecutes'
  BY <1>5, CompletedMoves
<1>6. ASSUME NEW s \in Slots, Failed(s) PROVE OneExecutes'
  BY <1>6, FailedMoves
<1>7. ASSUME NEW s \in Slots, MarkVideoEncodingFailed(s) PROVE OneExecutes'
  BY <1>7, StepsType, StepNames DEF MarkVideoEncodingFailed, JobShape
<1>8. ASSUME NEW s \in Slots, WorkerDies(s) PROVE OneExecutes'
  BY <1>8, WorkerDiesMoves
<1>9. ASSUME NEW s \in Slots, LockLost(s) PROVE OneExecutes'
  BY <1>9, LockLostMoves
<1>10. CASE Stalled
  BY <1>10, StalledMoves
<1> QED
  BY <1>1, <1>2, <1>3, <1>4, <1>5, <1>6, <1>7, <1>8, <1>9, <1>10 DEF VideoNext, Upload, Process,
     videoVars, InsertStatus, MarkRefused, UploaderDies

LEMMA SourceGoneStep ==
    ASSUME VideoBase, SourceGone, OwnFiles, [VideoNext]_videoVars
    PROVE  SourceGone'
<1>0. JobShape /\ VideoFlags /\ UploaderFirst /\ AttemptsLeft
  BY VideoTypeParts DEF VideoBase
<1>00. (overlap => overlap') /\ (late => late') /\ (source' => source)
  BY <1>0, VideoFlagsStep DEF Recorded
<1> USE <1>0, <1>00 DEF SourceGone, Holds, AfterSource
<1>1. CASE UNCHANGED <<job, pc, source, late, overlap>> /\ (status' = status \/ status' # "success")
  BY <1>1
<1>2. CASE AddJob
  BY <1>2 DEF AddJob, UploaderFirst, files, NewJob
<1>3. ASSUME NEW s \in Slots, EncodeVideoStream(s) PROVE SourceGone'
  <2>1. /\ job' = job /\ overlap' = overlap /\ Running(s) /\ pc[s] # "mark"
        /\ pc'[s] # "idle" /\ \A t \in Slots \ {s} : pc'[t] = pc[t]
    BY <1>3, EncodingMoves
  <2>2. CASE DeleteSource(s)
    <3>1. source' = FALSE /\ status' = status /\ pc'[s] = (IF source THEN "upload" ELSE "throw")
      BY <2>2, StepsType, StepNames DEF DeleteSource, JobShape
    <3>2. late' = (late \/ ~ Holds(s)) /\ pc[s] = "unlink"
      BY <2>2 DEF DeleteSource
    <3>3. QED
      BY <2>1, <3>1, <3>2
  <2>3. CASE ~ DeleteSource(s)
    <3>1. source' = source /\ late' = late
      BY <1>3, <2>3 DEF EncodeVideoStream, Processing, Encode, Encoded, UploadFiles, DeleteDirectory, Success,
         files, history
    <3>2. status' = status \/ status' # "success" \/ pc[s] = "success"
      BY <1>3, <2>3 DEF EncodeVideoStream, Processing, Encode, Encoded, UploadFiles, DeleteDirectory, Success,
         UpdateVideoStatus
    <3>3. pc[s] \in AfterSource <=> pc'[s] \in AfterSource \/ (pc[s] = "upload" /\ UploadFiles(s) /\ output = "none")
      BY <1>3, <2>3, StepsType, StepNames DEF EncodeVideoStream, Processing, Encode, Encoded, UploadFiles,
         DeleteDirectory, Success, JobShape
    <3>4. pc[s] = "upload" /\ output = "none" => overlap
      BY DEF OwnFiles
    <3>5. QED
      BY <2>1, <3>1, <3>2, <3>3, <3>4
  <2>4. QED
    BY <2>2, <2>3
<1>4. ASSUME NEW s \in Slots, EncodingThrows(s) PROVE SourceGone'
  <2>1. /\ job' = job /\ overlap' = overlap /\ \A t \in Slots \ {s} : pc'[t] = pc[t]
        /\ pc'[s] = "throw"
    BY <1>4, EncodingMoves, StepsType, StepNames DEF EncodingThrows, JobShape
  <2>2. source' = source /\ status' = status /\ late' = (late \/ pc[s] \in AfterSource)
    BY <1>4 DEF EncodingThrows, FaultAt
  <2>3. QED
    BY <2>1, <2>2
<1>5. ASSUME NEW s \in Slots, Take(s) PROVE SourceGone'
  <2>1. source' = source /\ status' = status /\ late' = late
    BY <1>5 DEF Take, files
  <2>2. \A t \in Slots : ~ Holds(t)
    BY <1>5, TakeMoves DEF JobShape
  <2>3. QED
    BY <1>5, <2>1, <2>2, TakeMoves
<1>6. ASSUME NEW s \in Slots, Completed(s) PROVE SourceGone'
  <2>1. source' = source /\ status' = status /\ late' = late /\ overlap' = overlap
    BY <1>6 DEF Completed, files, history
  <2>2. QED
    BY <1>6, <2>1, CompletedMoves
<1>7. ASSUME NEW s \in Slots, Failed(s) PROVE SourceGone'
  <2>1. source' = source /\ status' = status /\ late' = late /\ overlap' = overlap
    BY <1>7 DEF Failed, files, history
  <2>2. QED
    BY <1>7, <2>1, FailedMoves
<1>8. ASSUME NEW s \in Slots, MarkVideoEncodingFailed(s) PROVE SourceGone'
  <2>1. /\ source' = source /\ late' = late /\ overlap' = overlap /\ job' = job
        /\ status' = status \/ status' = "failed"
    BY <1>8 DEF MarkVideoEncodingFailed, UpdateVideoStatus, files, history
  <2>2. pc[s] = "mark" /\ pc'[s] = "idle" /\ \A t \in Slots \ {s} : pc'[t] = pc[t]
    BY <1>8, StepsType, StepNames DEF MarkVideoEncodingFailed, JobShape
  <2>3. QED
    BY <2>1, <2>2
<1>9. ASSUME NEW s \in Slots, WorkerDies(s) PROVE SourceGone'
  <2>1. /\ source' = source /\ status' = status /\ overlap' = overlap
        /\ late' = (late \/ pc[s] \in AfterSource)
    BY <1>9 DEF WorkerDies, FaultAt
  <2>2. QED
    BY <1>9, <2>1, WorkerDiesMoves
<1>10. ASSUME NEW s \in Slots, LockLost(s) PROVE SourceGone'
  <2>1. /\ source' = source /\ status' = status /\ overlap' = overlap
        /\ late' = (late \/ pc[s] \in AfterSource)
    BY <1>10 DEF LockLost, FaultAt, files
  <2>2. QED
    BY <1>10, <2>1, LockLostMoves
<1>11. CASE Stalled
  <2>1. source' = source /\ late' = late /\ (status' = status \/ status' # "success")
    BY <1>11, StalledMoves DEF Stalled, files
  <2>2. \A t \in Slots : ~ Holds(t)
    BY <1>11, StalledMoves, VideoAssumption
  <2>3. QED
    BY <1>11, <2>1, <2>2, StalledMoves
<1> QED
  BY <1>1, <1>2, <1>3, <1>4, <1>5, <1>6, <1>7, <1>8, <1>9, <1>10, <1>11 DEF VideoNext, Upload, Process,
     videoVars, InsertStatus, MarkRefused, UploaderDies, UpdateVideoStatus, files, history

LEMMA OwnFilesStep ==
    ASSUME VideoBase, OneExecutes, SourceGone, OwnFiles, [VideoNext]_videoVars
    PROVE  OwnFiles'
<1>0. JobShape /\ VideoFlags /\ UploaderFirst /\ AttemptsLeft
  BY VideoTypeParts DEF VideoBase
<1>00. overlap => overlap'
  BY <1>0, VideoFlagsStep DEF Recorded
<1> SUFFICES ASSUME ~ overlap' PROVE OwnFiles'
  BY DEF OwnFiles
<1> USE <1>0, <1>00 DEF OwnFiles, Alone, Running
<1>1. CASE /\ UNCHANGED <<pc, files>> /\ (status' = status \/ status' # "success")
  BY <1>1 DEF files
<1>2. ASSUME NEW s \in Slots, UNCHANGED files, status' = status \/ status' # "success",
             pc'[s] \in {"idle", "start", "mark"}, \A t \in Slots \ {s} : pc'[t] = pc[t]
      PROVE  OwnFiles'
  BY <1>2 DEF files
<1>3. ASSUME NEW s \in Slots, EncodeVideoStream(s) \/ EncodingThrows(s) PROVE OwnFiles'
  <2>1. /\ \A t \in Slots \ {s} : pc'[t] = pc[t] /\ pc[t] = "idle"
        /\ job.state \in {"waiting", "active"}
    BY <1>3, EncodingMoves DEF OneExecutes
  <2>2. CASE Processing(s)
    BY <2>1, <2>2, StepsType, StepNames DEF Processing, UpdateVideoStatus, files, JobShape
  <2>3. CASE Encode(s)
    BY <2>1, <2>3, StepsType, StepNames DEF Encode, JobShape
  <2>4. CASE Encoded(s)
    BY <2>1, <2>4, StepsType, StepNames DEF Encoded, JobShape
  <2>5. CASE DeleteSource(s)
    BY <2>1, <2>5, StepsType, StepNames DEF DeleteSource, JobShape
  <2>6. CASE UploadFiles(s)
    BY <2>1, <2>6, StepsType, StepNames DEF UploadFiles, JobShape
  <2>7. CASE DeleteDirectory(s)
    BY <2>1, <2>7, StepsType, StepNames DEF DeleteDirectory, JobShape
  <2>8. CASE Success(s)
    BY <2>1, <2>8, StepsType, StepNames DEF Success, files, JobShape
  <2>9. CASE EncodingThrows(s)
    BY <2>1, <2>9, StepsType, StepNames DEF EncodingThrows, JobShape
  <2>10. QED
    BY <1>3, <2>2, <2>3, <2>4, <2>5, <2>6, <2>7, <2>8, <2>9 DEF EncodeVideoStream
<1>4. ASSUME NEW s \in Slots, Take(s) PROVE OwnFiles'
  BY <1>2, <1>4, TakeMoves DEF Take
<1>5. ASSUME NEW s \in Slots, Completed(s) PROVE OwnFiles'
  BY <1>2, <1>5, CompletedMoves DEF Completed
<1>6. ASSUME NEW s \in Slots, Failed(s) PROVE OwnFiles'
  BY <1>2, <1>6, FailedMoves DEF Failed
<1>7. ASSUME NEW s \in Slots, MarkVideoEncodingFailed(s) PROVE OwnFiles'
  BY <1>2, <1>7, StepsType, StepNames DEF MarkVideoEncodingFailed, UpdateVideoStatus, JobShape
<1>8. ASSUME NEW s \in Slots, WorkerDies(s) PROVE OwnFiles'
  <2>1. /\ \A t \in Slots \ {s} : pc'[t] = pc[t] /\ pc[t] = "idle"
        /\ pc'[s] = "idle"
    BY <1>8, WorkerDiesMoves DEF OneExecutes, WorkerDies
  <2>2. QED
    BY <2>1
<1>9. CASE Stalled
  BY <1>1, <1>9, StalledMoves DEF Stalled
<1> QED
  BY <1>1, <1>3, <1>4, <1>5, <1>6, <1>7, <1>8, <1>9 DEF VideoNext, Upload, Process,
     videoVars, InsertStatus, AddJob, MarkRefused, UploaderDies, LockLost, UpdateVideoStatus, files, history

LEMMA FaultsCountedStep ==
    ASSUME VideoBase, OneExecutes, SourceGone, OwnFiles, FaultsCounted, [VideoNext]_videoVars
    PROVE  FaultsCounted'
<1>0. JobShape /\ VideoFlags /\ UploaderFirst /\ AttemptsLeft /\ videoFaults \in Nat
      /\ job.made \in Nat
  BY VideoTypeParts, VideoAssumption DEF VideoBase, VideoValues, JobShape, Jobs
<1>00. (overlap => overlap') /\ (late => late')
  BY <1>0, VideoFlagsStep DEF Recorded
<1> SUFFICES ASSUME ~ overlap', ~ late' PROVE FaultsCounted'
  BY DEF FaultsCounted
<1> USE <1>0, <1>00, VideoAssumption DEF FaultsCounted, Uncounted, Holds
<1>1. CASE UNCHANGED <<job, pc>> /\ videoFaults' \in {videoFaults, videoFaults + 1}
  BY <1>1
<1>2. CASE AddJob
  <2>1. /\ pc' = pc /\ videoFaults' \in {videoFaults, videoFaults + 1}
        /\ \A s \in Slots : pc[s] = "idle"
        /\ job' = job \/ job' = [NewJob EXCEPT !.state = "waiting"]
    BY <1>2 DEF AddJob, VideoFault, UploaderFirst, Running
  <2>2. job'.made = 0 /\ job'.state \in {"none", "waiting"} /\ job'.holder = NoSlot
    BY <1>2, <2>1 DEF AddJob, UploaderFirst, NewJob
  <2>3. QED
    BY <2>1, <2>2
<1>3. ASSUME NEW s \in Slots, EncodeVideoStream(s) \/ EncodingThrows(s) PROVE FaultsCounted'
  <2>1. /\ job' = job /\ pc'[s] # "mark" /\ \A t \in Slots \ {s} : pc'[t] = pc[t] /\ pc[t] = "idle"
        /\ job.state \in {"waiting", "active"} /\ pc[s] # "idle"
    BY <1>3, EncodingMoves DEF OneExecutes, Alone, Running
  <2>2. CASE EncodeVideoStream(s)
    <3>1. videoFaults' = videoFaults
      BY <2>2 DEF EncodeVideoStream, Processing, Encode, Encoded, DeleteSource, UploadFiles,
           DeleteDirectory, Success, history
    <3>2. pc[s] = "encode" => source
      BY <2>1 DEF SourceGone, AfterSource
    <3>3. /\ pc[s] = "unlink" => source
          /\ pc[s] \in {"encoding", "upload"} => output # "none"
      BY DEF OwnFiles
    <3>4. ASSUME Encode(s) PROVE pc'[s] # "throw"
      BY <3>2, <3>4, StepsType, StepNames DEF Encode, JobShape
    <3>5. ASSUME Encoded(s) PROVE pc'[s] # "throw"
      BY <3>3, <3>5, StepsType, StepNames DEF Encoded, JobShape
    <3>6. ASSUME DeleteSource(s) PROVE pc'[s] # "throw"
      BY <3>3, <3>6, StepsType, StepNames DEF DeleteSource, JobShape
    <3>7. ASSUME UploadFiles(s) PROVE pc'[s] # "throw"
      BY <3>3, <3>7, StepsType, StepNames DEF UploadFiles, JobShape
    <3>8. pc'[s] # "throw"
      BY <2>2, <3>4, <3>5, <3>6, <3>7, StepsType, StepNames DEF EncodeVideoStream, Processing, DeleteDirectory,
         Success, JobShape
    <3>9. QED
      BY <2>1, <3>1, <3>8
  <2>3. CASE EncodingThrows(s)
    <3>1. videoFaults' = videoFaults + 1
      BY <2>3 DEF EncodingThrows, FaultAt, VideoFault
    <3>2. QED
      BY <2>1, <3>1
  <2>4. QED
    BY <1>3, <2>2, <2>3
<1>4. ASSUME NEW s \in Slots, Take(s) PROVE FaultsCounted'
  <2>1. videoFaults' = videoFaults
    BY <1>4 DEF Take
  <2>2. QED
    BY <1>4, <2>1, TakeMoves DEF JobShape
<1>5. ASSUME NEW s \in Slots, Completed(s) PROVE FaultsCounted'
  <2>1. videoFaults' = videoFaults
    BY <1>5 DEF Completed
  <2>2. QED
    BY <1>5, <2>1, CompletedMoves
<1>6. ASSUME NEW s \in Slots, Failed(s) PROVE FaultsCounted'
  <2>1. videoFaults' = videoFaults
    BY <1>6 DEF Failed
  <2>2. QED
    BY <1>6, <2>1, FailedMoves
<1>7. ASSUME NEW s \in Slots, MarkVideoEncodingFailed(s) PROVE FaultsCounted'
  <2>1. job' = job /\ videoFaults' \in {videoFaults, videoFaults + 1}
    BY <1>7 DEF MarkVideoEncodingFailed, VideoFault
  <2>2. pc'[s] = "idle" /\ \A t \in Slots \ {s} : pc'[t] = pc[t]
    BY <1>7, StepsType, StepNames DEF MarkVideoEncodingFailed, JobShape
  <2>3. QED
    BY <2>1, <2>2
<1>8. ASSUME NEW s \in Slots, WorkerDies(s) \/ LockLost(s) PROVE FaultsCounted'
  <2>1. videoFaults' = videoFaults + 1
    BY <1>8 DEF WorkerDies, LockLost, FaultAt, VideoFault
  <2>2. job'.made = job.made /\ \A t \in Slots : pc'[t] = "mark" => pc[t] = "mark"
    BY <1>8, WorkerDiesMoves, LockLostMoves
  <2>3. QED
    BY <2>1, <2>2
<1>9. CASE Stalled
  <2>1. videoFaults' = videoFaults
    BY <1>9 DEF Stalled
  <2>2. QED
    BY <1>9, <2>1, StalledMoves
<1> QED
  BY <1>1, <1>2, <1>3, <1>4, <1>5, <1>6, <1>7, <1>8, <1>9 DEF VideoNext, Upload, Process,
     videoVars, InsertStatus, MarkRefused, UploaderDies, VideoFault

LEMMA FailedIsOverStep ==
    ASSUME VideoBase, FailedIsOver, [VideoNext]_videoVars
    PROVE  FailedIsOver'
<1>0. JobShape /\ VideoFlags /\ UploaderFirst /\ AttemptsLeft
  BY VideoTypeParts DEF VideoBase
<1>00. (overlap => overlap') /\ (refused => refused')
  BY <1>0, VideoFlagsStep DEF Recorded
<1> USE <1>0, <1>00 DEF FailedIsOver
<1>1. CASE job' = job /\ (status' = status \/ status' # "failed" \/ refused)
  BY <1>1
<1>2. CASE AddJob
  BY <1>2 DEF AddJob, UploaderFirst, NewJob
<1>3. ASSUME NEW s \in Slots, EncodeVideoStream(s) PROVE FailedIsOver'
  <2>1. job' = job
    BY <1>3, EncodingMoves
  <2>2. status' = status \/ status' # "failed"
    BY <1>3 DEF EncodeVideoStream, Processing, Encode, Encoded, DeleteSource, UploadFiles, DeleteDirectory,
       Success, UpdateVideoStatus
  <2>3. QED
    BY <1>1, <2>1, <2>2
<1>4. ASSUME NEW s \in Slots, Take(s) PROVE FailedIsOver'
  BY <1>4, TakeMoves DEF Take
<1>5. ASSUME NEW s \in Slots, Completed(s) PROVE FailedIsOver'
  BY <1>5, CompletedMoves DEF Completed
<1>6. ASSUME NEW s \in Slots, Failed(s) PROVE FailedIsOver'
  BY <1>6, FailedMoves DEF Failed
<1>7. ASSUME NEW s \in Slots, MarkVideoEncodingFailed(s) PROVE FailedIsOver'
  BY <1>7 DEF MarkVideoEncodingFailed, AttemptsLeft
<1>8. ASSUME NEW s \in Slots, WorkerDies(s) PROVE FailedIsOver'
  BY <1>8, WorkerDiesMoves DEF WorkerDies
<1>9. ASSUME NEW s \in Slots, LockLost(s) PROVE FailedIsOver'
  BY <1>9, LockLostMoves DEF LockLost
<1>10. CASE Stalled
  BY <1>10, StalledMoves
<1> QED
  BY <1>1, <1>2, <1>3, <1>4, <1>5, <1>6, <1>7, <1>8, <1>9, <1>10 DEF VideoNext, Upload, Process,
     videoVars, InsertStatus, MarkRefused, UploaderDies, EncodingThrows, UpdateVideoStatus, UploaderFirst

LEMMA FaultsGrow ==
    ASSUME videoFaults \in Nat, [VideoNext]_videoVars
    PROVE  videoFaults' \in Nat /\ videoFaults' >= videoFaults
<1>1. ASSUME VideoFault PROVE videoFaults' \in Nat /\ videoFaults' >= videoFaults
  BY <1>1 DEF VideoFault
<1>2. ASSUME NEW s \in Slots, EncodeVideoStream(s) PROVE videoFaults' = videoFaults
  BY <1>2 DEF EncodeVideoStream, Processing, Encode, Encoded, DeleteSource, UploadFiles, DeleteDirectory,
     Success, history
<1>3. ASSUME NEW s \in Slots, Take(s) \/ Completed(s) \/ Failed(s) \/ MarkVideoEncodingFailed(s)
      PROVE  VideoFault \/ videoFaults' = videoFaults
  BY <1>3 DEF Take, Completed, Failed, MarkVideoEncodingFailed
<1>4. ASSUME NEW s \in Slots, EncodingThrows(s) \/ WorkerDies(s) \/ LockLost(s)
      PROVE  VideoFault
  BY <1>4 DEF EncodingThrows, WorkerDies, LockLost, FaultAt
<1>5. CASE Upload \/ UploaderDies \/ Stalled \/ UNCHANGED videoVars
  <2>1. VideoFault \/ videoFaults' = videoFaults
    BY <1>5 DEF Upload, InsertStatus, AddJob, MarkRefused, UploaderDies, Stalled, videoVars
  <2>2. QED
    BY <1>1, <2>1
<1> QED
  BY <1>1, <1>2, <1>3, <1>4, <1>5 DEF VideoNext, Process

LEMMA StatusStep ==
    ASSUME VideoBase, VideoInv, [VideoNext]_videoVars
    PROVE  StatusIsTrue'
<1>0. JobShape /\ VideoFlags /\ UploaderFirst /\ VideoValues
  BY VideoTypeParts DEF VideoBase
<1>00. (overlap => overlap') /\ (refused => refused') /\ (late => late')
  BY <1>0, VideoFlagsStep DEF Recorded
<1>01. videoFaults \in Nat /\ videoFaults' \in Nat /\ videoFaults' >= videoFaults
  BY <1>0, FaultsGrow DEF VideoValues
<1>1. status' = "failed" => videoFaults' >= Attempts \/ late' \/ refused' \/ overlap'
  <2>1. CASE status' = status
    BY <2>1, <1>0, <1>00, <1>01, VideoAssumption DEF VideoInv, StatusIsTrue, VideoValues
  <2>2. CASE MarkRefused
    BY <2>2, <1>0, <1>00 DEF MarkRefused, UploaderFirst
  <2>3. ASSUME NEW s \in Slots, MarkVideoEncodingFailed(s)
        PROVE  videoFaults' >= Attempts \/ late' \/ overlap'
    BY <2>3, <1>0, <1>00, <1>01, VideoAssumption DEF MarkVideoEncodingFailed, VideoInv, FaultsCounted, VideoValues
  <2>4. CASE Stalled
    <3>1. job.made \in Nat /\ videoFaults \in Nat
      BY <1>0 DEF JobShape, Jobs, VideoValues
    <3>2. Uncounted
      BY <2>4 DEF Stalled, Uncounted
    <3>3. late \/ overlap \/ videoFaults >= job.made + 1
      BY <3>2 DEF VideoInv, FaultsCounted
    <3>4. videoFaults' = videoFaults
      BY <2>4 DEF Stalled
    <3>5. CASE status' # status
      BY <1>0, <1>00, <2>4, <3>1, <3>3, <3>4, <3>5, StalledMoves, VideoAssumption
    <3>6. QED
      BY <2>1, <3>5
  <2>5. CASE status' # "failed"
    BY <2>5
  <2> QED
    BY <2>1, <2>2, <2>3, <2>4, <2>5 DEF VideoNext, Upload, Process, EncodeVideoStream,
       videoVars, InsertStatus, AddJob, UploaderDies, Take, Processing, Encode, Encoded,
       DeleteSource, UploadFiles, DeleteDirectory, Success, Completed, Failed,
       EncodingThrows, WorkerDies, LockLost, UpdateVideoStatus, files, history
<1>2. status' = "success" => uploaded' = "whole" \/ overlap'
  <2> SUFFICES ASSUME status' = "success", ~ overlap' PROVE uploaded' = "whole"
    OBVIOUS
  <2>1. ~ overlap
    BY <1>00
  <2>2. ASSUME NEW s \in Slots, Success(s) PROVE uploaded' = "whole"
    BY <2>1, <2>2 DEF Success, VideoInv, OwnFiles, files
  <2>3. ASSUME NEW s \in Slots, pc[s] = "upload" PROVE status # "success"
    BY <2>1, <2>3 DEF VideoInv, OwnFiles
  <2>4. ASSUME NEW s \in Slots, UploadFiles(s) \/ EncodingThrows(s) \/ WorkerDies(s) PROVE uploaded' = "whole"
    <3>1. status' = status
      BY <2>4 DEF UploadFiles, EncodingThrows, WorkerDies, history
    <3>2. uploaded' = uploaded
      BY <2>3, <2>4, <3>1 DEF UploadFiles, EncodingThrows, WorkerDies
    <3>3. QED
      BY <2>1, <3>1, <3>2 DEF VideoInv, StatusIsTrue
  <2>5. CASE status' = status /\ uploaded' = uploaded
    BY <2>1, <2>5 DEF VideoInv, StatusIsTrue
  <2>6. CASE Stalled
    BY <2>1, <2>6, <1>0, StalledMoves DEF VideoInv, StatusIsTrue, Stalled, files
  <2> QED
    BY <2>2, <2>4, <2>5, <2>6 DEF VideoNext, Upload, Process, EncodeVideoStream,
       videoVars, InsertStatus, AddJob, MarkRefused, UploaderDies, Take, Processing, Encode, Encoded,
       DeleteSource, DeleteDirectory, Completed, Failed, MarkVideoEncodingFailed,
       LockLost, UpdateVideoStatus, files, history
<1> QED
  BY <1>1, <1>2 DEF StatusIsTrue

LEMMA VideoInvInit == NoVideo /\ uploader \in {"insert", "done"} => VideoInv
BY VideoAssumption DEF NoVideo, VideoInv, UploaderFirst, AttemptsLeft, OneExecutes, SourceGone, OwnFiles,
   FaultsCounted, Uncounted, FailedIsOver, StatusIsTrue, NewJob, Running, Holds, AfterSource

LEMMA VideoInvStep == VideoBase /\ VideoInv /\ [VideoNext]_videoVars => VideoInv'
<1> SUFFICES ASSUME VideoBase, VideoInv, [VideoNext]_videoVars PROVE VideoInv'
  OBVIOUS
<1>1. OneExecutes /\ SourceGone /\ OwnFiles /\ FaultsCounted /\ FailedIsOver
  BY DEF VideoInv
<1>2. OneExecutes' /\ SourceGone' /\ OwnFiles' /\ FaultsCounted' /\ FailedIsOver'
  BY <1>1, OneExecutesStep, SourceGoneStep, OwnFilesStep, FaultsCountedStep, FailedIsOverStep
<1>3. UploaderFirst' /\ AttemptsLeft'
  BY JobShapeStep, UploaderStep
<1> QED
  BY <1>2, <1>3, StatusStep DEF VideoInv

LEMMA VideoInvHolds == VideoSpec => [](VideoBase /\ VideoInv)
<1>1. VideoInit => VideoBase /\ VideoInv
  BY VideoBaseInit, VideoInvInit DEF VideoInit
<1> QED
  BY <1>1, VideoBaseStep, VideoInvStep, PTL DEF VideoSpec

\* StatusIsTrue: whatever fails, stalls or dies, and however many executions there are, a video
\* that is called a success was uploaded whole unless two of them have overlapped, and one
\* that is called failed had a fault in each attempt or one that no attempt can make good.
THEOREM RowIsTrue == VideoSpec => []StatusIsTrue
<1>1. VideoInv => StatusIsTrue
  BY DEF VideoInv
<1> QED
  BY <1>1, VideoInvHolds, PTL

LEMMA SettledStep ==
    ASSUME VideoBase, VideoInv, [VideoNext]_videoVars, status \in Settled
    PROVE  status' = status \/ late' \/ refused' \/ overlap'
<1>0. JobShape /\ VideoFlags /\ UploaderFirst /\ AttemptsLeft
  BY VideoTypeParts DEF VideoBase
<1>00. (overlap => overlap') /\ (refused => refused') /\ (late => late')
  BY <1>0, VideoFlagsStep DEF Recorded
<1> SUFFICES ASSUME ~ overlap, ~ refused, ~ late, ~ overlap' PROVE status' = status
  BY <1>00
<1>1. status = "failed" => job.state = "failed"
  BY DEF VideoInv, FailedIsOver
<1>2. status = "success" => job.state = "completed" \/ \E s \in Slots : Holds(s) /\ pc[s] \in AfterSource
  BY DEF VideoInv, SourceGone
<1>3. ASSUME NEW s \in Slots, Running(s)
      PROVE  /\ \A t \in Slots \ {s} : pc[t] = "idle"
             /\ job.state \in {"waiting", "active"} \/ (job.state = "failed" /\ pc[s] = "mark")
  BY <1>3 DEF VideoInv, OneExecutes, Alone, Running
<1>4. ASSUME NEW s \in Slots, pc[s] = "start" PROVE FALSE
  BY <1>0, <1>1, <1>2, <1>3, <1>4 DEF Settled, Running, AfterSource, JobShape
<1>5. ASSUME NEW s \in Slots, pc[s] = "success" PROVE status = "success"
  BY <1>0, <1>1, <1>2, <1>3, <1>5 DEF Settled, Running
<1>6. ASSUME NEW s \in Slots, pc[s] = "mark" PROVE status = "failed"
  BY <1>0, <1>1, <1>2, <1>3, <1>6 DEF Settled, Running, AfterSource, JobShape, AttemptsLeft
<1>7. CASE Stalled
  <2>1. status # "failed"
    BY <1>1, <1>7 DEF Stalled
  <2>2. \A s \in Slots : ~ Holds(s)
    BY <1>7, VideoAssumption DEF Stalled, Holds
  <2>3. QED
    BY <1>2, <1>7, <2>1, <2>2 DEF Stalled, Settled
<1>8. CASE Upload
  BY <1>0, <1>8 DEF Upload, InsertStatus, AddJob, MarkRefused, UploaderFirst, Settled
<1>9. ASSUME NEW s \in Slots, EncodeVideoStream(s) PROVE status' = status
  <2>1. ~ Processing(s)
    BY <1>4 DEF Processing
  <2>2. CASE Success(s)
    BY <1>5, <2>2 DEF Success, UpdateVideoStatus
  <2>3. QED
    BY <1>9, <2>1, <2>2 DEF EncodeVideoStream, Encode, Encoded, DeleteSource, UploadFiles, DeleteDirectory
<1>10. ASSUME NEW s \in Slots, MarkVideoEncodingFailed(s) PROVE status' = status
  BY <1>6, <1>10 DEF MarkVideoEncodingFailed, UpdateVideoStatus
<1>11. ASSUME NEW s \in Slots, Take(s) \/ Completed(s) \/ Failed(s) PROVE status' = status
  BY <1>11 DEF Take, Completed, Failed
<1>12. ASSUME NEW s \in Slots, EncodingThrows(s) \/ WorkerDies(s) \/ LockLost(s) PROVE status' = status
  BY <1>12 DEF EncodingThrows, WorkerDies, LockLost
<1>13. CASE UploaderDies \/ UNCHANGED videoVars
  BY <1>13 DEF UploaderDies, videoVars
<1> QED
  BY <1>7, <1>8, <1>9, <1>10, <1>11, <1>12, <1>13 DEF VideoNext, Process

\* SettledStays: although every write of the row is unconditional, what it says of a settled
\* video changes only after a late deletion of the source, a refused job or an overlap.
THEOREM SettledRowStays == VideoSpec => SettledStays
<1>1. VideoBase /\ VideoInv /\ [VideoNext]_videoVars
      => [(status \in Settled) => status' = status \/ late' \/ refused' \/ overlap']_videoVars
  BY SettledStep
<1> QED
  BY <1>1, VideoInvHolds, PTL DEF VideoSpec, SettledStays

-----------------------------------------------------------------------------
(* Notifications: the oldest of them                                       *)

LEMMA RowsFinite ==
    ASSUME rows \subseteq Ids
    PROVE  /\ rows \subseteq Nat /\ IsFiniteSet(rows)
           /\ Cardinality(rows) \in Nat /\ Cardinality(rows) <= MaxNotifications
<1>1. IsFiniteSet(Ids) /\ Cardinality(Ids) = MaxNotifications /\ Ids \subseteq Nat
  BY FS_Interval, NotificationAssumption DEF Ids
<1> QED
  BY <1>1, FS_Subset, FS_CardinalityType

\* ORDER BY read DESC, created_at ASC is a strict and total order.
LEMMA GoesBeforeOrders ==
    ASSUME rows \subseteq Nat
    PROVE  /\ \A i \in rows : ~ GoesBefore(i, i)
           /\ \A i, j \in rows : i # j => GoesBefore(i, j) \/ GoesBefore(j, i)
           /\ \A i, j, k \in rows : GoesBefore(i, j) /\ GoesBefore(j, k) => GoesBefore(i, k)
BY DEF GoesBefore

\* A limited query in that order returns as many notifications as the limit says, or all.
LEMMA OldestAreAsMany ==
    ASSUME rows \subseteq Ids, NEW limit \in Nat
    PROVE  /\ FindOldestForTrim(limit) \subseteq rows
           /\ Cardinality(FindOldestForTrim(limit)) =
                 IF limit <= Cardinality(rows) THEN limit ELSE Cardinality(rows)
<1> DEFINE Before(i) == {j \in rows : GoesBefore(j, i)}
           n == Cardinality(rows)
           rank == [i \in rows |-> Cardinality(Before(i))]
<1>1. rows \subseteq Nat /\ IsFiniteSet(rows) /\ n \in Nat
  BY RowsFinite
<1>2. ASSUME NEW i \in rows
      PROVE  IsFiniteSet(Before(i)) /\ Cardinality(Before(i)) \in 0..(n - 1)
  <2>1. Before(i) \subseteq rows \ {i}
    BY <1>1, GoesBeforeOrders
  <2>2. IsFiniteSet(rows \ {i}) /\ Cardinality(rows \ {i}) = n - 1
    BY <1>1, FS_RemoveElement
  <2>3. IsFiniteSet(Before(i)) /\ Cardinality(Before(i)) <= n - 1
    BY <2>1, <2>2, FS_Subset
  <2>4. QED
    BY <1>1, <2>3, FS_CardinalityType
<1>3. ASSUME NEW i \in rows, NEW k \in rows, GoesBefore(i, k)
      PROVE  Cardinality(Before(i)) < Cardinality(Before(k))
  <2>1. Before(i) \subseteq Before(k) \ {i} /\ i \in Before(k)
    BY <1>1, <1>3, GoesBeforeOrders
  <2>2. IsFiniteSet(Before(k) \ {i}) /\ Cardinality(Before(k) \ {i}) = Cardinality(Before(k)) - 1
    BY <1>2, <2>1, FS_RemoveElement
  <2>3. Cardinality(Before(i)) <= Cardinality(Before(k)) - 1
    BY <2>1, <2>2, FS_Subset
  <2>4. QED
    BY <1>1, <1>2, <2>3
<1>4. \A i, k \in rows : rank[i] = rank[k] => i = k
  <2> SUFFICES ASSUME NEW i \in rows, NEW k \in rows, rank[i] = rank[k], i # k PROVE FALSE
    OBVIOUS
  <2>1. GoesBefore(i, k) \/ GoesBefore(k, i)
    BY <1>1, GoesBeforeOrders
  <2>2. QED
    BY <1>2, <1>3, <2>1
<1>5. rank \in [rows -> 0..(n - 1)]
  BY <1>2
<1> HIDE DEF rank
<1>6. rank \in Injection(rows, 0..(n - 1))
  BY <1>4, <1>5 DEF Injection, IsInjective
<1>7. IsFiniteSet(0..(n - 1)) /\ Cardinality(0..(n - 1)) = n
  BY <1>1, FS_Interval
<1>8. rank \in Surjection(rows, 0..(n - 1))
  BY <1>6, <1>7, FS_Injection
<1>9. FindOldestForTrim(limit) = {i \in rows : rank[i] < limit}
  BY DEF FindOldestForTrim, rank
<1> DEFINE oldest == {i \in rows : rank[i] < limit}
           m == IF limit <= n THEN limit ELSE n
           ranks == [i \in oldest |-> rank[i]]
<1>10. m \in Nat /\ IsFiniteSet(0..(m - 1)) /\ Cardinality(0..(m - 1)) = m
  <2>1. m \in Nat
    BY <1>1
  <2> HIDE DEF m
  <2>2. QED
    BY <2>1, FS_Interval
<1>11. ASSUME NEW i \in oldest PROVE rank[i] \in 0..(m - 1)
  BY <1>1, <1>5, <1>11
<1>12. ranks \in Injection(oldest, 0..(m - 1))
  BY <1>4, <1>11 DEF Injection, IsInjective
<1>13. ASSUME NEW k \in 0..(m - 1) PROVE \E i \in oldest : rank[i] = k
  <2>1. k \in 0..(n - 1) /\ k < limit
    BY <1>1, <1>13
  <2>2. PICK i \in rows : rank[i] = k
    BY <1>8, <2>1 DEF Surjection
  <2>3. QED
    BY <2>1, <2>2
<1>14. ranks \in Surjection(oldest, 0..(m - 1))
  BY <1>11, <1>13 DEF Surjection
<1>15. Cardinality(oldest) = m
  BY <1>10, <1>12, <1>14, FS_Injection
<1> QED
  BY <1>9, <1>15

-----------------------------------------------------------------------------
(* Notifications: the type invariant                                       *)

\* What one request or job holds: a notification to insert has its number, and no more was
\* found to delete than was counted.
TrimOK(t) ==
    /\ t \in Trim
    /\ t.pc \in {"insert", "insertMany"} => t.id \in Ids
    /\ t.pc # "delete" => t.ids = {}
    /\ Cardinality(t.ids) <= t.surplus

TrimShape == trim \in [Trimmers -> Trim] /\ \A a \in Trimmers : TrimOK(trim[a])

RowValues ==
    /\ rows \subseteq Ids /\ read \subseteq rows
    /\ created \in Ids \union {0}
    /\ notificationFaults \in 0..MaxNotificationFaults

Queued == jobs \in Seq(0..TrimAttempts - 1) /\ dropped \in BOOLEAN

NotificationBase == TrimShape /\ RowValues /\ Queued

LEMMA BaseIsTyped == NotificationBase => NotificationTypeOK
BY DEF NotificationBase, TrimShape, TrimOK, RowValues, Queued, NotificationTypeOK

LEMMA AtRestOK == TrimOK(AtRest)
<1>1. Cardinality({}) = 0
  BY FS_EmptySet
<1>2. AtRest \in Trim
  BY NotificationAssumption DEF AtRest, Trim
<1> QED
  BY <1>1, <1>2 DEF TrimOK, AtRest

\* One request or job goes on, and the others stay as they are.
LEMMA TrimChanges ==
    ASSUME TrimShape, NEW a \in Trimmers, NEW t, TrimOK(t), trim' = [trim EXCEPT ![a] = t]
    PROVE  TrimShape' /\ trim'[a] = t /\ \A b \in Trimmers \ {a} : trim'[b] = trim[b]
<1>1. t \in Trim
  BY DEF TrimOK
<1>2. trim' \in [Trimmers -> Trim] /\ trim'[a] = t /\ \A b \in Trimmers \ {a} : trim'[b] = trim[b]
  BY <1>1 DEF TrimShape
<1>3. ASSUME NEW b \in Trimmers PROVE TrimOK(trim'[b])
  BY <1>2 DEF TrimShape
<1> QED
  BY <1>2, <1>3 DEF TrimShape, TrimOK, Ids, Trim

LEMMA TrimRests ==
    ASSUME TrimShape, NEW a \in Trimmers, Rests(a)
    PROVE  TrimShape' /\ trim'[a] = AtRest /\ \A b \in Trimmers \ {a} : trim'[b] = trim[b]
BY AtRestOK, TrimChanges DEF Rests

LEMMA RecordMoves ==
    ASSUME TrimShape, RowValues, NEW a \in Trimmers, Record(a)
    PROVE  /\ TrimShape' /\ created' \in Ids
           /\ trim[a] = AtRest /\ trim'[a].pc \in {"insert", "insertMany"} /\ ~ trim'[a].overtaken
           /\ \A b \in Trimmers \ {a} : trim'[b] = trim[b]
<1> DEFINE n == created + 1
<1>1. PICK step \in {"insert", "insertMany"} :
        trim' = [trim EXCEPT ![a] = [AtRest EXCEPT !.pc = step, !.id = n]]
  BY DEF Record
<1> DEFINE t == [AtRest EXCEPT !.pc = step, !.id = n]
<1>2. n \in Ids /\ trim[a] = AtRest /\ created' = n
  BY NotificationAssumption DEF Record, RowValues, Ids
<1> HIDE DEF n
<1>3. t \in Trim /\ t.pc = step /\ t.id = n /\ ~ t.overtaken /\ t.ids = {} /\ t.surplus = 0
  BY <1>1, <1>2, AtRestOK DEF TrimOK, AtRest, Trim
<1> HIDE DEF t
<1>4. t.pc # "delete" /\ Cardinality(t.ids) = 0
  BY <1>1, <1>3, FS_EmptySet
<1>5. TrimOK(t)
  BY <1>2, <1>3, <1>4 DEF TrimOK
<1>6. TrimShape' /\ trim'[a] = t /\ \A b \in Trimmers \ {a} : trim'[b] = trim[b]
  BY <1>1, <1>5, TrimChanges DEF t
<1>7. ~ trim'[a].overtaken /\ trim'[a].pc \in {"insert", "insertMany"}
  BY <1>3, <1>6
<1> QED
  BY <1>2, <1>6, <1>7

LEMMA CreateMoves ==
    ASSUME TrimShape, NEW a \in Trimmers, CreateNotification(a)
    PROVE  /\ TrimShape' /\ trim[a].id \in Ids
           /\ trim'[a].pc \in {"count", "enqueue"}
           /\ \A b \in Trimmers \ {a} : trim'[b] = trim[b]
<1> DEFINE step == IF trim[a].pc = "insert" THEN "count" ELSE "enqueue"
           t == [trim[a] EXCEPT !.pc = step, !.id = 0]
<1>1. trim' = [trim EXCEPT ![a] = t] /\ trim[a].pc \in {"insert", "insertMany"}
  BY DEF CreateNotification, TrimShape
<1>2. step \in {"count", "enqueue"} /\ TrimOK(trim[a])
  BY DEF TrimShape
<1> HIDE DEF step
<1>3. t \in Trim /\ t.pc = step /\ t.ids = trim[a].ids /\ t.surplus = trim[a].surplus
  BY <1>2 DEF TrimOK, Trim
<1> HIDE DEF t
<1>4. TrimOK(t)
  BY <1>1, <1>2, <1>3 DEF TrimOK
<1> QED
  BY <1>1, <1>2, <1>3, <1>4, TrimChanges DEF TrimOK

LEMMA CountMoves ==
    ASSUME TrimShape, RowValues, NEW a \in Trimmers, CountForRecipient(a)
    PROVE  /\ TrimShape' /\ trim[a].pc = "count"
           /\ \A b \in Trimmers \ {a} : trim'[b] = trim[b]
           /\ \/ Cardinality(rows) <= Limit /\ trim'[a] = AtRest
              \/ /\ Cardinality(rows) > Limit
                 /\ trim'[a].pc = "find" /\ trim'[a].surplus = Cardinality(rows) - Limit
<1>1. Cardinality(rows) \in Nat /\ Cardinality(rows) <= MaxNotifications
  BY RowsFinite DEF RowValues
<1>2. CASE ~ (Cardinality(rows) > Limit)
  BY <1>1, <1>2, TrimRests, NotificationAssumption DEF CountForRecipient
<1>3. CASE Cardinality(rows) > Limit
  <2> DEFINE n == Cardinality(rows) - Limit
             t == [trim[a] EXCEPT !.pc = "find", !.surplus = n]
  <2>1. n \in Ids
    BY <1>1, <1>3, NotificationAssumption DEF Ids
  <2>2. trim' = [trim EXCEPT ![a] = t] /\ trim[a].pc = "count"
    BY <1>3 DEF CountForRecipient, TrimShape
  <2>3. TrimOK(trim[a])
    BY DEF TrimShape
  <2> HIDE DEF n
  <2>4. t \in Trim /\ t.pc = "find" /\ t.surplus = n /\ t.ids = trim[a].ids
    BY <2>1, <2>3 DEF TrimOK, Trim
  <2> HIDE DEF t
  <2>5. TrimOK(t)
    BY <2>1, <2>2, <2>3, <2>4, FS_EmptySet DEF TrimOK, Ids
  <2> QED
    BY <1>3, <2>2, <2>4, <2>5, TrimChanges DEF n
<1> QED
  BY <1>2, <1>3

LEMMA FindMoves ==
    ASSUME TrimShape, RowValues, NEW a \in Trimmers, FindOldest(a)
    PROVE  /\ TrimShape' /\ trim[a].pc = "find"
           /\ \A b \in Trimmers \ {a} : trim'[b] = trim[b]
           /\ trim'[a].pc = "delete" /\ trim'[a].ids = FindOldestForTrim(trim[a].surplus)
           /\ trim'[a].overtaken = trim[a].overtaken
<1> DEFINE oldest == FindOldestForTrim(trim[a].surplus)
           t == [trim[a] EXCEPT !.pc = "delete", !.ids = oldest]
<1>1. trim' = [trim EXCEPT ![a] = t] /\ trim[a].pc = "find"
  BY DEF FindOldest, TrimShape
<1>2. TrimOK(trim[a]) /\ trim[a].surplus \in Nat
  BY NotificationAssumption DEF TrimShape, TrimOK, Trim, Ids
<1>3. oldest \in SUBSET Ids /\ Cardinality(oldest) <= trim[a].surplus
  BY <1>2, OldestAreAsMany, RowsFinite DEF RowValues
<1> HIDE DEF oldest
<1>4. /\ t \in Trim /\ t.pc = "delete" /\ t.ids = oldest /\ t.surplus = trim[a].surplus
      /\ t.overtaken = trim[a].overtaken
  BY <1>2, <1>3 DEF TrimOK, Trim
<1> HIDE DEF t
<1>5. TrimOK(t)
  BY <1>3, <1>4 DEF TrimOK
<1> QED
  BY <1>1, <1>4, <1>5, TrimChanges DEF oldest

LEMMA DeleteMoves ==
    ASSUME TrimShape, NEW a \in Trimmers, DeleteNotifications(a)
    PROVE  /\ TrimShape' /\ trim[a].pc = "delete" /\ trim'[a] = AtRest
           /\ \A b \in Trimmers \ {a} :
                 /\ trim'[b].pc = trim[b].pc /\ trim'[b].surplus = trim[b].surplus
                 /\ trim'[b].ids = trim[b].ids
                 /\ ~ trim'[b].overtaken =>
                       ~ trim[b].overtaken /\ (trim[b].pc \in {"find", "delete"} => rows' = rows)
<1> DEFINE over(b) == trim[b].overtaken \/ (trim[b].pc \in {"find", "delete"} /\ rows' # rows)
           t(b) == IF b = a THEN AtRest ELSE [trim[b] EXCEPT !.overtaken = over(b)]
<1>1. trim' = [b \in Trimmers |-> t(b)] /\ trim[a].pc = "delete"
  BY DEF DeleteNotifications
<1>2. ASSUME NEW b \in Trimmers \ {a}
      PROVE  /\ TrimOK(t(b))
             /\ t(b).pc = trim[b].pc /\ t(b).surplus = trim[b].surplus /\ t(b).ids = trim[b].ids
             /\ ~ t(b).overtaken =>
                   ~ trim[b].overtaken /\ (trim[b].pc \in {"find", "delete"} => rows' = rows)
  <2>1. TrimOK(trim[b]) /\ over(b) \in BOOLEAN
    BY DEF TrimShape
  <2>2. ~ over(b) => ~ trim[b].overtaken /\ (trim[b].pc \in {"find", "delete"} => rows' = rows)
    OBVIOUS
  <2> DEFINE o == over(b)
             u == [trim[b] EXCEPT !.overtaken = o]
  <2>3. t(b) = u
    OBVIOUS
  <2> HIDE DEF o
  <2>4. /\ u \in Trim /\ u.pc = trim[b].pc /\ u.surplus = trim[b].surplus
        /\ u.ids = trim[b].ids /\ u.id = trim[b].id /\ u.overtaken = o
    BY <2>1 DEF TrimOK, Trim, o
  <2> HIDE DEF u
  <2>5. TrimOK(u)
    BY <2>1, <2>4 DEF TrimOK
  <2> HIDE DEF t
  <2> QED
    BY <2>2, <2>3, <2>4, <2>5 DEF o
<1>3. ASSUME NEW b \in Trimmers PROVE TrimOK(t(b))
  <2>1. CASE b = a
    BY <2>1, AtRestOK
  <2>2. CASE b # a
    <3>1. b \in Trimmers \ {a}
      BY <2>2
    <3> HIDE DEF t
    <3>2. QED
      BY <1>2, <3>1
  <2>3. QED
    BY <2>1, <2>2
<1> HIDE DEF t
<1>4. trim' \in [Trimmers -> Trim] /\ \A b \in Trimmers : trim'[b] = t(b)
  BY <1>1, <1>3 DEF TrimOK
<1>5. TrimShape'
  BY <1>3, <1>4 DEF TrimShape, TrimOK, Ids, Trim
<1> QED
  BY <1>1, <1>2, <1>4, <1>5 DEF t

LEMMA TakeTrimMoves ==
    ASSUME TrimShape, Queued, TakeTrim
    PROVE  /\ TrimShape' /\ Queued'
           /\ trim[TrimWorker] = AtRest /\ trim'[TrimWorker].pc = "count"
           /\ \A b \in Trimmers \ {TrimWorker} : trim'[b] = trim[b]
<1> DEFINE made == Head(jobs)
           t == [AtRest EXCEPT !.pc = "count", !.made = made]
<1>0. jobs # <<>> /\ jobs' = Tail(jobs)
  BY DEF TakeTrim
<1>1. made \in 0..TrimAttempts - 1 /\ jobs' \in Seq(0..TrimAttempts - 1)
  BY <1>0, HeadTailProperties DEF Queued
<1>2. trim' = [trim EXCEPT ![TrimWorker] = t] /\ trim[TrimWorker] = AtRest /\ dropped' = dropped
  BY DEF TakeTrim
<1> HIDE DEF made
<1>3. t \in Trim /\ t.pc = "count" /\ t.ids = {} /\ t.surplus = 0
  BY <1>1, AtRestOK DEF TrimOK, AtRest, Trim
<1> HIDE DEF t
<1>4. TrimOK(t)
  BY <1>3, FS_EmptySet DEF TrimOK
<1> QED
  BY <1>1, <1>2, <1>3, <1>4, TrimChanges DEF Trimmers, Queued

LEMMA NotificationBaseStep == NotificationBase /\ [NotificationNext]_notificationVars => NotificationBase'
<1> SUFFICES ASSUME NotificationBase, [NotificationNext]_notificationVars PROVE NotificationBase'
  OBVIOUS
<1> USE NotificationAssumption DEF NotificationBase
<1>0. 0 \in 0..TrimAttempts - 1
  OBVIOUS
<1>1. ASSUME NEW a \in Trimmers, Record(a) PROVE NotificationBase'
  BY <1>1, RecordMoves DEF Record, RowValues, Queued
<1>2. ASSUME NEW a \in Trimmers, CreateNotification(a) PROVE NotificationBase'
  BY <1>2, CreateMoves DEF CreateNotification, RowValues, Queued
<1>3. ASSUME NEW a \in Trimmers, EnqueueTrim(a) PROVE NotificationBase'
  <2>1. TrimShape' /\ RowValues'
    BY <1>3, TrimRests DEF EnqueueTrim, RowValues
  <2>2. jobs' = Append(jobs, 0) /\ dropped' = dropped
    BY <1>3 DEF EnqueueTrim
  <2>3. QED
    BY <1>0, <2>1, <2>2, AppendProperties DEF Queued
<1>4. ASSUME NEW a \in Trimmers, RequestFails(a) PROVE NotificationBase'
  <2>1. TrimShape'
    BY <1>4, TrimRests DEF RequestFails
  <2>2. /\ rows' = rows \/ (trim[a].pc \in {"insert", "insertMany"} /\ rows' = rows \union {trim[a].id})
        /\ read' = read /\ created' = created /\ NotificationFault
    BY <1>4 DEF RequestFails
  <2>3. RowValues'
    BY <2>2 DEF RowValues, NotificationFault, TrimShape, TrimOK
  <2>4. jobs' = jobs /\ dropped' \in BOOLEAN
    BY <1>4 DEF RequestFails
  <2>5. QED
    BY <2>1, <2>3, <2>4 DEF Queued
<1>5. ASSUME NEW a \in Trimmers, CountForRecipient(a) PROVE NotificationBase'
  BY <1>5, CountMoves DEF CountForRecipient, RowValues, Queued
<1>6. ASSUME NEW a \in Trimmers, FindOldest(a) PROVE NotificationBase'
  BY <1>6, FindMoves DEF FindOldest, RowValues, Queued
<1>7. ASSUME NEW a \in Trimmers, DeleteNotifications(a) PROVE NotificationBase'
  BY <1>7, DeleteMoves DEF DeleteNotifications, RowValues, Queued
<1>8. CASE TakeTrim
  BY <1>8, TakeTrimMoves DEF TakeTrim, RowValues
<1>9. CASE TrimFails
  <2>1. TrimShape'
    BY <1>9, TrimRests DEF TrimFails, Trimmers
  <2>2. RowValues'
    BY <1>9 DEF TrimFails, RowValues, NotificationFault
  <2>3. PICK made \in {trim[TrimWorker].made, trim[TrimWorker].made + 1} :
          IF made < TrimAttempts THEN jobs' = Append(jobs, made) /\ UNCHANGED dropped
                                 ELSE dropped' = TRUE /\ UNCHANGED jobs
    BY <1>9 DEF TrimFails
  <2>4. trim[TrimWorker].made \in 0..TrimAttempts - 1
    BY DEF TrimShape, TrimOK, Trim, Trimmers
  <2>5. CASE made < TrimAttempts
    <3>1. made \in 0..TrimAttempts - 1
      BY <2>3, <2>4, <2>5
    <3>2. QED
      BY <2>1, <2>2, <2>3, <2>5, <3>1, AppendProperties DEF Queued
  <2>6. CASE ~ (made < TrimAttempts)
    BY <2>1, <2>2, <2>3, <2>6 DEF Queued
  <2>7. QED
    BY <2>5, <2>6
<1>10. CASE MarkRead
  <2>1. /\ rows' = rows /\ created' = created /\ trim' = trim /\ jobs' = jobs /\ dropped' = dropped
        /\ notificationFaults' = notificationFaults
    BY <1>10 DEF MarkRead
  <2>2. read' \subseteq rows
    BY <1>10 DEF MarkRead, RowValues
  <2>3. QED
    BY <2>1, <2>2 DEF TrimShape, TrimOK, RowValues, Queued
<1>11. CASE UNCHANGED notificationVars
  BY <1>11 DEF notificationVars, TrimShape, TrimOK, RowValues, Queued
<1> QED
  BY <1>1, <1>2, <1>3, <1>4, <1>5, <1>6, <1>7, <1>8, <1>9, <1>10, <1>11 DEF NotificationNext, Write,
     TrimRecipient

LEMMA NotificationBaseInit == NotificationInit => NotificationBase
<1> SUFFICES ASSUME NotificationInit PROVE NotificationBase
  OBVIOUS
<1>1. TrimShape
  BY AtRestOK DEF NotificationInit, TrimShape, TrimOK
<1>2. RowValues
  BY NotificationAssumption DEF NotificationInit, RowValues
<1>3. jobs \in Seq(0..TrimAttempts - 1)
  BY DEF NotificationInit
<1>4. dropped \in BOOLEAN
  BY DEF NotificationInit
<1> QED
  BY <1>1, <1>2, <1>3, <1>4 DEF NotificationBase, Queued

\* The state keeps its shape, and a trim never takes more than it has counted: the limited
\* query of the oldest notifications gives no more than its limit.
THEOREM NotificationTypeCorrect == NotificationSpec => []NotificationTypeOK
<1> QED
  BY NotificationBaseInit, NotificationBaseStep, BaseIsTyped, PTL DEF NotificationSpec

-----------------------------------------------------------------------------
(* Notifications: the surplus                                              *)

LEMMA FewerRows ==
    ASSUME rows \subseteq Ids, NEW S, NEW T \in SUBSET S, S \subseteq Ids
    PROVE  /\ IsFiniteSet(S) /\ Cardinality(S) \in Nat /\ Cardinality(T) \in Nat
           /\ Cardinality(T) <= Cardinality(S)
<1>1. IsFiniteSet(Ids)
  BY FS_Interval, NotificationAssumption DEF Ids
<1> QED
  BY <1>1, FS_Subset, FS_CardinalityType

\* The rows that a limited query leaves.
LEMMA RowsLeft ==
    ASSUME rows \subseteq Ids, NEW limit \in Nat
    PROVE  Cardinality(rows \ FindOldestForTrim(limit)) =
             IF limit <= Cardinality(rows) THEN Cardinality(rows) - limit ELSE 0
<1> DEFINE oldest == FindOldestForTrim(limit)
<1>1. /\ oldest \subseteq rows /\ IsFiniteSet(rows) /\ Cardinality(rows) \in Nat
      /\ Cardinality(oldest) = IF limit <= Cardinality(rows) THEN limit ELSE Cardinality(rows)
  BY OldestAreAsMany, RowsFinite
<1> HIDE DEF oldest
<1>2. Cardinality(rows \ oldest) = Cardinality(rows) - Cardinality(oldest)
  <2>1. rows \cap oldest = oldest
    BY <1>1
  <2>2. Cardinality(rows \ oldest) = Cardinality(rows) - Cardinality(rows \cap oldest)
    BY <1>1, FS_Difference
  <2>3. QED
    BY <2>1, <2>2
<1> QED
  BY <1>1, <1>2 DEF oldest

\* A request or job that will bring the rows down to the limit, if nobody else touches them.
Covers(a) ==
    \/ trim[a].pc \in {"enqueue", "count"}
    \/ trim[a].pc = "find" /\ trim[a].surplus + Limit >= Cardinality(rows)
    \/ trim[a].pc = "delete" /\ Cardinality(rows \ trim[a].ids) <= Limit

\* A surplus is covered by one that has yet to count, or whose count still reaches it: it is
\* not enough that somebody is trimming, who may have counted before the last insert.
TrimCovered ==
    Cardinality(rows) > Limit => dropped \/ jobs # <<>> \/ \E a \in Trimmers : Covers(a)

LEMMA CoveredStep ==
    ASSUME NotificationBase, TrimCovered, [NotificationNext]_notificationVars
    PROVE  TrimCovered'
<1>0. TrimShape /\ RowValues /\ Queued /\ rows \subseteq Ids /\ Cardinality(rows) \in Nat
  BY RowsFinite DEF NotificationBase, RowValues
<1> USE NotificationAssumption
<1>1. ASSUME NEW a \in Trimmers, rows' = rows, jobs' = jobs, dropped => dropped',
             ~ Covers(a), \A b \in Trimmers \ {a} : trim'[b] = trim[b]
      PROVE  TrimCovered'
  BY <1>1 DEF TrimCovered, Covers
<1>2. ASSUME NEW a \in Trimmers, trim'[a].pc \in {"enqueue", "count"} PROVE TrimCovered'
  BY <1>2 DEF TrimCovered, Covers
<1>3. ASSUME NEW a \in Trimmers, Record(a) PROVE TrimCovered'
  <2>1. ~ Covers(a)
    BY <1>0, <1>3, RecordMoves DEF Covers, AtRest
  <2>2. QED
    BY <1>0, <1>1, <1>3, <2>1, RecordMoves DEF Record
<1>4. ASSUME NEW a \in Trimmers, CreateNotification(a) PROVE TrimCovered'
  BY <1>0, <1>2, <1>4, CreateMoves
<1>5. ASSUME NEW a \in Trimmers, EnqueueTrim(a) PROVE TrimCovered'
  <2>1. jobs' = Append(jobs, 0) /\ 0 \in 0..TrimAttempts - 1
    BY <1>5 DEF EnqueueTrim
  <2>2. jobs' # <<>>
    BY <1>0, <2>1, AppendProperties DEF Queued
  <2>3. QED
    BY <2>2 DEF TrimCovered
<1>6. ASSUME NEW a \in Trimmers, RequestFails(a) PROVE TrimCovered'
  <2>1. jobs' = jobs /\ (dropped' <=> dropped \/ trim[a].pc \notin {"insert", "insertMany"} \/ rows' # rows)
    BY <1>6 DEF RequestFails
  <2>2. CASE dropped'
    BY <2>2 DEF TrimCovered
  <2>3. CASE ~ dropped'
    <3>1. ~ Covers(a)
      BY <2>1, <2>3 DEF Covers
    <3>2. \A b \in Trimmers \ {a} : trim'[b] = trim[b]
      BY <1>0, <1>6, TrimRests DEF RequestFails
    <3>3. QED
      BY <1>1, <2>1, <2>3, <3>1, <3>2
  <2>4. QED
    BY <2>2, <2>3
<1>7. ASSUME NEW a \in Trimmers, CountForRecipient(a) PROVE TrimCovered'
  <2>1. rows' = rows
    BY <1>7 DEF CountForRecipient
  <2>2. CASE Cardinality(rows) <= Limit
    BY <1>0, <2>1, <2>2 DEF TrimCovered
  <2>3. CASE ~ (Cardinality(rows) <= Limit)
    <3>1. trim'[a].pc = "find" /\ trim'[a].surplus = Cardinality(rows) - Limit
      BY <1>0, <1>7, <2>3, CountMoves
    <3>2. trim'[a].surplus + Limit >= Cardinality(rows')
      BY <1>0, <2>1, <3>1
    <3>3. QED
      BY <3>1, <3>2 DEF TrimCovered, Covers
  <2>4. QED
    BY <2>2, <2>3
<1>8. ASSUME NEW a \in Trimmers, FindOldest(a) PROVE TrimCovered'
  <2>1. rows' = rows /\ jobs' = jobs /\ dropped' = dropped
    BY <1>8 DEF FindOldest
  <2>2. CASE ~ Covers(a)
    BY <1>0, <1>1, <1>8, <2>1, <2>2, FindMoves
  <2>3. CASE Covers(a)
    <3>1. trim[a].surplus \in Nat
      BY <1>0 DEF TrimShape, TrimOK, Trim, Ids
    <3>2. trim[a].surplus + Limit >= Cardinality(rows)
      BY <1>0, <1>8, <2>3, FindMoves DEF Covers
    <3>3. Cardinality(rows \ FindOldestForTrim(trim[a].surplus)) <= Limit
      BY <1>0, <3>1, <3>2, RowsLeft
    <3>4. QED
      BY <1>0, <1>8, <2>1, <3>3, FindMoves DEF TrimCovered, Covers
  <2>4. QED
    BY <2>2, <2>3
<1>9. ASSUME NEW a \in Trimmers, DeleteNotifications(a) PROVE TrimCovered'
  <2>1. rows' = rows \ trim[a].ids /\ jobs' = jobs /\ dropped' = dropped /\ trim[a].pc = "delete"
    BY <1>9 DEF DeleteNotifications
  <2> SUFFICES ASSUME Cardinality(rows') > Limit, ~ dropped, jobs = <<>>
               PROVE  \E b \in Trimmers : Covers(b)'
    BY <2>1 DEF TrimCovered
  <2>2. Cardinality(rows') \in Nat /\ Cardinality(rows') <= Cardinality(rows)
    BY <1>0, <2>1, FewerRows
  <2>3. PICK b \in Trimmers : Covers(b)
    BY <1>0, <2>2 DEF TrimCovered
  <2>4. b # a
    <3> SUFFICES ASSUME b = a PROVE FALSE
      OBVIOUS
    <3>1. Cardinality(rows \ trim[a].ids) <= Limit
      BY <2>1, <2>3 DEF Covers
    <3>2. Cardinality(rows') <= Limit
      BY <2>1, <3>1
    <3>3. QED
      BY <2>2, <3>2
  <2>5. trim'[b].pc = trim[b].pc /\ trim'[b].surplus = trim[b].surplus /\ trim'[b].ids = trim[b].ids
    BY <1>0, <1>9, <2>4, DeleteMoves
  <2>6. rows' \ trim[b].ids \in SUBSET (rows \ trim[b].ids) /\ rows \ trim[b].ids \subseteq Ids
    BY <1>0, <2>1
  <2>7. /\ Cardinality(rows' \ trim[b].ids) \in Nat /\ Cardinality(rows \ trim[b].ids) \in Nat
        /\ Cardinality(rows' \ trim[b].ids) <= Cardinality(rows \ trim[b].ids)
    BY <1>0, <2>6, FewerRows
  <2>8. trim[b].surplus \in Nat
    BY <1>0 DEF TrimShape, TrimOK, Trim, Ids
  <2>9. CASE trim[b].pc = "find"
    BY <1>0, <2>2, <2>3, <2>5, <2>8, <2>9 DEF Covers
  <2>10. CASE trim[b].pc = "delete"
    <3>1. Cardinality(rows \ trim[b].ids) <= Limit
      BY <2>3, <2>10 DEF Covers
    <3>2. Cardinality(rows' \ trim[b].ids) <= Limit
      BY <2>7, <3>1
    <3>3. Cardinality(rows' \ trim'[b].ids) <= Limit /\ trim'[b].pc = "delete"
      BY <2>5, <2>10, <3>2
    <3>4. QED
      BY <3>3 DEF Covers
  <2>11. CASE trim[b].pc \in {"enqueue", "count"}
    BY <2>5, <2>11 DEF Covers
  <2>12. QED
    BY <2>3, <2>9, <2>10, <2>11 DEF Covers
<1>10. CASE TakeTrim
  BY <1>0, <1>2, <1>10, TakeTrimMoves DEF Trimmers
<1>11. CASE TrimFails
  <2>1. trim[TrimWorker].made \in 0..TrimAttempts - 1
    BY <1>0 DEF TrimShape, TrimOK, Trim, Trimmers
  <2>2. dropped' \/ \E made \in 0..TrimAttempts - 1 : jobs' = Append(jobs, made)
    BY <1>11, <2>1 DEF TrimFails
  <2>3. QED
    BY <1>0, <2>2, AppendProperties DEF TrimCovered, Queued
<1>12. CASE MarkRead
  BY <1>12 DEF MarkRead, TrimCovered, Covers
<1>13. CASE UNCHANGED notificationVars
  BY <1>13 DEF notificationVars, TrimCovered, Covers
<1> QED
  BY <1>3, <1>4, <1>5, <1>6, <1>7, <1>8, <1>9, <1>10, <1>11, <1>12, <1>13 DEF NotificationNext, Write,
     TrimRecipient

\* SurplusIsTrimmed: however inserts, trims and failures of any number of requests and the
\* worker interleave, a surplus is never left without somebody who will take it.
THEOREM SurplusGoes == NotificationSpec => []SurplusIsTrimmed
<1>1. NotificationInit => TrimCovered
  BY FS_EmptySet, NotificationAssumption DEF NotificationInit, TrimCovered
<1>2. TrimCovered => SurplusIsTrimmed
  BY DEF TrimCovered, Covers, SurplusIsTrimmed
<1> QED
  BY <1>1, <1>2, NotificationBaseInit, NotificationBaseStep, CoveredStep, PTL DEF NotificationSpec

\* What was counted or found is still surplus, unless another trim has deleted since.
Stands(a) ==
    ~ trim[a].overtaken =>
        /\ trim[a].pc = "find" => Cardinality(rows) >= trim[a].surplus + Limit
        /\ trim[a].pc = "delete" => Cardinality(rows \ trim[a].ids) >= Limit

CountStands == \A a \in Trimmers : Stands(a)

LEMMA CountStandsStep ==
    ASSUME NotificationBase, CountStands, [NotificationNext]_notificationVars
    PROVE  CountStands'
<1>0. TrimShape /\ RowValues /\ Queued /\ rows \subseteq Ids /\ Cardinality(rows) \in Nat
      /\ TrimShape' /\ rows' \subseteq Ids
  BY RowsFinite, NotificationBaseStep DEF NotificationBase, RowValues
<1> USE NotificationAssumption
<1>1. ASSUME NEW b \in Trimmers, rows \subseteq rows', trim'[b] = trim[b] PROVE Stands(b)'
  <2>1. /\ Cardinality(rows') \in Nat /\ Cardinality(rows) <= Cardinality(rows')
    BY <1>0, <1>1, FewerRows
  <2>2. rows \ trim[b].ids \in SUBSET (rows' \ trim[b].ids) /\ rows' \ trim[b].ids \subseteq Ids
    BY <1>0, <1>1
  <2>3. /\ Cardinality(rows \ trim[b].ids) \in Nat /\ Cardinality(rows' \ trim[b].ids) \in Nat
        /\ Cardinality(rows \ trim[b].ids) <= Cardinality(rows' \ trim[b].ids)
    BY <1>0, <2>2, FewerRows
  <2>4. trim[b].surplus \in Nat
    BY <1>0 DEF TrimShape, TrimOK, Trim, Ids
  <2>5. Stands(b)
    BY DEF CountStands
  <2>6. CASE trim[b].pc = "find"
    BY <1>0, <1>1, <2>1, <2>4, <2>5, <2>6 DEF Stands
  <2>7. CASE trim[b].pc = "delete" /\ ~ trim[b].overtaken
    <3>1. Cardinality(rows \ trim[b].ids) >= Limit
      BY <2>5, <2>7 DEF Stands
    <3>2. Cardinality(rows' \ trim'[b].ids) >= Limit
      BY <1>1, <2>3, <3>1
    <3>3. QED
      BY <1>1, <2>7, <3>2 DEF Stands
  <2>8. QED
    BY <1>1, <2>6, <2>7 DEF Stands
<1>2. ASSUME NEW a \in Trimmers, rows \subseteq rows', trim'[a].pc \notin {"find", "delete"},
             \A b \in Trimmers \ {a} : trim'[b] = trim[b]
      PROVE  CountStands'
  <2>1. Stands(a)'
    BY <1>2 DEF Stands
  <2>2. QED
    BY <1>1, <1>2, <2>1 DEF CountStands
<1>3. ASSUME NEW a \in Trimmers, Write(a) PROVE CountStands'
  <2>1. rows \subseteq rows'
    BY <1>3 DEF Write, Record, CreateNotification, EnqueueTrim, RequestFails
  <2>2. CASE Record(a)
    BY <1>0, <1>2, <2>1, <2>2, RecordMoves
  <2>3. CASE CreateNotification(a)
    BY <1>0, <1>2, <2>1, <2>3, CreateMoves
  <2>4. CASE EnqueueTrim(a) \/ RequestFails(a)
    BY <1>0, <1>2, <2>1, <2>4, TrimRests DEF EnqueueTrim, RequestFails, AtRest
  <2>5. QED
    BY <1>3, <2>2, <2>3, <2>4 DEF Write
<1>4. ASSUME NEW a \in Trimmers, CountForRecipient(a) PROVE CountStands'
  <2>1. rows' = rows
    BY <1>4 DEF CountForRecipient
  <2>2. CASE trim'[a] = AtRest
    BY <1>0, <1>2, <1>4, <2>1, <2>2, CountMoves DEF AtRest
  <2>3. CASE trim'[a].pc = "find" /\ trim'[a].surplus = Cardinality(rows) - Limit
    <3>1. Cardinality(rows') >= trim'[a].surplus + Limit
      BY <1>0, <2>1, <2>3
    <3>2. Stands(a)'
      BY <2>3, <3>1 DEF Stands
    <3>3. QED
      BY <1>0, <1>1, <1>4, <2>1, <3>2, CountMoves DEF CountStands
  <2>4. QED
    BY <1>0, <1>4, <2>2, <2>3, CountMoves
<1>5. ASSUME NEW a \in Trimmers, FindOldest(a) PROVE CountStands'
  <2>1. rows' = rows /\ trim[a].pc = "find"
    BY <1>5 DEF FindOldest
  <2>2. trim[a].surplus \in Nat
    BY <1>0 DEF TrimShape, TrimOK, Trim, Ids
  <2>3. ~ trim[a].overtaken => Cardinality(rows) >= trim[a].surplus + Limit
    BY <2>1 DEF CountStands, Stands
  <2>4. ~ trim[a].overtaken => Cardinality(rows \ FindOldestForTrim(trim[a].surplus)) >= Limit
    <3> DEFINE n == trim[a].surplus
               left == Cardinality(rows \ FindOldestForTrim(n))
    <3> SUFFICES ASSUME ~ trim[a].overtaken PROVE left >= Limit
      OBVIOUS
    <3>1. n \in Nat /\ Cardinality(rows) >= n + Limit
      BY <2>2, <2>3
    <3> HIDE DEF n
    <3>2. left = IF n <= Cardinality(rows) THEN Cardinality(rows) - n ELSE 0
      BY <1>0, <3>1, RowsLeft
    <3> HIDE DEF left
    <3>3. QED
      BY <1>0, <3>1, <3>2
  <2>5. Stands(a)'
    <3>1. /\ trim'[a].pc = "delete" /\ trim'[a].ids = FindOldestForTrim(trim[a].surplus)
          /\ trim'[a].overtaken = trim[a].overtaken
      BY <1>0, <1>5, FindMoves
    <3>2. ~ trim[a].overtaken => Cardinality(rows' \ trim'[a].ids) >= Limit
      BY <2>1, <2>4, <3>1
    <3>3. QED
      BY <3>1, <3>2 DEF Stands
  <2>6. QED
    BY <1>0, <1>1, <1>5, <2>1, <2>5, FindMoves DEF CountStands
<1>6. ASSUME NEW a \in Trimmers, DeleteNotifications(a) PROVE CountStands'
  <2>1. Stands(a)'
    BY <1>0, <1>6, DeleteMoves DEF Stands, AtRest
  <2>2. ASSUME NEW b \in Trimmers \ {a} PROVE Stands(b)'
    <3> SUFFICES ASSUME ~ trim'[b].overtaken, trim[b].pc \in {"find", "delete"} PROVE Stands(b)'
      BY <1>0, <1>6, DeleteMoves DEF Stands
    <3>1. rows' = rows /\ ~ trim[b].overtaken
      BY <1>0, <1>6, DeleteMoves
    <3>2. trim'[b].pc = trim[b].pc /\ trim'[b].surplus = trim[b].surplus /\ trim'[b].ids = trim[b].ids
      BY <1>0, <1>6, DeleteMoves
    <3>3. Stands(b)
      BY DEF CountStands
    <3>4. QED
      BY <3>1, <3>2, <3>3 DEF Stands
  <2>3. QED
    BY <2>1, <2>2 DEF CountStands
<1>7. CASE TakeTrim
  <2>1. rows' = rows /\ TrimWorker \in Trimmers
    BY <1>7 DEF TakeTrim, Trimmers
  <2>2. QED
    BY <1>0, <1>2, <1>7, <2>1, TakeTrimMoves
<1>8. CASE TrimFails
  <2>1. rows' = rows /\ TrimWorker \in Trimmers /\ Rests(TrimWorker)
    BY <1>8 DEF TrimFails, Trimmers
  <2>2. QED
    BY <1>0, <1>2, <2>1, TrimRests DEF AtRest
<1>9. CASE MarkRead \/ UNCHANGED notificationVars
  BY <1>9, <1>1 DEF MarkRead, notificationVars, CountStands
<1> QED
  BY <1>3, <1>4, <1>5, <1>6, <1>7, <1>8, <1>9 DEF NotificationNext, TrimRecipient

LEMMA TrimsSurplusStep ==
    ASSUME NotificationBase, CountStands, [NotificationNext]_notificationVars
    PROVE  \/ rows \subseteq rows' \/ Cardinality(rows') >= Limit
           \/ \E a \in Trimmers : trim[a].overtaken /\ trim'[a] = AtRest
<1>1. ASSUME NEW a \in Trimmers, DeleteNotifications(a)
      PROVE  Cardinality(rows') >= Limit \/ (trim[a].overtaken /\ trim'[a] = AtRest)
  <2>1. trim[a].pc = "delete" /\ rows' = rows \ trim[a].ids /\ trim'[a] = AtRest
    BY <1>1, DeleteMoves DEF DeleteNotifications, NotificationBase
  <2>2. QED
    BY <2>1 DEF CountStands, Stands
<1>2. ASSUME NEW a \in Trimmers, Write(a) \/ CountForRecipient(a) \/ FindOldest(a)
      PROVE  rows \subseteq rows'
  BY <1>2 DEF Write, Record, CreateNotification, EnqueueTrim, RequestFails, CountForRecipient, FindOldest
<1>3. CASE TakeTrim \/ TrimFails \/ MarkRead \/ UNCHANGED notificationVars
  BY <1>3 DEF TakeTrim, TrimFails, MarkRead, notificationVars
<1> QED
  BY <1>1, <1>2, <1>3 DEF NotificationNext, TrimRecipient

\* TrimsOnlySurplus: a trim goes below the limit only if another trim has deleted between its
\* count and its delete; inserts and reads in between never make it take too much.
THEOREM OnlySurplusGoes == NotificationSpec => TrimsOnlySurplus
<1>1. NotificationInit => CountStands
  BY DEF NotificationInit, CountStands, Stands, AtRest
<1>2. NotificationBase /\ CountStands /\ [NotificationNext]_notificationVars
      => [rows \subseteq rows' \/ Cardinality(rows') >= Limit
          \/ \E a \in Trimmers : trim[a].overtaken /\ trim'[a] = AtRest]_notificationVars
  BY TrimsSurplusStep
<1> QED
  BY <1>1, <1>2, NotificationBaseInit, NotificationBaseStep, CountStandsStep, PTL
     DEF NotificationSpec, TrimsOnlySurplus

-----------------------------------------------------------------------------
(* All four side by side                                                   *)

\* RedisTypeOK: the state of the cache, the idempotency key, the video and the notifications
\* keeps its shape in every behaviour that MCRedis checks.
THEOREM RedisTypeCorrect == RedisSpec => []RedisTypeOK
<1>1. RedisInit => Init /\ IdempotencyInit /\ NotificationInit /\ VideoBase
  BY VideoBaseInit DEF RedisInit
<1>2. [RedisNext]_redisVars =>
        /\ [Next]_vars /\ [IdempotencyNext]_idempotencyVars
        /\ [VideoNext]_videoVars /\ [NotificationNext]_notificationVars
  BY DEF RedisNext, CacheStep, IdempotencyStep, VideoStreamStep, NotificationStep, redisVars
<1>3. RedisSpec => Spec /\ IdempotencySpec /\ NotificationSpec
  BY <1>1, <1>2, PTL DEF RedisSpec, Spec, IdempotencySpec, NotificationSpec
<1>4. VideoBase => VideoTypeOK
  BY DEF VideoBase
<1>5. RedisSpec => []VideoTypeOK
  BY <1>1, <1>2, <1>4, VideoBaseStep, PTL DEF RedisSpec
<1> QED
  BY <1>3, <1>5, CacheTypeCorrect, IdempotencyTypeCorrect, NotificationTypeCorrect, PTL DEF RedisTypeOK
=============================================================================
