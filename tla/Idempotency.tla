------------------------------ MODULE Idempotency ------------------------------
(***************************************************************************)
(* Requests with one idempotency key before one route: IdempotencyInterceptor *)
(* around TimeoutInterceptor around the route's handler.                     *)
(*                                                                         *)
(* A request looks for the stored result, takes the key's lock, runs the     *)
(* handler, stores what it returned and releases the lock.  The timeout      *)
(* ends the wait for the handler and not the handler.                        *)
(***************************************************************************)
EXTENDS Integers

CONSTANTS
    Requests,           \* requests of one user, method, path and key
    NoRequest,          \* no lock, no stored result
    Bodies              \* what the request hash tells apart

ASSUME IdempotencyAssumption == NoRequest \notin Requests

VARIABLES
    entry,      \* the request whose hash and result the result key holds
    keyLock,       \* the request whose token the lock key holds
    request,    \* [Requests -> the execution of intercept and of its handler]
    expired     \* history: a stored result has expired

idempotencyVars == <<entry, keyLock, request, expired>>

-----------------------------------------------------------------------------
HeldPcs     == {"run", "store", "release"}
Pcs         == {"idle", "lookup", "lock", "done"} \union HeldPcs
HandlerPcs  == {"none", "running", "succeeded", "failed"}
Answers     == {"none", "conflict", "busy", "replay", "result", "error", "timeout"}

\* of: the request whose result was replayed; late: a result was stored after this request
\* had looked for one.
Request(b) == [pc |-> "idle", body |-> b, handler |-> "none", answer |-> "none",
               of |-> NoRequest, late |-> FALSE]

Moves(r, pc, handler, answer) ==
    request' = [request EXCEPT ![r].pc = pc, ![r].handler = handler, ![r].answer = answer]

Arrive(r) ==
    /\ request[r].pc = "idle"
    /\ request' = [request EXCEPT ![r].pc = "lookup"]
    /\ UNCHANGED <<entry, keyLock, expired>>

\* A stored result is replayed to the same request, and refused to another.
LookUp(r) ==
    /\ request[r].pc = "lookup"
    /\ \/ /\ entry = NoRequest
          /\ request' = [request EXCEPT ![r].pc = "lock"]
       \/ /\ entry # NoRequest
          /\ request[entry].body = request[r].body
          /\ request' = [request EXCEPT ![r].pc = "done", ![r].answer = "replay", ![r].of = entry]
       \/ /\ entry # NoRequest
          /\ request[entry].body # request[r].body
          /\ Moves(r, "done", "none", "conflict")
    /\ UNCHANGED <<entry, keyLock, expired>>

\* With the lock the handler starts; without it the request is refused.
AcquireKeyLock(r) ==
    /\ request[r].pc = "lock"
    /\ \/ /\ keyLock = NoRequest
          /\ keyLock' = r
          /\ Moves(r, "run", "running", "none")
       \/ /\ keyLock # NoRequest
          /\ Moves(r, "done", "none", "busy")
          /\ UNCHANGED keyLock
    /\ UNCHANGED <<entry, expired>>

\* The handler's work is done: intercept goes on, if it still waits.
HandlerSucceeds(r) ==
    /\ request[r].handler = "running"
    /\ Moves(r, IF request[r].pc = "run" THEN "store" ELSE request[r].pc, "succeeded",
             request[r].answer)
    /\ UNCHANGED <<entry, keyLock, expired>>

\* The handler throws: the finally block is next, and nothing is stored.
HandlerFails(r) ==
    /\ request[r].handler = "running"
    /\ IF request[r].pc = "run"
       THEN Moves(r, "release", "failed", "error")
       ELSE Moves(r, request[r].pc, "failed", request[r].answer)
    /\ UNCHANGED <<entry, keyLock, expired>>

\* Promise.race rejects: the finally block is next, and the handler goes on.
TimesOut(r) ==
    /\ request[r].pc = "run"
    /\ Moves(r, "release", request[r].handler, "timeout")
    /\ UNCHANGED <<entry, keyLock, expired>>

\* The result is written; Redis' answer may be lost, and then the request ends in an error.
StoreResult(r) ==
    /\ request[r].pc = "store"
    /\ entry' = r
    /\ \E answer \in {"result", "error"} :
         request' = [s \in Requests |->
                       IF s = r THEN [request[r] EXCEPT !.pc = "release", !.answer = answer]
                       ELSE [request[s] EXCEPT !.late = @ \/ request[s].pc = "lock"]]
    /\ UNCHANGED <<keyLock, expired>>

\* Redis refuses the result, and the request ends with that error.
StoreFails(r) ==
    /\ request[r].pc = "store"
    /\ Moves(r, "release", request[r].handler, "error")
    /\ UNCHANGED <<entry, keyLock, expired>>

\* Mutant: the lock is released as soon as the handler has returned, before the result is
\* stored.
ReleaseEarly(r) ==
    /\ request[r].pc \in {"store", "release"}
    /\ keyLock = r
    /\ keyLock' = NoRequest
    /\ request' = [request EXCEPT ![r].pc = IF @ = "store" THEN "store" ELSE "done"]
    /\ UNCHANGED <<entry, expired>>

ReleaseKeyLock(r) ==
    /\ request[r].pc = "release"
    /\ keyLock' = IF keyLock = r THEN NoRequest ELSE keyLock
    /\ request' = [request EXCEPT ![r].pc = "done"]
    /\ UNCHANGED <<entry, expired>>

-----------------------------------------------------------------------------
(* Time and faults                                                         *)

\* The process dies with its handler, or Redis fails: a lock that is held stays.
Dies(r) ==
    /\ request[r].pc # "idle"
    /\ request[r].pc # "done" \/ request[r].handler = "running"
    /\ Moves(r, "done", IF request[r].handler = "running" THEN "failed" ELSE request[r].handler,
             request[r].answer)
    /\ UNCHANGED <<entry, keyLock, expired>>

\* Mutant: the seconds are taken for milliseconds, and the lock expires under its holder.
LockExpiresSoon ==
    /\ keyLock # NoRequest
    /\ keyLock' = NoRequest
    /\ UNCHANGED <<entry, request, expired>>

\* processingTtlSeconds are over. The timeout leaves the lock's holder half of them, so
\* only a lock that was left behind gets so old.
KeyLockExpires ==
    /\ keyLock # NoRequest
    /\ request[keyLock].pc = "done"
    /\ keyLock' = NoRequest
    /\ UNCHANGED <<entry, request, expired>>

\* ttlSeconds are over, or Redis evicts the result.
ResultExpires ==
    /\ entry # NoRequest
    /\ entry' = NoRequest
    /\ expired' = TRUE
    /\ UNCHANGED <<keyLock, request>>

-----------------------------------------------------------------------------
IdempotencyInit ==
    /\ entry = NoRequest
    /\ keyLock = NoRequest
    /\ request \in [Requests -> {Request(b) : b \in Bodies}]
    /\ expired = FALSE

Handling(r) == \/ LookUp(r) \/ AcquireKeyLock(r) \/ HandlerSucceeds(r) \/ HandlerFails(r)
               \/ TimesOut(r) \/ StoreResult(r) \/ StoreFails(r) \/ ReleaseKeyLock(r)

IdempotencyNext ==
    \/ \E r \in Requests : Handling(r) \/ Dies(r) \/ Arrive(r)
    \/ KeyLockExpires
    \/ ResultExpires

IdempotencySpec == IdempotencyInit /\ [][IdempotencyNext]_idempotencyVars

-----------------------------------------------------------------------------
(* Properties                                                              *)

RequestState == [pc : Pcs, body : Bodies, handler : HandlerPcs, answer : Answers,
                 of : Requests \union {NoRequest}, late : BOOLEAN]

\* The state's shape: a request past the lock and not at its end holds it, and a stored
\* result is that of a handler that succeeded.
IdempotencyTypeOK ==
    /\ entry \in Requests \union {NoRequest}
    /\ keyLock \in Requests \union {NoRequest}
    /\ request \in [Requests -> RequestState]
    /\ expired \in BOOLEAN
    /\ \A r \in Requests : request[r].pc \in HeldPcs => keyLock = r
    /\ entry # NoRequest => request[entry].handler = "succeeded"

\* "Request with this idempotency key is already processing" (intercept): two handlers of
\* one key run at once only if one of them has been given up by the timeout.
OneRunsUnlessTimedOut ==
    \A r, s \in Requests :
        r # s /\ request[r].handler = "running" /\ request[s].handler = "running"
            => request[r].answer = "timeout" \/ request[s].answer = "timeout"

\* A replayed result is that of the same request, whose handler succeeded (intercept).
ReplayOfSameRequest ==
    \A r \in Requests :
        request[r].answer = "replay"
            => /\ request[request[r].of].handler = "succeeded"
               /\ request[request[r].of].body = request[r].body

\* Two requests of one key have both run the handler and returned its result only if one
\* of them had looked for a result before the other stored it, or a result has expired.
AnsweredOnceUnlessLate ==
    \A r, s \in Requests :
        r # s /\ request[r].answer = "result" /\ request[s].answer = "result"
            => request[r].late \/ request[s].late \/ expired

\* "Request with this idempotency key is already processing" (intercept): a request whose
\* key is being processed is refused, so no two handlers of one key run at once.
OneRuns ==
    \A r, s \in Requests :
        request[r].handler = "running" /\ request[s].handler = "running" => r = s
=============================================================================
