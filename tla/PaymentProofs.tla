---------------------------- MODULE PaymentProofs ----------------------------
(***************************************************************************)
(* Proofs about Payment, for every set of requests, keys, providers,        *)
(* notifications and handlers, and every bound on attempts and faults.      *)
(***************************************************************************)
EXTENDS Payment, TLAPS

-----------------------------------------------------------------------------
(* What the entity's operators return                                      *)

LEMMA OutcomeInOutcomes ==
    ASSUME NEW m \in Notifications
    PROVE  Outcome(m) \in Outcomes
BY DEF Outcome, OutcomeOf, VnpayOutcome, MomoOutcome, Outcomes, FinalOutcomes

LEMMA NewRowsAreRows == NoRow \in Row /\ NewPayment \in Row
BY DEF NoRow, NewPayment, NewRow, Row, Statuses, AttachableStatuses, MutableStatuses

LEMMA ChangedIsRow ==
    ASSUME NEW change \in Changes, NEW row \in Row
    PROVE  /\ Changed(change, row) \in Row
           /\ Changed(change, row).version = row.version
           /\ Changed(change, row).txn = row.txn
BY DEF Changes, Changed, Row, Statuses, AttachableStatuses, MutableStatuses

LEMMA AppliedIsRow ==
    ASSUME NEW m \in Notifications, NEW row \in Row
    PROVE  /\ Applied(row, m) \in Row
           /\ Applied(row, m).version = row.version
           /\ Applied(row, m).url = row.url
<1>1. Outcome(m) \in Statuses
  BY OutcomeInOutcomes DEF Outcomes, Statuses, AttachableStatuses, MutableStatuses
<1>2. m.txn \in Txns \union {NoTxn} /\ m.code \in Codes
  BY NotificationAssumption
<1> QED
  BY <1>1, <1>2 DEF Applied, Row

LEMMA AttemptedIsCreator ==
    ASSUME NEW change \in Changes, NEW row \in Row, NEW attempt \in Nat
    PROVE  /\ Attempted(change, row, attempt) \in CreatorState
           /\ Attempted(change, row, attempt).pc \in {"exhausted", "returned", "save"}
BY ChangedIsRow DEF Attempted, CreatorState, CreatorPcs

LEMMA ChangeForIsChange == \A answer : ChangeFor(answer) \in Changes
BY DEF ChangeFor, Changes

LEMMA ResponseIsReply ==
    \A result \in {"applied", "duplicate", "state_conflict", "thrown", "not_found",
                   "amount_mismatch", "reference_mismatch", "invalid"} :
        Response(result) \in {"ack", "retry", "reject"}
BY DEF Response

LEMMA JudgeIsResult ==
    \A row, m : Judge(row, m) \in {"apply", "duplicate", "state_conflict",
                                   "amount_mismatch", "reference_mismatch"}
BY DEF Judge, Classify

LEMMA BumpedIsRow ==
    ASSUME NEW row \in Row
    PROVE  [row EXCEPT !.version = @ + 1] \in Row
BY DEF Row

-----------------------------------------------------------------------------
(* Type correctness                                                        *)

\* The effect of the shared parts of the actions on the types.
LEMMA StoredType ==
    ASSUME TypeOK, NEW r \in Requests, NEW row \in Row, Stored(r, row)
    PROVE  payments' \in [Requests -> Row]
BY BumpedIsRow DEF Stored, TypeOK

LEMMA CreatorGoesType ==
    ASSUME TypeOK, NEW r \in Requests, NEW pc \in CreatorPcs, CreatorGoes(r, pc)
    PROVE  create' \in [Requests -> CreatorState]
BY DEF CreatorGoes, TypeOK, CreatorState

LEMMA IdleWorkerType == IdleWorker \in WorkerState
BY NewRowsAreRows DEF IdleWorker, WorkerState, WorkerPcs

LEMMA LoadingIsWorker ==
    ASSUME NEW m \in Notifications, NEW attempt \in Nat
    PROVE  Loading(m, attempt) \in WorkerState
BY NewRowsAreRows DEF Loading, WorkerState, WorkerPcs

LEMMA AnsweredType ==
    ASSUME TypeOK, NEW m \in Notifications,
           NEW result \in {"applied", "duplicate", "state_conflict", "thrown", "not_found",
                           "amount_mismatch", "reference_mismatch", "invalid"},
           Answered(m, result)
    PROVE  reply' \in [Notifications -> {"none", "ack", "retry", "reject"}]
<1>1. Response(result) \in {"ack", "retry", "reject"}
  BY ResponseIsReply
<1> QED
  BY <1>1 DEF Answered, TypeOK

LEMMA HandlerEndsType ==
    ASSUME TypeOK, NEW h \in Handlers, worker[h].pc # "idle",
           NEW result \in {"applied", "duplicate", "state_conflict", "thrown", "not_found",
                           "amount_mismatch", "reference_mismatch", "invalid"},
           HandlerEnds(h, result)
    PROVE  /\ worker' \in [Handlers -> WorkerState]
           /\ reply' \in [Notifications -> {"none", "ack", "retry", "reject"}]
<1>1. worker[h].msg \in Notifications
  BY DEF TypeOK, WorkerState
<1>2. worker' = [worker EXCEPT ![h] = IdleWorker] /\ Answered(worker[h].msg, result)
  BY DEF HandlerEnds
<1> QED
  BY <1>1, <1>2, IdleWorkerType, AnsweredType DEF TypeOK

LEMMA ReceiveType ==
    ASSUME TypeOK, NEW h \in Handlers, NEW m \in Notifications, Receive(h, m)
    PROVE  /\ worker' \in [Handlers -> WorkerState]
           /\ reply' \in [Notifications -> {"none", "ack", "retry", "reject"}]
<1>1. CASE VerifyNotification(m)
  <2>1. worker' = [worker EXCEPT ![h] = Loading(m, 0)] /\ UNCHANGED reply
    BY <1>1 DEF Receive
  <2> QED
    BY <2>1, LoadingIsWorker DEF TypeOK
<1>2. CASE ~VerifyNotification(m)
  <2>1. UNCHANGED worker /\ Answered(m, "invalid")
    BY <1>2 DEF Receive
  <2> QED
    BY <2>1, AnsweredType DEF TypeOK
<1> QED
  BY <1>1, <1>2

LEMMA FaultType == ASSUME TypeOK, Fault PROVE faults' \in 0 .. MaxFaults
BY PaymentAssumption DEF TypeOK, Fault

LEMMA CreatorType ==
    ASSUME TypeOK, NEW r \in Requests, Creator(r)
    PROVE  TypeOK'
<1>1. CASE InsertPayment(r)
  <2> DEFINE c == [create[r] EXCEPT !.pc = "inserted", !.row = NewPayment]
  <2>1. c \in CreatorState
    BY NewRowsAreRows DEF TypeOK, CreatorState, CreatorPcs
  <2>2. create' = [create EXCEPT ![r] = c]
    BY <1>1 DEF InsertPayment
  <2>3. create' \in [Requests -> CreatorState]
    BY <2>1, <2>2 DEF TypeOK
  <2>4. payments' \in [Requests -> Row]
    BY <1>1, NewRowsAreRows DEF InsertPayment, TypeOK
  <2> QED
    BY <1>1, <2>3, <2>4 DEF InsertPayment, TypeOK
<1>2. CASE FindExisting(r)
  <2>1. PICK s \in KeyOwners(r) :
          create' = [create EXCEPT ![r].row = payments[s],
                                   ![r].pc = IF FingerprintOf[s] = FingerprintOf[r]
                                             THEN "returned" ELSE "mismatch"]
    BY <1>2 DEF FindExisting
  <2>2. payments[s] \in Row
    BY DEF KeyOwners, TypeOK
  <2> DEFINE c == [create[r] EXCEPT !.row = payments[s],
                                    !.pc = IF FingerprintOf[s] = FingerprintOf[r]
                                           THEN "returned" ELSE "mismatch"]
  <2>3. c \in CreatorState
    BY <2>2 DEF TypeOK, CreatorState, CreatorPcs
  <2>4. create' = [create EXCEPT ![r] = c]
    BY <2>1
  <2> QED
    BY <1>2, <2>3, <2>4 DEF FindExisting, TypeOK
<1>3. CASE CallCheckout(r)
  <2>1. create' \in [Requests -> CreatorState]
    BY <1>3, CreatorGoesType DEF CallCheckout, CreatorPcs
  <2> QED
    BY <1>3, <2>1 DEF CallCheckout, TypeOK
<1>4. CASE CheckoutEnds(r)
  <2>1. PICK answer : create' = [create EXCEPT ![r] =
                        Attempted(ChangeFor(answer), create[r].row, 0)]
    BY <1>4 DEF CheckoutEnds
  <2>2. Attempted(ChangeFor(answer), create[r].row, 0) \in CreatorState
    BY AttemptedIsCreator, ChangeForIsChange DEF TypeOK, CreatorState
  <2> QED
    BY <1>4, <2>1, <2>2 DEF CheckoutEnds, TypeOK
<1>5. CASE SaveChange(r)
  <2>1. create' \in [Requests -> CreatorState]
    BY <1>5, CreatorGoesType DEF SaveChange, CreatorPcs
  <2>2. payments' \in [Requests -> Row]
    BY <1>5, StoredType DEF SaveChange, TypeOK, CreatorState
  <2> QED
    BY <1>5, <2>1, <2>2 DEF SaveChange, TypeOK
<1>6. CASE SaveLost(r)
  <2>1. create' \in [Requests -> CreatorState]
    BY <1>6, CreatorGoesType DEF SaveLost, CreatorPcs
  <2> QED
    BY <1>6, <2>1 DEF SaveLost, TypeOK
<1>7. CASE ReloadPayment(r)
  <2>1. Attempted(create[r].change, payments[r], create[r].attempt + 1) \in CreatorState
    <3>1. create[r].change \in Changes /\ create[r].attempt + 1 \in Nat /\ payments[r] \in Row
      BY DEF TypeOK, CreatorState
    <3> QED
      BY <3>1, AttemptedIsCreator
  <2> QED
    BY <1>7, <2>1 DEF ReloadPayment, TypeOK
<1> QED
  BY <1>1, <1>2, <1>3, <1>4, <1>5, <1>6, <1>7 DEF Creator

LEMMA HandlerType ==
    ASSUME TypeOK, NEW h \in Handlers, Handler(h)
    PROVE  TypeOK'
<1> DEFINE m == worker[h].msg
           row == payments[m.order]
<1>0. worker[h] \in WorkerState
  BY DEF TypeOK
<1>1. CASE OrderNotFound(h)
  <2>1. worker[h].pc # "idle" /\ HandlerEnds(h, "not_found")
    BY <1>1 DEF OrderNotFound
  <2> QED
    BY <1>1, <2>1, HandlerEndsType DEF OrderNotFound, TypeOK
<1>2. CASE LoadPayment(h)
  <2>1. /\ m \in Notifications /\ m.order \in Requests
        /\ row \in Row /\ worker[h].pc # "idle"
    BY <1>0, <1>2 DEF LoadPayment, TypeOK, WorkerState
  <2>2. CASE Judge(row, m) = "apply"
    <3> DEFINE w == [worker[h] EXCEPT !.pc = "save", !.row = Applied(row, m)]
    <3>1. worker' = [worker EXCEPT ![h] = w] /\ UNCHANGED reply
      BY <1>2, <2>2 DEF LoadPayment
    <3>2. w \in WorkerState
      <4>1. Applied(row, m) \in Row
        BY <2>1, AppliedIsRow
      <4> QED
        BY <1>0, <2>1, <4>1 DEF WorkerState, WorkerPcs
    <3> QED
      BY <1>2, <3>1, <3>2 DEF LoadPayment, TypeOK
  <2>3. CASE Judge(row, m) # "apply"
    <3>1. HandlerEnds(h, Judge(row, m))
      BY <1>2, <2>3 DEF LoadPayment
    <3>2. Judge(row, m) \in {"duplicate", "state_conflict", "amount_mismatch",
                             "reference_mismatch"}
      BY <2>3, JudgeIsResult
    <3> QED
      BY <1>2, <2>1, <3>1, <3>2, HandlerEndsType DEF LoadPayment, TypeOK
  <2> QED
    BY <2>2, <2>3
<1>3. CASE SaveResult(h)
  <2>1. worker[h].pc # "idle" /\ HandlerEnds(h, "applied") /\ Stored(m.order, worker[h].row)
    BY <1>3 DEF SaveResult
  <2>2. m.order \in Requests /\ worker[h].row \in Row
    BY <1>0, <1>3 DEF SaveResult, WorkerState
  <2> QED
    BY <1>3, <2>1, <2>2, HandlerEndsType, StoredType DEF SaveResult, TypeOK
<1>4. CASE TransactionConflict(h)
  <2>1. worker[h].pc # "idle" /\ HandlerEnds(h, "state_conflict")
    BY <1>4 DEF TransactionConflict
  <2> QED
    BY <1>4, <2>1, HandlerEndsType DEF TransactionConflict, TypeOK
<1>5. CASE ResultLost(h)
  <2>1. CASE worker[h].attempt + 1 < MaxSaveAttempts
    <3> DEFINE w == Loading(worker[h].msg, worker[h].attempt + 1)
    <3>1. worker' = [worker EXCEPT ![h] = w] /\ UNCHANGED reply
      BY <1>5, <2>1 DEF ResultLost
    <3>2. w \in WorkerState
      BY <1>0, <1>5, LoadingIsWorker DEF ResultLost, WorkerState
    <3> QED
      BY <1>5, <3>1, <3>2 DEF ResultLost, TypeOK
  <2>2. CASE ~(worker[h].attempt + 1 < MaxSaveAttempts)
    <3>1. worker[h].pc # "idle" /\ HandlerEnds(h, "state_conflict")
      BY <1>5, <2>2 DEF ResultLost
    <3> QED
      BY <1>5, <3>1, HandlerEndsType DEF ResultLost, TypeOK
  <2> QED
    BY <2>1, <2>2
<1> QED
  BY <1>1, <1>2, <1>3, <1>4, <1>5 DEF Handler

LEMMA FaultsType ==
    ASSUME TypeOK,
           \/ Crash
           \/ \E r \in Requests : CreateFails(r)
           \/ \E h \in Handlers : HandlerFails(h)
    PROVE  TypeOK'
<1>1. CASE Crash
  <2>1. create' \in [Requests -> CreatorState]
    BY <1>1 DEF Crash, TypeOK, CreatorState, CreatorPcs
  <2>2. worker' \in [Handlers -> WorkerState]
    BY <1>1, IdleWorkerType DEF Crash
  <2> QED
    BY <1>1, <2>1, <2>2, FaultType DEF Crash, TypeOK
<1>2. ASSUME NEW r \in Requests, CreateFails(r) PROVE TypeOK'
  <2>1. create' \in [Requests -> CreatorState]
    BY <1>2, CreatorGoesType DEF CreateFails, CreatorPcs
  <2>2. payments' \in [Requests -> Row]
    <3>1. create[r].row \in Row
      BY DEF TypeOK, CreatorState
    <3>2. CASE UNCHANGED payments
      BY <3>2 DEF TypeOK
    <3>3. CASE payments' = [payments EXCEPT ![r] = NewPayment]
      BY <3>3, NewRowsAreRows DEF TypeOK
    <3>4. CASE Stored(r, create[r].row)
      BY <3>1, <3>4, StoredType
    <3> QED
      BY <1>2, <3>2, <3>3, <3>4 DEF CreateFails
  <2> QED
    BY <1>2, <2>1, <2>2, FaultType DEF CreateFails, TypeOK
<1>3. ASSUME NEW h \in Handlers, HandlerFails(h) PROVE TypeOK'
  <2>1. worker[h].pc # "idle" /\ HandlerEnds(h, "thrown")
    BY <1>3 DEF HandlerFails
  <2>2. payments' \in [Requests -> Row]
    <3>1. CASE UNCHANGED payments
      BY <3>1 DEF TypeOK
    <3>2. CASE worker[h].pc = "save" /\ Stored(worker[h].msg.order, worker[h].row)
      <4>1. worker[h].msg.order \in Requests /\ worker[h].row \in Row
        BY <3>2 DEF TypeOK, WorkerState
      <4> QED
        BY <3>2, <4>1, StoredType
    <3> QED
      BY <1>3, <3>1, <3>2 DEF HandlerFails
  <2> QED
    BY <1>3, <2>1, <2>2, HandlerEndsType, FaultType DEF HandlerFails, TypeOK
<1> QED
  BY <1>1, <1>2, <1>3

\* The state keeps the shape payment.types.ts and the table give it.
LEMMA TypeStep == TypeOK /\ [Next]_vars => TypeOK'
<1> SUFFICES ASSUME TypeOK, [Next]_vars PROVE TypeOK'
  OBVIOUS
<1>1. ASSUME NEW r \in Requests, Provider(r) PROVE TypeOK'
  BY <1>1 DEF Provider, ProviderAccepts, ProviderRefuses, BuyerOpensCheckout, TypeOK
<1>2. ASSUME NEW h \in Handlers, NEW m \in Notifications, Deliver(h, m) PROVE TypeOK'
  BY <1>2, ReceiveType DEF Deliver, TypeOK
<1>3. ASSUME NEW h \in Handlers, NEW m \in Notifications, Redeliver(h, m) PROVE TypeOK'
  BY <1>3, ReceiveType, PaymentAssumption DEF Redeliver, TypeOK
<1>4. CASE UNCHANGED vars
  BY <1>4 DEF vars, TypeOK
<1> QED
  BY <1>1, <1>2, <1>3, <1>4, CreatorType, HandlerType, FaultsType DEF Next

LEMMA TypeInit == Init => TypeOK
BY NewRowsAreRows, IdleWorkerType, PaymentAssumption
   DEF Init, TypeOK, NewCreator, CreatorState, CreatorPcs, Changes

\* Whatever the requests, providers and faults, the state keeps its types.
THEOREM TypeCorrect == Spec => []TypeOK
<1> QED
  BY TypeInit, TypeStep, PTL DEF Spec

-----------------------------------------------------------------------------
(* The optimistic lock                                                     *)

\* A row is the one just inserted until its first save.
FreshRows ==
    \A r \in Requests :
        /\ payments[r].status = "absent" => payments[r] = NoRow
        /\ payments[r].version = 0 => payments[r] \in {NoRow, NewPayment}

\* Up to the end of the checkout call a request holds the row it inserted.
CreatorInserted ==
    \A r \in Requests :
        /\ create[r].pc \in {"inserted", "checkout", "save", "reload"}
             => payments[r].status # "absent"
        /\ create[r].pc \in {"inserted", "checkout"} => create[r].row = NewPayment

\* A copy about to be saved is never ahead of the table; if the table has not moved since it
\* was loaded, the copy is the table's row with one legal change.
CreatorCopies ==
    \A r \in Requests : create[r].pc = "save" =>
        /\ create[r].row.version <= payments[r].version
        /\ create[r].row.version = payments[r].version =>
             /\ Applies(create[r].change, payments[r])
             /\ create[r].row = Changed(create[r].change, payments[r])

WorkerCopies ==
    \A h \in Handlers : worker[h].pc = "save" =>
        LET m == worker[h].msg
        IN  /\ worker[h].row.version <= payments[m.order].version
            /\ worker[h].row.version = payments[m.order].version =>
                 /\ Judge(payments[m.order], m) = "apply"
                 /\ worker[h].row = Applied(payments[m.order], m)

LockInv == FreshRows /\ CreatorInserted /\ CreatorCopies /\ WorkerCopies

\* How one step can write the table.
Inserts(r) == /\ KeyOwners(r) = {}
              /\ payments[r] = NoRow
              /\ payments' = [payments EXCEPT ![r] = NewPayment]

WritesChange(r) ==
    /\ create[r].pc = "save"
    /\ Applies(create[r].change, payments[r])
    /\ Stored(r, Changed(create[r].change, payments[r]))

WritesResult(h) ==
    LET m == worker[h].msg
        row == Applied(payments[m.order], m)
    IN  /\ worker[h].pc = "save"
        /\ m \in Notifications /\ m.order \in Requests
        /\ Judge(payments[m.order], m) = "apply"
        /\ ~TransactionTaken(m.order, row)
        /\ Stored(m.order, row)

TableStep ==
    \/ UNCHANGED payments
    \/ \E r \in Requests : Inserts(r) \/ WritesChange(r)
    \/ \E h \in Handlers : WritesResult(h)

\* What reaches the table is a legal change of what is in the table.
LEMMA StepsWriteLegally ==
    ASSUME TypeOK, LockInv, Next
    PROVE  TableStep
<1>1. ASSUME NEW r \in Requests, create[r].pc = "save",
             VersionMatches(r, create[r].row), Stored(r, create[r].row)
      PROVE  WritesChange(r)
  BY <1>1 DEF LockInv, CreatorCopies, VersionMatches, WritesChange
<1>2. ASSUME NEW h \in Handlers, worker[h].pc = "save",
             VersionMatches(worker[h].msg.order, worker[h].row),
             ~TransactionTaken(worker[h].msg.order, worker[h].row),
             Stored(worker[h].msg.order, worker[h].row)
      PROVE  WritesResult(h)
  BY <1>2 DEF LockInv, WorkerCopies, VersionMatches, WritesResult, TypeOK, WorkerState
<1>3. ASSUME NEW r \in Requests, KeyOwners(r) = {},
             payments' = [payments EXCEPT ![r] = NewPayment]
      PROVE  Inserts(r)
  BY <1>3 DEF Inserts, KeyOwners, LockInv, FreshRows
<1>4. ASSUME NEW r \in Requests, Creator(r) PROVE TableStep
  BY <1>1, <1>3, <1>4 DEF TableStep, Creator, InsertPayment, FindExisting, CallCheckout,
     CheckoutEnds, SaveChange, SaveLost, ReloadPayment
<1>5. ASSUME NEW r \in Requests, Provider(r) PROVE TableStep
  BY <1>5 DEF TableStep, Provider, ProviderAccepts, ProviderRefuses, BuyerOpensCheckout
<1>6. ASSUME NEW r \in Requests, CreateFails(r) PROVE TableStep
  BY <1>1, <1>3, <1>6 DEF TableStep, CreateFails
<1>7. ASSUME NEW h \in Handlers, Handler(h) PROVE TableStep
  BY <1>2, <1>7 DEF TableStep, Handler, OrderNotFound, LoadPayment, SaveResult,
     TransactionConflict, ResultLost
<1>8. ASSUME NEW h \in Handlers, HandlerFails(h) PROVE TableStep
  BY <1>2, <1>8 DEF TableStep, HandlerFails
<1>9. ASSUME NEW h \in Handlers, NEW m \in Notifications, Deliver(h, m) \/ Redeliver(h, m)
      PROVE TableStep
  BY <1>9 DEF TableStep, Deliver, Redeliver
<1>10. CASE Crash
  BY <1>10 DEF TableStep, Crash
<1> QED
  BY <1>4, <1>5, <1>6, <1>7, <1>8, <1>9, <1>10 DEF Next

LEMMA LegalChangeHasStatus ==
    ASSUME NEW row \in Row, NEW change \in Changes, Applies(change, row)
    PROVE  row.status # "absent" /\ Changed(change, row).status # "absent"
BY DEF Applies, Changed, Changes, Row, AttachableStatuses, MutableStatuses, FinalOutcomes

LEMMA LegalResultHasStatus ==
    ASSUME NEW row \in Row, NEW m \in Notifications, Judge(row, m) = "apply"
    PROVE  /\ row.status \in MutableStatuses
           /\ Applied(row, m).status = Outcome(m)
           /\ Applied(row, m).status # "absent"
<1>1. row.status \in MutableStatuses
  BY DEF Judge, Classify
<1>2. Applied(row, m).status = Outcome(m)
  BY DEF Applied, Row
<1> QED
  BY <1>1, <1>2, OutcomeInOutcomes DEF Outcomes, FinalOutcomes

\* Every write inserts the row or moves its version by one.
LEMMA VersionsMove ==
    ASSUME TypeOK, LockInv, TableStep, NEW r \in Requests
    PROVE  \/ payments'[r] = payments[r]
           \/ payments[r] = NoRow /\ payments'[r] = NewPayment
           \/ /\ payments'[r].version = payments[r].version + 1
              /\ payments[r].status # "absent" /\ payments'[r].status # "absent"
<1>1. ASSUME NEW s \in Requests, Inserts(s)
      PROVE  payments'[r] = payments[r] \/ (payments[r] = NoRow /\ payments'[r] = NewPayment)
  BY <1>1 DEF Inserts, TypeOK
<1>2. ASSUME NEW s \in Requests, WritesChange(s)
      PROVE  \/ payments'[r] = payments[r]
             \/ /\ payments'[r].version = payments[r].version + 1
                /\ payments[r].status # "absent" /\ payments'[r].status # "absent"
  <2> DEFINE row == Changed(create[s].change, payments[s])
  <2>1. payments[s] \in Row /\ create[s].change \in Changes
    BY DEF TypeOK, CreatorState
  <2>2. row \in Row /\ row.version = payments[s].version /\ row.status # "absent"
        /\ payments[s].status # "absent"
    BY <1>2, <2>1, ChangedIsRow, LegalChangeHasStatus DEF WritesChange
  <2>3. payments' = [payments EXCEPT ![s] = [row EXCEPT !.version = @ + 1]]
    BY <1>2 DEF WritesChange, Stored
  <2> HIDE DEF row
  <2>4. [row EXCEPT !.version = @ + 1].version = payments[s].version + 1
        /\ [row EXCEPT !.version = @ + 1].status = row.status
    BY <2>2 DEF Row
  <2> QED
    BY <2>2, <2>3, <2>4 DEF TypeOK
<1>3. ASSUME NEW h \in Handlers, WritesResult(h)
      PROVE  \/ payments'[r] = payments[r]
             \/ /\ payments'[r].version = payments[r].version + 1
                /\ payments[r].status # "absent" /\ payments'[r].status # "absent"
  <2> DEFINE m == worker[h].msg
             s == m.order
             row == Applied(payments[s], m)
  <2>1. payments[s] \in Row /\ m \in Notifications /\ s \in Requests
    BY <1>3 DEF TypeOK, WritesResult
  <2>2. row \in Row /\ row.version = payments[s].version /\ row.status # "absent"
        /\ payments[s].status # "absent"
    BY <1>3, <2>1, AppliedIsRow, LegalResultHasStatus DEF WritesResult, MutableStatuses
  <2>3. payments' = [payments EXCEPT ![s] = [row EXCEPT !.version = @ + 1]]
    BY <1>3 DEF WritesResult, Stored
  <2> HIDE DEF row
  <2>4. [row EXCEPT !.version = @ + 1].version = payments[s].version + 1
        /\ [row EXCEPT !.version = @ + 1].status = row.status
    BY <2>2 DEF Row
  <2> QED
    BY <2>1, <2>2, <2>3, <2>4 DEF TypeOK
<1> QED
  BY <1>1, <1>2, <1>3 DEF TableStep

\* A request only leaves its pc by its own steps, or ends with an exception.
LEMMA CreatorMoves ==
    ASSUME TypeOK, Next, NEW r \in Requests
    PROVE  \/ create'[r] = create[r]
           \/ create'[r] = [create[r] EXCEPT !.pc = "error"]
           \/ Creator(r)
<1>1. ASSUME NEW s \in Requests, s # r, Creator(s) PROVE create'[r] = create[r]
  BY <1>1 DEF Creator, InsertPayment, FindExisting, CallCheckout, CheckoutEnds, SaveChange,
     SaveLost, ReloadPayment, CreatorGoes, TypeOK
<1>2. ASSUME NEW s \in Requests, CreateFails(s)
      PROVE create'[r] = create[r] \/ create'[r] = [create[r] EXCEPT !.pc = "error"]
  BY <1>2 DEF CreateFails, CreatorGoes, TypeOK
<1>3. CASE Crash
  BY <1>3 DEF Crash
<1>4. ASSUME NEW s \in Requests, Provider(s) PROVE create'[r] = create[r]
  BY <1>4 DEF Provider, ProviderAccepts, ProviderRefuses, BuyerOpensCheckout
<1>5. ASSUME NEW h \in Handlers, Handler(h) \/ HandlerFails(h) PROVE create'[r] = create[r]
  BY <1>5 DEF Handler, OrderNotFound, LoadPayment, SaveResult, TransactionConflict,
     ResultLost, HandlerFails
<1>6. ASSUME NEW h \in Handlers, NEW m \in Notifications, Deliver(h, m) \/ Redeliver(h, m)
      PROVE  create'[r] = create[r]
  BY <1>6 DEF Deliver, Redeliver
<1> QED
  BY <1>1, <1>2, <1>3, <1>4, <1>5, <1>6 DEF Next

LEMMA CreatorKeeps ==
    ASSUME TypeOK, Next, NEW r \in Requests
    PROVE  \/ create'[r] = create[r]
           \/ create'[r].pc \in CreatorEnds
           \/ Creator(r)
<1>1. create[r] \in CreatorState
  BY DEF TypeOK
<1>2. [create[r] EXCEPT !.pc = "error"].pc = "error"
  BY <1>1 DEF CreatorState
<1> QED
  BY <1>2, CreatorMoves DEF CreatorEnds

\* A handler comes to its save only by loading a row to which its result applies.
LEMMA WorkerKeeps ==
    ASSUME TypeOK, Next, NEW h \in Handlers
    PROVE  \/ worker'[h] = worker[h]
           \/ worker'[h].pc \in {"idle", "load"}
           \/ /\ LoadPayment(h)
              /\ Judge(payments[worker[h].msg.order], worker[h].msg) = "apply"
<1>1. ASSUME NEW g \in Handlers, Handler(g)
      PROVE  \/ worker'[h] = worker[h]
             \/ worker'[h].pc \in {"idle", "load"}
             \/ /\ LoadPayment(h)
                /\ Judge(payments[worker[h].msg.order], worker[h].msg) = "apply"
  BY <1>1 DEF Handler, OrderNotFound, LoadPayment, SaveResult, TransactionConflict,
     ResultLost, HandlerEnds, IdleWorker, Loading, TypeOK
<1>2. ASSUME NEW g \in Handlers, HandlerFails(g)
      PROVE  worker'[h] = worker[h] \/ worker'[h].pc = "idle"
  BY <1>2 DEF HandlerFails, HandlerEnds, IdleWorker, TypeOK
<1>3. ASSUME NEW g \in Handlers, NEW m \in Notifications, Deliver(g, m) \/ Redeliver(g, m)
      PROVE  worker'[h] = worker[h] \/ worker'[h].pc = "load"
  BY <1>3 DEF Deliver, Redeliver, Receive, Loading, TypeOK
<1>4. CASE Crash
  BY <1>4 DEF Crash, IdleWorker
<1>5. ASSUME NEW r \in Requests, Creator(r) \/ Provider(r) \/ CreateFails(r)
      PROVE  worker'[h] = worker[h]
  BY <1>5 DEF Creator, InsertPayment, FindExisting, CallCheckout, CheckoutEnds, SaveChange,
     SaveLost, ReloadPayment, Provider, ProviderAccepts, ProviderRefuses,
     BuyerOpensCheckout, CreateFails
<1> QED
  BY <1>1, <1>2, <1>3, <1>4, <1>5 DEF Next

LEMMA LockInit == Init => LockInv
BY DEF Init, LockInv, FreshRows, CreatorInserted, CreatorCopies, WorkerCopies, NewCreator,
   IdleWorker, NoRow, NewRow

LEMMA FreshRowsStep ==
    ASSUME TypeOK, LockInv, TableStep
    PROVE  FreshRows'
<1> SUFFICES ASSUME NEW r \in Requests
             PROVE  /\ payments'[r].status = "absent" => payments'[r] = NoRow
                    /\ payments'[r].version = 0 => payments'[r] \in {NoRow, NewPayment}
  BY DEF FreshRows
<1>1. payments[r].version \in Nat
  BY DEF TypeOK, Row
<1> QED
  BY <1>1, VersionsMove DEF LockInv, FreshRows, NewPayment, NewRow

LEMMA CreatorInsertedStep ==
    ASSUME TypeOK, LockInv, Next
    PROVE  CreatorInserted'
<1> SUFFICES ASSUME NEW r \in Requests
             PROVE  /\ create'[r].pc \in {"inserted", "checkout", "save", "reload"}
                         => payments'[r].status # "absent"
                    /\ create'[r].pc \in {"inserted", "checkout"} => create'[r].row = NewPayment
  BY DEF CreatorInserted
<1>1. payments[r].status # "absent" => payments'[r].status # "absent"
  BY StepsWriteLegally, VersionsMove DEF NewPayment, NewRow
<1>2. CASE create'[r] = create[r]
  BY <1>1, <1>2 DEF LockInv, CreatorInserted
<1>3. CASE create'[r].pc \in CreatorEnds
  BY <1>3 DEF CreatorEnds
<1>4. CASE InsertPayment(r)
  BY <1>4 DEF InsertPayment, TypeOK, CreatorState, NewPayment, NewRow
<1>5. CASE FindExisting(r)
  BY <1>5 DEF FindExisting, TypeOK, CreatorState
<1>6. CASE CallCheckout(r) \/ SaveChange(r) \/ SaveLost(r)
  BY <1>1, <1>6 DEF CallCheckout, SaveChange, SaveLost, CreatorGoes, TypeOK, CreatorState,
     LockInv, CreatorInserted
<1>7. CASE CheckoutEnds(r) \/ ReloadPayment(r)
  <2>1. create'[r].pc \in {"exhausted", "returned", "save"}
    BY <1>7 DEF CheckoutEnds, ReloadPayment, Attempted, TypeOK
  <2> QED
    BY <1>1, <1>7, <2>1 DEF CheckoutEnds, ReloadPayment, LockInv, CreatorInserted
<1> QED
  BY <1>2, <1>3, <1>4, <1>5, <1>6, <1>7, CreatorKeeps DEF Creator

LEMMA CreatorCopiesStep ==
    ASSUME TypeOK, LockInv, Next
    PROVE  CreatorCopies'
<1> SUFFICES ASSUME NEW r \in Requests, create'[r].pc = "save"
             PROVE  /\ create'[r].row.version <= payments'[r].version
                    /\ create'[r].row.version = payments'[r].version =>
                         /\ Applies(create'[r].change, payments'[r])
                         /\ create'[r].row = Changed(create'[r].change, payments'[r])
  BY DEF CreatorCopies
<1>1. CASE create'[r] = create[r]
  <2>1. /\ create[r].row.version <= payments[r].version
        /\ create[r].row.version = payments[r].version =>
             /\ Applies(create[r].change, payments[r])
             /\ create[r].row = Changed(create[r].change, payments[r])
        /\ payments[r].status # "absent"
    BY <1>1 DEF LockInv, CreatorCopies, CreatorInserted
  <2>2. payments[r].version \in Nat /\ create[r].row.version \in Nat
    BY DEF TypeOK, CreatorState, Row
  <2>3. \/ payments'[r] = payments[r]
        \/ payments'[r].version = payments[r].version + 1
    BY <2>1, StepsWriteLegally, VersionsMove DEF NoRow, NewRow
  <2>4. CASE payments'[r] = payments[r]
    BY <1>1, <2>1, <2>4
  <2>5. CASE payments'[r].version = payments[r].version + 1
    BY <1>1, <2>1, <2>2, <2>5
  <2> QED
    BY <2>3, <2>4, <2>5
<1>2. CASE CheckoutEnds(r)
  <2>1. PICK answer : create' = [create EXCEPT ![r] =
                         Attempted(ChangeFor(answer), create[r].row, 0)]
    BY <1>2 DEF CheckoutEnds
  <2>2. create[r].row = NewPayment /\ payments[r].status # "absent" /\ UNCHANGED payments
    BY <1>2 DEF CheckoutEnds, LockInv, CreatorInserted
  <2>3. create'[r] = Attempted(ChangeFor(answer), NewPayment, 0)
    BY <2>1, <2>2 DEF TypeOK
  <2>4. /\ Applies(create'[r].change, NewPayment)
        /\ create'[r].row = Changed(create'[r].change, NewPayment)
        /\ create'[r].change \in Changes
    BY <2>3, ChangeForIsChange DEF Attempted
  <2>5. create'[r].row.version = 0
    BY <2>4, NewRowsAreRows, ChangedIsRow DEF NewPayment, NewRow
  <2>6. payments[r].version \in Nat
    BY DEF TypeOK, Row
  <2>7. payments[r].version = 0 => payments[r] = NewPayment
    BY <2>2 DEF LockInv, FreshRows, NoRow, NewRow
  <2> QED
    BY <2>2, <2>4, <2>5, <2>6, <2>7
<1>3. CASE ReloadPayment(r)
  <2>1. create'[r] = Attempted(create[r].change, payments[r], create[r].attempt + 1)
        /\ UNCHANGED payments
    BY <1>3 DEF ReloadPayment, TypeOK
  <2>2. payments[r] \in Row /\ create[r].change \in Changes
    BY DEF TypeOK, CreatorState
  <2>3. /\ Applies(create'[r].change, payments[r])
        /\ create'[r].row = Changed(create'[r].change, payments[r])
        /\ create'[r].change = create[r].change
    BY <2>1 DEF Attempted
  <2>4. create'[r].row.version = payments[r].version /\ payments[r].version \in Nat
    BY <2>2, <2>3, ChangedIsRow DEF Row
  <2> QED
    BY <2>1, <2>3, <2>4
<1>4. CASE InsertPayment(r) \/ FindExisting(r) \/ CallCheckout(r) \/ SaveChange(r) \/ SaveLost(r)
  <2>1. CASE InsertPayment(r)
    BY <2>1 DEF InsertPayment, TypeOK, CreatorState
  <2>2. CASE FindExisting(r)
    BY <2>2 DEF FindExisting, TypeOK, CreatorState
  <2>3. CASE CallCheckout(r) \/ SaveChange(r) \/ SaveLost(r)
    BY <2>3 DEF CallCheckout, SaveChange, SaveLost, CreatorGoes, TypeOK, CreatorState
  <2> QED
    BY <1>4, <2>1, <2>2, <2>3
<1>5. CASE create'[r].pc \in CreatorEnds
  BY <1>5 DEF CreatorEnds
<1> QED
  BY <1>1, <1>2, <1>3, <1>4, <1>5, CreatorKeeps DEF Creator

LEMMA WorkerCopiesStep ==
    ASSUME TypeOK, LockInv, Next
    PROVE  WorkerCopies'
<1> SUFFICES ASSUME NEW h \in Handlers, worker'[h].pc = "save"
             PROVE  LET m == worker'[h].msg
                    IN  /\ worker'[h].row.version <= payments'[m.order].version
                        /\ worker'[h].row.version = payments'[m.order].version =>
                             /\ Judge(payments'[m.order], m) = "apply"
                             /\ worker'[h].row = Applied(payments'[m.order], m)
  BY DEF WorkerCopies
<1> DEFINE m == worker[h].msg
           row == payments[m.order]
<1>1. CASE worker'[h] = worker[h]
  <2>1. m \in Notifications /\ m.order \in Requests /\ row \in Row /\ worker[h].row \in Row
    BY <1>1 DEF TypeOK, WorkerState
  <2>2. /\ worker[h].row.version <= row.version
        /\ worker[h].row.version = row.version =>
             Judge(row, m) = "apply" /\ worker[h].row = Applied(row, m)
    BY <1>1 DEF LockInv, WorkerCopies
  <2>3. row.version \in Nat /\ worker[h].row.version \in Nat
    BY <2>1 DEF Row
  <2>4. row # NoRow
    <3>1. SUFFICES ASSUME row = NoRow PROVE FALSE
      OBVIOUS
    <3>2. row.status = "absent" /\ row.version = 0
      BY <3>1 DEF NoRow, NewRow
    <3>3. Judge(row, m) = "apply"
      BY <2>2, <2>3, <3>2
    <3> QED
      BY <2>1, <3>2, <3>3, LegalResultHasStatus DEF MutableStatuses
  <2>5. payments'[m.order] = row \/ payments'[m.order].version = row.version + 1
    BY <2>1, <2>4, StepsWriteLegally, VersionsMove
  <2> QED
    BY <1>1, <2>2, <2>3, <2>5
<1>2. CASE LoadPayment(h) /\ Judge(row, m) = "apply"
  <2>1. /\ m \in Notifications /\ row \in Row /\ UNCHANGED payments
        /\ worker'[h].row = Applied(row, m) /\ worker'[h].msg = m
    BY <1>2 DEF LoadPayment, TypeOK, WorkerState
  <2>2. worker'[h].row.version = row.version /\ row.version \in Nat
    BY <2>1, AppliedIsRow DEF Row
  <2> QED
    BY <1>2, <2>1, <2>2
<1> QED
  BY <1>1, <1>2, WorkerKeeps

\* The optimistic lock is inductive together with the types.
LEMMA LockStep == TypeOK /\ LockInv /\ [Next]_vars => LockInv'
<1> SUFFICES ASSUME TypeOK, LockInv, [Next]_vars PROVE LockInv'
  OBVIOUS
<1>1. CASE Next
  BY <1>1, StepsWriteLegally, FreshRowsStep, CreatorInsertedStep, CreatorCopiesStep,
     WorkerCopiesStep DEF LockInv
<1>2. CASE UNCHANGED vars
  BY <1>2 DEF vars, LockInv, FreshRows, CreatorInserted, CreatorCopies, WorkerCopies
<1> QED
  BY <1>1, <1>2

\* No copy reaches the table unless it is one legal change away from what is in it.
THEOREM LockCorrect == Spec => [](TypeOK /\ LockInv)
<1> QED
  BY TypeInit, TypeStep, LockInit, LockStep, PTL DEF Spec

-----------------------------------------------------------------------------
(* What a step may never do to a payment                                   *)

Bumped(row) == [row EXCEPT !.version = @ + 1]

\* The step of the table, seen from one row, and who made it.
LEMMA RowWrites ==
    ASSUME TypeOK, TableStep, NEW r \in Requests
    PROVE  \/ payments'[r] = payments[r]
           \/ Inserts(r) /\ payments'[r] = NewPayment
           \/ /\ WritesChange(r)
              /\ payments'[r] = Bumped(Changed(create[r].change, payments[r]))
           \/ \E h \in Handlers :
                /\ WritesResult(h)
                /\ worker[h].msg.order = r
                /\ payments'[r] = Bumped(Applied(payments[r], worker[h].msg))
<1>1. ASSUME NEW s \in Requests, Inserts(s)
      PROVE  payments'[r] = payments[r] \/ (Inserts(r) /\ payments'[r] = NewPayment)
  BY <1>1 DEF Inserts, TypeOK
<1>2. ASSUME NEW s \in Requests, WritesChange(s)
      PROVE  \/ payments'[r] = payments[r]
             \/ /\ WritesChange(r)
                /\ payments'[r] = Bumped(Changed(create[r].change, payments[r]))
  BY <1>2 DEF WritesChange, Stored, Bumped, TypeOK
<1>3. ASSUME NEW h \in Handlers, WritesResult(h)
      PROVE  \/ payments'[r] = payments[r]
             \/ /\ worker[h].msg.order = r
                /\ payments'[r] = Bumped(Applied(payments[r], worker[h].msg))
  BY <1>3 DEF WritesResult, Stored, Bumped, TypeOK
<1> QED
  BY <1>1, <1>2, <1>3 DEF TableStep

LEMMA RowSteps ==
    ASSUME TypeOK, TableStep, NEW r \in Requests
    PROVE  \/ payments'[r] = payments[r]
           \/ payments[r] = NoRow /\ payments'[r] = NewPayment
           \/ \E change \in Changes :
                /\ Applies(change, payments[r])
                /\ payments'[r] = Bumped(Changed(change, payments[r]))
           \/ \E m \in Notifications :
                /\ m.order = r
                /\ Judge(payments[r], m) = "apply"
                /\ payments'[r] = Bumped(Applied(payments[r], m))
<1>1. create[r].change \in Changes
  BY DEF TypeOK, CreatorState
<1> QED
  BY <1>1, RowWrites DEF Inserts, WritesChange, WritesResult

LEMMA BumpedKeeps ==
    ASSUME NEW row \in Row
    PROVE  /\ Bumped(row) \in Row
           /\ Bumped(row).status = row.status /\ Bumped(row).url = row.url
           /\ Bumped(row).txn = row.txn /\ Bumped(row).code = row.code
           /\ Bumped(row).version = row.version + 1
BY DEF Bumped, Row

\* What the entity's changes do to the fields a reader of the payment sees.
LEMMA ChangedKeeps ==
    ASSUME NEW row \in Row, NEW change \in Changes, Applies(change, row)
    PROVE  /\ row.url => Changed(change, row).url
           /\ row.status # "creating" =>
                /\ change = "attach"
                /\ Changed(change, row).status = row.status
                /\ Changed(change, row).code = row.code
           /\ row.status # "create_failed"
BY DEF Applies, Changed, Changes, Row, AttachableStatuses, MutableStatuses, FinalOutcomes

LEMMA FinalRowsKeep ==
    ASSUME TypeOK, TableStep, NEW r \in Requests,
           payments[r].status \in FinalOutcomes \union {"create_failed"}
    PROVE  /\ payments'[r].status = payments[r].status
           /\ payments'[r].txn = payments[r].txn
           /\ payments'[r].code = payments[r].code
<1>0. payments[r] \in Row /\ payments[r] # NoRow
  BY DEF TypeOK, NoRow, NewRow, FinalOutcomes
<1>1. ASSUME NEW change \in Changes, Applies(change, payments[r]),
             payments'[r] = Bumped(Changed(change, payments[r]))
      PROVE  /\ payments'[r].status = payments[r].status
             /\ payments'[r].txn = payments[r].txn
             /\ payments'[r].code = payments[r].code
  BY <1>0, <1>1, ChangedIsRow, ChangedKeeps, BumpedKeeps DEF FinalOutcomes
<1>2. ASSUME NEW m \in Notifications, Judge(payments[r], m) = "apply" PROVE FALSE
  BY <1>0, <1>2, LegalResultHasStatus DEF MutableStatuses, FinalOutcomes
<1> QED
  BY <1>0, <1>1, <1>2, RowSteps

\* FinalSticky: a final status, its transaction and its code never change, however the
\* create request and the handlers of the payment are interleaved.
THEOREM FinalStaysFinal == Spec => FinalSticky
<1> DEFINE Keeps == \A r \in Requests :
        payments[r].status \in FinalOutcomes \union {"create_failed"} =>
           /\ payments'[r].status = payments[r].status
           /\ payments'[r].txn = payments[r].txn
           /\ payments'[r].code = payments[r].code
<1>1. TypeOK /\ LockInv /\ [Next]_vars => [Keeps]_vars
  BY StepsWriteLegally, FinalRowsKeep
<1>2. Spec => [][Keeps]_vars
  BY <1>1, LockCorrect, PTL DEF Spec
<1> QED
  BY <1>2 DEF FinalSticky

\* UrlSetOnce: no write takes a stored URL back, and every write is seen by the others.
THEOREM UrlStays == Spec => UrlSetOnce
<1> DEFINE Keeps == \A r \in Requests :
        /\ payments[r].url => payments'[r].url
        /\ payments'[r] # payments[r] /\ payments[r].status # "absent"
             => payments'[r].version = payments[r].version + 1
<1>1. ASSUME TypeOK, LockInv, Next, NEW r \in Requests, payments[r].url PROVE payments'[r].url
  <2>1. payments[r] \in Row /\ payments[r] # NoRow /\ TableStep
    BY <1>1, StepsWriteLegally DEF TypeOK, NoRow, NewRow
  <2>2. ASSUME NEW change \in Changes, Applies(change, payments[r]),
               payments'[r] = Bumped(Changed(change, payments[r]))
        PROVE  payments'[r].url
    BY <1>1, <2>1, <2>2, ChangedIsRow, ChangedKeeps, BumpedKeeps
  <2>3. ASSUME NEW m \in Notifications, payments'[r] = Bumped(Applied(payments[r], m))
        PROVE  payments'[r].url
    BY <1>1, <2>1, <2>3, AppliedIsRow, BumpedKeeps
  <2> QED
    BY <1>1, <2>1, <2>2, <2>3, RowSteps
<1>2. ASSUME TypeOK, LockInv, Next, NEW r \in Requests,
             payments'[r] # payments[r], payments[r].status # "absent"
      PROVE  payments'[r].version = payments[r].version + 1
  BY <1>2, StepsWriteLegally, VersionsMove DEF NoRow, NewRow
<1>3. TypeOK /\ LockInv /\ [Next]_vars => [Keeps]_vars
  BY <1>1, <1>2
<1>4. Spec => [][Keeps]_vars
  BY <1>3, LockCorrect, PTL DEF Spec
<1> QED
  BY <1>4 DEF UrlSetOnce

-----------------------------------------------------------------------------
(* The table implements the ledger                                         *)

\* A creating payment is as it was inserted: any write takes it out of "creating".
CreatingIsNew ==
    \A r \in Requests : payments[r].status = "creating" => payments[r] = NewPayment

LEMMA CreatingInit == Init => CreatingIsNew
BY DEF Init, CreatingIsNew, NoRow, NewRow

LEMMA CreatingStep == TypeOK /\ LockInv /\ CreatingIsNew /\ [Next]_vars => CreatingIsNew'
<1> SUFFICES ASSUME TypeOK, LockInv, CreatingIsNew, [Next]_vars, NEW r \in Requests,
                    payments'[r].status = "creating"
             PROVE  payments'[r] = NewPayment
  BY DEF CreatingIsNew
<1>1. CASE UNCHANGED vars
  BY <1>1 DEF vars, CreatingIsNew
<1>2. CASE Next
  <2>0. payments[r] \in Row /\ TableStep
    BY <1>2, StepsWriteLegally DEF TypeOK
  <2>1. ASSUME NEW change \in Changes, Applies(change, payments[r]),
               payments'[r] = Bumped(Changed(change, payments[r]))
        PROVE  FALSE
    <3>1. Changed(change, payments[r]).status # "creating"
      BY <2>0, <2>1 DEF Applies, Changed, Row
    <3> QED
      BY <2>0, <2>1, <3>1, ChangedIsRow, BumpedKeeps
  <2>2. ASSUME NEW m \in Notifications, Judge(payments[r], m) = "apply",
               payments'[r] = Bumped(Applied(payments[r], m))
        PROVE  FALSE
    BY <2>0, <2>2, AppliedIsRow, LegalResultHasStatus, BumpedKeeps, OutcomeInOutcomes
       DEF Outcomes, FinalOutcomes
  <2> QED
    BY <2>0, <2>1, <2>2, RowSteps DEF CreatingIsNew
<1> QED
  BY <1>1, <1>2

Bar == [r \in Requests |-> LedgerEntry(payments[r])]

LEMMA BumpedEntry ==
    ASSUME NEW row \in Row
    PROVE  LedgerEntry(Bumped(row)) = LedgerEntry(row)
BY BumpedKeeps DEF LedgerEntry, Final

\* A write of one row is a write of one entry.
LEMMA EntryWritten ==
    ASSUME TypeOK, NEW r \in Requests, NEW row \in Row, Stored(r, row)
    PROVE  Bar' = [Bar EXCEPT ![r] = LedgerEntry(row)]
<1>1. payments' = [payments EXCEPT ![r] = Bumped(row)]
  BY DEF Stored, Bumped
<1> QED
  BY <1>1, BumpedEntry DEF Bar, TypeOK

\* Writing an entry that means the same is no step of the ledger.
LEMMA SameEntry ==
    ASSUME TypeOK, NEW r \in Requests, NEW row \in Row, Stored(r, row),
           LedgerEntry(row) = LedgerEntry(payments[r])
    PROVE  Bar' = Bar
BY EntryWritten DEF Bar

LEMMA LedgerInsert ==
    ASSUME TypeOK, NEW r \in Requests, Inserts(r)
    PROVE  Ledger!OpenPayment(r)
<1>1. \A s \in Requests : KeyOf[s] = KeyOf[r] => Bar[s].state = "absent"
  <2> SUFFICES ASSUME NEW s \in Requests, KeyOf[s] = KeyOf[r]
               PROVE  Bar[s].state = "absent"
    OBVIOUS
  <2>1. payments[s].status = "absent"
    BY DEF Inserts, KeyOwners
  <2>2. Bar[s] = LedgerEntry(payments[s])
    BY DEF Bar
  <2> QED
    BY <2>1, <2>2 DEF LedgerEntry, FinalOutcomes
<1>2. LedgerEntry(NewPayment) = [state |-> "open", offered |-> FALSE, result |-> Ledger!NoResult]
  BY DEF LedgerEntry, NewPayment, NewRow, Final, FinalOutcomes, Ledger!NoResult
<1>3. Bar' = [Bar EXCEPT ![r] = LedgerEntry(NewPayment)]
  BY DEF Inserts, Bar, TypeOK
<1> QED
  BY <1>1, <1>2, <1>3 DEF Ledger!OpenPayment, Bar

LEMMA LedgerChange ==
    ASSUME TypeOK, CreatingIsNew, NEW r \in Requests, WritesChange(r)
    PROVE  Ledger!OfferCheckout(r) \/ Ledger!RejectPayment(r) \/ Bar' = Bar
<1> DEFINE old == payments[r]
           change == create[r].change
           new == Changed(change, old)
<1>1. /\ old \in Row /\ change \in Changes /\ Applies(change, old)
      /\ Stored(r, new) /\ new \in Row
    BY ChangedIsRow DEF TypeOK, CreatorState, WritesChange
<1>2. Bar' = [Bar EXCEPT ![r] = LedgerEntry(new)]
  BY <1>1, EntryWritten
<1>3. Bar[r] = LedgerEntry(old)
  BY DEF Bar
<1>4. CASE change = "attach"
  <2>1. /\ LedgerEntry(old).state \in {"open", "settled"}
        /\ ~LedgerEntry(old).offered
    BY <1>1, <1>4 DEF Applies, LedgerEntry, AttachableStatuses, MutableStatuses, FinalOutcomes,
       Row
  <2>2. LedgerEntry(new) = [state |-> LedgerEntry(old).state, offered |-> TRUE,
                            result |-> LedgerEntry(old).result]
    BY <1>1, <1>4 DEF Applies, Changed, LedgerEntry, Final, AttachableStatuses,
       MutableStatuses, FinalOutcomes, Row
  <2> QED
    BY <1>2, <1>3, <2>1, <2>2 DEF Ledger!OfferCheckout, Bar
<1>5. CASE change = "reject"
  <2>1. old = NewPayment
    BY <1>1, <1>5 DEF Applies, CreatingIsNew
  <2>2. LedgerEntry(old).state = "open" /\ ~LedgerEntry(old).offered
    BY <2>1 DEF LedgerEntry, NewPayment, NewRow, FinalOutcomes
  <2>3. LedgerEntry(new) = [state |-> "rejected", offered |-> FALSE,
                            result |-> Ledger!NoResult]
    <3>1. new.status = "create_failed" /\ new.url = FALSE
      <4>1. old.url = FALSE
        BY <2>1 DEF NewPayment, NewRow
      <4> QED
        BY <1>1, <1>5, <4>1 DEF Changed, Row
    <3> QED
      BY <3>1 DEF LedgerEntry, Final, FinalOutcomes, Ledger!NoResult
  <2> QED
    BY <1>2, <1>3, <2>2, <2>3 DEF Ledger!RejectPayment, Bar
<1>6. CASE change = "unknown"
  <2>1. LedgerEntry(new) = LedgerEntry(old)
    BY <1>1, <1>6 DEF Applies, LedgerEntry, Changed, Final, FinalOutcomes, Row
  <2> QED
    BY <1>1, <2>1, SameEntry
<1> QED
  BY <1>1, <1>4, <1>5, <1>6 DEF Changes, Applies

LEMMA LedgerResult ==
    ASSUME TypeOK, NEW h \in Handlers, WritesResult(h)
    PROVE  \/ \E res \in Ledger!Result : Ledger!SettlePayment(worker[h].msg.order, res)
           \/ Bar' = Bar
<1> DEFINE m == worker[h].msg
           r == m.order
           old == payments[r]
           new == Applied(old, m)
<1>1. /\ m \in Notifications /\ r \in Requests /\ old \in Row /\ new \in Row
      /\ Judge(old, m) = "apply" /\ Stored(r, new) /\ ~TransactionTaken(r, new)
  BY AppliedIsRow DEF TypeOK, WritesResult
<1>2. Bar' = [Bar EXCEPT ![r] = LedgerEntry(new)] /\ Bar[r] = LedgerEntry(old)
  BY <1>1, EntryWritten DEF Bar
<1>3. old.status \in MutableStatuses /\ new.status = Outcome(m)
  BY <1>1, LegalResultHasStatus
<1>4. new.url = old.url /\ new.txn = m.txn /\ new.code = m.code
  BY <1>1 DEF Applied, Row
<1>5. LedgerEntry(old) = [state |-> "open", offered |-> old.url,
                          result |-> [outcome |-> "none"]]
  BY <1>3 DEF LedgerEntry, Final, MutableStatuses, FinalOutcomes
<1>6. CASE Outcome(m) = "pending"
  <2>1. LedgerEntry(new) = LedgerEntry(old)
    BY <1>3, <1>4, <1>5, <1>6 DEF LedgerEntry, Final, FinalOutcomes
  <2> QED
    BY <1>1, <2>1, SameEntry
<1>7. CASE Outcome(m) \in FinalOutcomes
  <2> DEFINE res == [outcome |-> Outcome(m), txn |-> m.txn, code |-> m.code]
  <2>1. res \in Ledger!Result
    BY <1>1, <1>7, NotificationAssumption DEF Ledger!Result
  <2>2. LedgerEntry(new) = [state |-> "settled", offered |-> Bar[r].offered, result |-> res]
    BY <1>2, <1>3, <1>4, <1>5, <1>7 DEF LedgerEntry, Final, FinalOutcomes
  <2>3. ASSUME NEW s \in Requests \ {r}, res.txn # NoTxn, ProviderOf[s] = ProviderOf[r],
               Bar[s].state = "settled"
        PROVE  Bar[s].result.txn # res.txn
    <3>1. payments[s].txn # m.txn
      BY <1>1, <1>4, <2>3 DEF TransactionTaken
    <3>2. Bar[s] = LedgerEntry(payments[s])
      BY DEF Bar
    <3>3. payments[s].status \in FinalOutcomes
      BY <2>3, <3>2 DEF LedgerEntry
    <3>4. Bar[s].result.txn = payments[s].txn
      BY <3>2, <3>3 DEF LedgerEntry, Final
    <3> QED
      BY <3>1, <3>4
  <2>4. Ledger!SettlePayment(r, res)
    BY <1>1, <1>2, <1>5, <2>2, <2>3 DEF Ledger!SettlePayment, Bar
  <2> QED
    BY <2>1, <2>4
<1> QED
  BY <1>1, <1>6, <1>7, OutcomeInOutcomes DEF Outcomes

\* Every step of the requests and handlers is a step of the ledger or leaves it alone.
LEMMA LedgerStep ==
    TypeOK /\ LockInv /\ CreatingIsNew /\ [Next]_vars => [Ledger!LedgerNext]_Bar
<1> SUFFICES ASSUME TypeOK, LockInv, CreatingIsNew, [Next]_vars
             PROVE  Ledger!LedgerNext \/ Bar' = Bar
  OBVIOUS
<1>1. CASE UNCHANGED payments
  BY <1>1 DEF Bar
<1>2. ASSUME NEW r \in Requests, Inserts(r) \/ WritesChange(r)
      PROVE  Ledger!LedgerNext \/ Bar' = Bar
  BY <1>2, LedgerInsert, LedgerChange DEF Ledger!LedgerNext
<1>3. ASSUME NEW h \in Handlers, WritesResult(h)
      PROVE  Ledger!LedgerNext \/ Bar' = Bar
  <2>1. worker[h].msg.order \in Requests
    BY <1>3 DEF WritesResult
  <2> QED
    BY <1>3, <2>1, LedgerResult DEF Ledger!LedgerNext
<1> QED
  BY <1>1, <1>2, <1>3, StepsWriteLegally DEF TableStep, vars

LEMMA LedgerInits == Init => Ledger!LedgerInit
<1> SUFFICES ASSUME Init PROVE Bar = [r \in Requests |-> Ledger!Absent]
  BY DEF Ledger!LedgerInit, Bar
<1>1. LedgerEntry(NoRow) = Ledger!Absent
  BY DEF LedgerEntry, NoRow, NewRow, Final, FinalOutcomes, Ledger!Absent, Ledger!NoResult
<1> QED
  BY <1>1 DEF Init, Bar

\* The versioned table, its races, retries and faults implement the abstract ledger.
THEOREM PaymentImplementsLedger == Spec => ImplementsLedger
<1>1. Spec => [](TypeOK /\ LockInv /\ CreatingIsNew)
  BY TypeInit, TypeStep, LockInit, LockStep, CreatingInit, CreatingStep, PTL DEF Spec
<1>2. Spec => Ledger!LedgerInit
  BY LedgerInits DEF Spec
<1>3. Spec => [][Ledger!LedgerNext]_Bar
  BY <1>1, LedgerStep, PTL DEF Spec
<1> QED
  BY <1>2, <1>3, PTL DEF ImplementsLedger, Ledger!LedgerSpec, Bar

-----------------------------------------------------------------------------
(* What reaches the table comes from a genuine notification                *)

\* A handler past delivery holds a message that passed verifyNotification.
HandledIsVerified ==
    \A h \in Handlers : worker[h].pc # "idle" => VerifyNotification(worker[h].msg)

\* A handler keeps its message until it ends; a new one was verified.
LEMMA WorkerHolds ==
    ASSUME TypeOK, Next, NEW h \in Handlers, worker'[h].pc # "idle"
    PROVE  \/ worker[h].pc # "idle" /\ worker'[h].msg = worker[h].msg
           \/ VerifyNotification(worker'[h].msg)
<1>1. ASSUME NEW g \in Handlers, Handler(g)
      PROVE  worker[h].pc # "idle" /\ worker'[h].msg = worker[h].msg
  BY <1>1 DEF Handler, OrderNotFound, LoadPayment, SaveResult, TransactionConflict,
     ResultLost, HandlerEnds, IdleWorker, Loading, TypeOK, WorkerState
<1>2. ASSUME NEW g \in Handlers, HandlerFails(g)
      PROVE  worker[h].pc # "idle" /\ worker'[h].msg = worker[h].msg
  BY <1>2 DEF HandlerFails, HandlerEnds, IdleWorker, TypeOK
<1>3. ASSUME NEW g \in Handlers, NEW m \in Notifications, Deliver(g, m) \/ Redeliver(g, m)
      PROVE  \/ worker[h].pc # "idle" /\ worker'[h].msg = worker[h].msg
             \/ VerifyNotification(worker'[h].msg)
  <2>1. worker' = worker \/ (VerifyNotification(m) /\ worker' = [worker EXCEPT ![g] = Loading(m, 0)])
    BY <1>3 DEF Deliver, Redeliver, Receive
  <2> QED
    BY <2>1 DEF Loading, TypeOK
<1>4. CASE Crash
  BY <1>4 DEF Crash, IdleWorker
<1>5. ASSUME NEW r \in Requests, Creator(r) \/ Provider(r) \/ CreateFails(r)
      PROVE  worker' = worker
  BY <1>5 DEF Creator, InsertPayment, FindExisting, CallCheckout, CheckoutEnds, SaveChange,
     SaveLost, ReloadPayment, Provider, ProviderAccepts, ProviderRefuses,
     BuyerOpensCheckout, CreateFails
<1> QED
  BY <1>1, <1>2, <1>3, <1>4, <1>5 DEF Next

LEMMA VerifiedStep ==
    ASSUME TypeOK, HandledIsVerified, Next
    PROVE  HandledIsVerified'
<1> SUFFICES ASSUME NEW h \in Handlers, worker'[h].pc # "idle"
             PROVE  VerifyNotification(worker'[h].msg)
  BY DEF HandledIsVerified
<1> QED
  BY WorkerHolds DEF HandledIsVerified

LEMMA SettledStep ==
    ASSUME TypeOK, LockInv, HandledIsVerified, SettledByGenuine, Next
    PROVE  SettledByGenuine'
<1> SUFFICES ASSUME NEW r \in Requests, Final(payments'[r])
             PROVE  \E m \in Notifications :
                        m.order = r /\ Genuine(m) /\ SameResult(payments'[r], m)
  BY DEF SettledByGenuine, Final, Genuine, SameResult
<1>0. TableStep /\ payments[r] \in Row
  BY StepsWriteLegally DEF TypeOK
<1>1. CASE Final(payments[r])
  <2>1. PICK m \in Notifications : m.order = r /\ Genuine(m) /\ SameResult(payments[r], m)
    BY <1>1 DEF SettledByGenuine
  <2>2. SameResult(payments'[r], m)
    BY <1>0, <1>1, <2>1, FinalRowsKeep DEF Final, SameResult
  <2> QED
    BY <2>1, <2>2
<1>2. CASE ~Final(payments[r])
  <2>1. payments'[r] # payments[r] /\ payments'[r] # NewPayment
    BY <1>2 DEF Final, NewPayment, NewRow, FinalOutcomes
  <2>2. ASSUME NEW change \in Changes, Applies(change, payments[r]),
               payments'[r] = Bumped(Changed(change, payments[r]))
        PROVE  FALSE
    <3>1. Changed(change, payments[r]) \in Row /\ ~Final(Changed(change, payments[r]))
      BY <1>0, <1>2, <2>2, ChangedIsRow DEF Applies, Changed, Row, Final, FinalOutcomes
    <3> QED
      BY <2>2, <3>1, BumpedKeeps DEF Final
  <2>3. PICK h \in Handlers :
          /\ WritesResult(h)
          /\ worker[h].msg.order = r
          /\ payments'[r] = Bumped(Applied(payments[r], worker[h].msg))
    <3>1. create[r].change \in Changes
      BY DEF TypeOK, CreatorState
    <3> QED
      BY <1>0, <2>1, <2>2, <3>1, RowWrites DEF WritesChange
  <2> DEFINE m == worker[h].msg
  <2>4. m \in Notifications /\ VerifyNotification(m) /\ Judge(payments[r], m) = "apply"
    BY <2>3 DEF WritesResult, HandledIsVerified
  <2>5. Genuine(m)
    BY <2>3, <2>4 DEF Genuine, Judge
  <2>6. SameResult(payments'[r], m)
    <3>1. SameResult(Applied(payments[r], m), m)
      BY <1>0 DEF Applied, SameResult, Row
    <3> QED
      BY <1>0, <2>3, <2>4, <3>1, AppliedIsRow, BumpedKeeps DEF SameResult
  <2> QED
    BY <2>3, <2>4, <2>5, <2>6
<1> QED
  BY <1>1, <1>2

-----------------------------------------------------------------------------
(* What was acknowledged is in the table                                   *)

\* The part of AckedIsRecorded about one row and one message.
Recorded(row, m) == IF Outcome(m) = "pending" THEN row.status = "pending" \/ Final(row)
                    ELSE SameResult(row, m)

LEMMA AppliedRecords ==
    ASSUME NEW row \in Row, NEW m \in Notifications
    PROVE  Recorded(Bumped(Applied(row, m)), m)
<1>1. Applied(row, m).status = Outcome(m) /\ SameResult(Applied(row, m), m)
  BY DEF Applied, SameResult, Row
<1> QED
  BY <1>1, AppliedIsRow, BumpedKeeps DEF Recorded, SameResult

LEMMA DuplicateIsRecorded ==
    ASSUME NEW row \in Row, NEW m \in Notifications, Judge(row, m) = "duplicate"
    PROVE  Recorded(row, m)
BY DEF Judge, Classify, Recorded, Final, SameResult

\* A recorded result stays recorded: a final one for ever, a pending one until a final one.
LEMMA RecordedStays ==
    ASSUME TypeOK, TableStep, NEW m \in Notifications, m.order \in Requests,
           Recorded(payments[m.order], m)
    PROVE  Recorded(payments'[m.order], m)
<1> DEFINE row == payments[m.order]
           new == payments'[m.order]
<1>0. row \in Row
  BY DEF TypeOK
<1>1. CASE Final(row)
  <2>1. new.status = row.status /\ new.txn = row.txn /\ new.code = row.code
    BY <1>1, FinalRowsKeep DEF Final
  <2> QED
    BY <1>1, <2>1 DEF Recorded, SameResult, Final
<1>2. CASE ~Final(row)
  <2>1. Outcome(m) = "pending" /\ row.status = "pending"
    BY <1>2, OutcomeInOutcomes DEF Recorded, SameResult, Final, Outcomes
  <2>2. ASSUME NEW change \in Changes, Applies(change, row), new = Bumped(Changed(change, row))
        PROVE  new.status = "pending"
    BY <1>0, <2>1, <2>2, ChangedIsRow, ChangedKeeps, BumpedKeeps
  <2>3. ASSUME NEW n \in Notifications, Judge(row, n) = "apply", new = Bumped(Applied(row, n))
        PROVE  new.status = "pending" \/ Final(new)
    BY <1>0, <2>3, AppliedIsRow, LegalResultHasStatus, BumpedKeeps, OutcomeInOutcomes
       DEF Outcomes, Final
  <2>4. row # NoRow
    BY <2>1 DEF NoRow, NewRow
  <2>5. new.status = "pending" \/ Final(new)
    BY <2>1, <2>2, <2>3, <2>4, RowSteps
  <2> QED
    BY <2>1, <2>5 DEF Recorded
<1> QED
  BY <1>1, <1>2

\* Only a stored result and a duplicate of one are acknowledged.
LEMMA AcksFollowRecords ==
    ASSUME TypeOK, Next, NEW m \in Notifications, reply'[m] = "ack", reply[m] # "ack"
    PROVE  \E h \in Handlers :
             /\ worker[h].msg = m
             /\ \/ LoadPayment(h) /\ Judge(payments[m.order], m) = "duplicate"
                \/ SaveResult(h)
<1>1. ASSUME NEW n \in Notifications, NEW result, Answered(n, result)
      PROVE  n = m /\ Response(result) = "ack"
  BY <1>1 DEF Answered, TypeOK
<1>2. \A result : Response(result) = "ack" /\
          result \in {"state_conflict", "thrown", "not_found", "amount_mismatch",
                      "reference_mismatch", "invalid"} => FALSE
  BY DEF Response
<1>3. ASSUME NEW h \in Handlers, NEW result, HandlerEnds(h, result), worker[h].pc # "idle"
      PROVE  worker[h].msg = m /\ Response(result) = "ack"
  BY <1>1, <1>3 DEF HandlerEnds, TypeOK, WorkerState
<1>4. ASSUME NEW h \in Handlers, LoadPayment(h)
      PROVE  worker[h].msg = m /\ Judge(payments[m.order], m) = "duplicate"
  <2> DEFINE verdict == Judge(payments[worker[h].msg.order], worker[h].msg)
  <2>1. worker[h].pc # "idle" /\ HandlerEnds(h, verdict) /\ verdict # "apply"
    BY <1>4 DEF LoadPayment
  <2>2. worker[h].msg = m /\ Response(verdict) = "ack"
    BY <1>3, <2>1
  <2>3. verdict \in {"duplicate", "state_conflict", "amount_mismatch", "reference_mismatch"}
    BY <2>1, JudgeIsResult
  <2> QED
    BY <1>2, <2>2, <2>3
<1>5. ASSUME NEW h \in Handlers, Handler(h)
      PROVE  /\ worker[h].msg = m
             /\ \/ LoadPayment(h) /\ Judge(payments[m.order], m) = "duplicate"
                \/ SaveResult(h)
  <2>1. CASE OrderNotFound(h)
    BY <1>2, <1>3, <2>1 DEF OrderNotFound
  <2>2. CASE TransactionConflict(h) \/ ResultLost(h)
    BY <1>2, <1>3, <2>2 DEF TransactionConflict, ResultLost
  <2>3. CASE SaveResult(h)
    BY <1>3, <2>3 DEF SaveResult
  <2> QED
    BY <1>4, <1>5, <2>1, <2>2, <2>3 DEF Handler
<1>6. ASSUME NEW h \in Handlers, HandlerFails(h) PROVE FALSE
  BY <1>2, <1>3, <1>6 DEF HandlerFails
<1>7. ASSUME NEW h \in Handlers, NEW n \in Notifications, Deliver(h, n) \/ Redeliver(h, n)
      PROVE  FALSE
  <2>1. reply' = reply \/ Answered(n, "invalid")
    BY <1>7 DEF Deliver, Redeliver, Receive
  <2> QED
    BY <1>1, <1>2, <2>1
<1>8. CASE Crash
  BY <1>8 DEF Crash
<1>9. ASSUME NEW r \in Requests, Creator(r) \/ Provider(r) \/ CreateFails(r)
      PROVE  reply' = reply
  BY <1>9 DEF Creator, InsertPayment, FindExisting, CallCheckout, CheckoutEnds, SaveChange,
     SaveLost, ReloadPayment, Provider, ProviderAccepts, ProviderRefuses,
     BuyerOpensCheckout, CreateFails
<1> QED
  BY <1>5, <1>6, <1>7, <1>8, <1>9 DEF Next

LEMMA AckedStep ==
    ASSUME TypeOK, LockInv, AckedIsRecorded, Next
    PROVE  AckedIsRecorded'
<1> SUFFICES ASSUME NEW m \in Notifications, reply'[m] = "ack"
             PROVE  m.order \in Requests /\ Recorded(payments'[m.order], m)
  BY DEF AckedIsRecorded, Recorded, Final, SameResult
<1>0. TableStep
  BY StepsWriteLegally
<1>1. CASE reply[m] = "ack"
  <2>1. m.order \in Requests /\ Recorded(payments[m.order], m)
    BY <1>1 DEF AckedIsRecorded, Recorded
  <2> QED
    BY <1>0, <2>1, RecordedStays
<1>2. CASE reply[m] # "ack"
  <2>1. PICK h \in Handlers :
          /\ worker[h].msg = m
          /\ \/ LoadPayment(h) /\ Judge(payments[m.order], m) = "duplicate"
             \/ SaveResult(h)
    BY <1>2, AcksFollowRecords
  <2>2. CASE LoadPayment(h) /\ Judge(payments[m.order], m) = "duplicate"
    <3>1. m.order \in Requests /\ UNCHANGED payments
      BY <2>1, <2>2 DEF LoadPayment
    <3>2. Recorded(payments[m.order], m)
      BY <2>2, <3>1, DuplicateIsRecorded DEF TypeOK
    <3> QED
      BY <3>1, <3>2
  <2>3. CASE SaveResult(h)
    <3>1. m.order \in Requests /\ payments[m.order] \in Row
      BY <2>1, <2>3 DEF SaveResult, TypeOK, WorkerState
    <3>2. worker[h].row = Applied(payments[m.order], m)
      BY <2>1, <2>3 DEF SaveResult, VersionMatches, LockInv, WorkerCopies
    <3>3. payments'[m.order] = Bumped(Applied(payments[m.order], m))
      BY <2>1, <2>3, <3>1, <3>2 DEF SaveResult, Stored, Bumped, TypeOK
    <3> QED
      BY <3>1, <3>3, AppliedRecords
  <2> QED
    BY <2>1, <2>2, <2>3
<1> QED
  BY <1>1, <1>2

-----------------------------------------------------------------------------
(* What a request came back with                                           *)

\* No change is decided before the checkout call ends, and then the request has its row.
ChangeComesLate ==
    \A r \in Requests :
        /\ create[r].pc \in {"new", "inserted", "checkout"} => create[r].change = "none"
        /\ create[r].change # "none" => payments[r].status # "absent"

\* A row that was inserted stays.
LEMMA RowsStay ==
    ASSUME TypeOK, LockInv, Next, NEW r \in Requests, payments[r].status # "absent"
    PROVE  payments'[r].status # "absent" /\ payments[r] # NoRow
BY StepsWriteLegally, VersionsMove DEF NewPayment, NoRow, NewRow

LEMMA AttemptedKeepsChange ==
    ASSUME NEW change, NEW row, NEW attempt
    PROVE  /\ Attempted(change, row, attempt).change = change
           /\ Attempted(change, row, attempt).pc \in {"exhausted", "returned", "save"}
           /\ Attempted(change, row, attempt).attempt = attempt
           /\ Attempted(change, row, attempt).pc = "returned" => ~Applies(change, row)
           /\ Attempted(change, row, attempt).pc = "save" =>
                Attempted(change, row, attempt).row = Changed(change, row)
           /\ Attempted(change, row, attempt).pc = "exhausted" <=> attempt >= MaxSaveAttempts
BY DEF Attempted

\* What a request's own step does to its pc and its change.
LEMMA CreatorEffects ==
    ASSUME TypeOK, NEW r \in Requests, Creator(r)
    PROVE  \/ /\ InsertPayment(r) /\ create[r].pc = "new"
              /\ create'[r].pc = "inserted" /\ create'[r].change = create[r].change
           \/ /\ FindExisting(r) /\ create[r].pc = "new"
              /\ create'[r].pc \in {"returned", "mismatch"}
              /\ create'[r].change = create[r].change
           \/ /\ CallCheckout(r) /\ create[r].pc = "inserted"
              /\ create'[r].pc = "checkout" /\ create'[r].change = create[r].change
           \/ /\ create[r].pc = "checkout" /\ UNCHANGED <<payments, wire>>
              /\ \E answer \in CheckoutAnswers(ProviderOf[r], wire[r]) :
                    create'[r] = Attempted(ChangeFor(answer), create[r].row, 0)
           \/ /\ SaveChange(r) /\ create[r].pc = "save"
              /\ create'[r].pc = "returned" /\ create'[r].change = create[r].change
           \/ /\ SaveLost(r) /\ create[r].pc = "save"
              /\ create'[r].pc = "reload" /\ create'[r].change = create[r].change
           \/ /\ create[r].pc = "reload" /\ UNCHANGED <<payments, wire>>
              /\ create'[r] = Attempted(create[r].change, payments[r], create[r].attempt + 1)
<1>0. create[r] \in CreatorState
  BY DEF TypeOK
<1>1. CASE InsertPayment(r)
  BY <1>0, <1>1 DEF InsertPayment, TypeOK, CreatorState
<1>2. CASE FindExisting(r)
  <2>1. PICK s \in KeyOwners(r) :
          create' = [create EXCEPT ![r].row = payments[s],
                                   ![r].pc = IF FingerprintOf[s] = FingerprintOf[r]
                                             THEN "returned" ELSE "mismatch"]
    BY <1>2 DEF FindExisting
  <2>2. create'[r].pc \in {"returned", "mismatch"} /\ create'[r].change = create[r].change
    BY <1>0, <2>1 DEF TypeOK, CreatorState
  <2> QED
    BY <1>2, <2>2 DEF FindExisting
<1>3. CASE CallCheckout(r)
  BY <1>0, <1>3 DEF CallCheckout, CreatorGoes, TypeOK, CreatorState
<1>4. CASE CheckoutEnds(r)
  BY <1>4 DEF CheckoutEnds, TypeOK
<1>5. CASE SaveChange(r)
  BY <1>0, <1>5 DEF SaveChange, CreatorGoes, TypeOK, CreatorState
<1>6. CASE SaveLost(r)
  BY <1>0, <1>6 DEF SaveLost, CreatorGoes, TypeOK, CreatorState
<1>7. CASE ReloadPayment(r)
  BY <1>7 DEF ReloadPayment, TypeOK
<1> QED
  BY <1>1, <1>2, <1>3, <1>4, <1>5, <1>6, <1>7 DEF Creator

LEMMA ChangeLateStep ==
    ASSUME TypeOK, LockInv, ChangeComesLate, Next
    PROVE  ChangeComesLate'
<1> SUFFICES ASSUME NEW r \in Requests
             PROVE  /\ create'[r].pc \in {"new", "inserted", "checkout"}
                         => create'[r].change = "none"
                    /\ create'[r].change # "none" => payments'[r].status # "absent"
  BY DEF ChangeComesLate
<1>0. create[r] \in CreatorState
  BY DEF TypeOK
<1>1. payments[r].status # "absent" => payments'[r].status # "absent"
  BY RowsStay
<1>2. CASE create'[r] = create[r]
  BY <1>1, <1>2 DEF ChangeComesLate
<1>3. CASE create'[r] = [create[r] EXCEPT !.pc = "error"]
  <2>1. create'[r].pc = "error" /\ create'[r].change = create[r].change
    BY <1>0, <1>3 DEF CreatorState
  <2> QED
    BY <1>1, <2>1 DEF ChangeComesLate
<1>4. CASE Creator(r)
  <2>1. create[r].pc \in {"inserted", "checkout", "save", "reload"} => payments[r].status # "absent"
    BY DEF LockInv, CreatorInserted
  <2>2. CASE create'[r].change = create[r].change
    <3>1. create'[r].pc \in {"new", "inserted", "checkout"} => create[r].pc \in {"new", "inserted"}
      BY <1>4, CreatorEffects, AttemptedKeepsChange
    <3> QED
      BY <1>1, <2>2, <3>1 DEF ChangeComesLate
  <2>3. CASE create[r].pc \in {"checkout", "reload"} /\
             create'[r].pc \in {"exhausted", "returned", "save"}
    BY <1>1, <2>1, <2>3
  <2> QED
    BY <1>4, <2>2, <2>3, CreatorEffects, AttemptedKeepsChange
<1> QED
  BY <1>2, <1>3, <1>4, CreatorMoves

\* Once a change no longer applies to a row, nothing written later makes it apply again.
LEMMA StaysInapplicable ==
    ASSUME TypeOK, TableStep, NEW r \in Requests, payments[r].status # "absent",
           NEW change \in Changes, ~Applies(change, payments[r])
    PROVE  ~Applies(change, payments'[r])
<1> DEFINE row == payments[r]
           new == payments'[r]
<1>0. row \in Row /\ row # NoRow
  BY DEF TypeOK, NoRow, NewRow
<1>1. CASE change = "none"
  BY <1>1 DEF Applies
<1>2. CASE change = "attach"
  <2>1. row.url \/ row.status = "create_failed"
    BY <1>0, <1>2 DEF Applies, Row, Statuses
  <2>2. CASE row.status = "create_failed"
    BY <1>2, <2>2, FinalRowsKeep
       DEF Applies, AttachableStatuses, MutableStatuses, FinalOutcomes
  <2>3. CASE row.url
    <3>1. ASSUME NEW c \in Changes, Applies(c, row), new = Bumped(Changed(c, row))
          PROVE  new.url
      BY <1>0, <2>3, <3>1, ChangedIsRow, ChangedKeeps, BumpedKeeps
    <3>2. ASSUME NEW m \in Notifications, new = Bumped(Applied(row, m))
          PROVE  new.url
      BY <1>0, <2>3, <3>2, AppliedIsRow, BumpedKeeps
    <3>3. new.url
      BY <1>0, <2>3, <3>1, <3>2, RowSteps
    <3> QED
      BY <1>2, <3>3 DEF Applies
  <2> QED
    BY <2>1, <2>2, <2>3
<1>3. CASE change \in {"unknown", "reject"}
  <2>1. row.status # "creating"
    BY <1>3 DEF Applies
  <2>2. ASSUME NEW c \in Changes, Applies(c, row), new = Bumped(Changed(c, row))
        PROVE  new.status # "creating"
    BY <1>0, <2>1, <2>2, ChangedIsRow, ChangedKeeps, BumpedKeeps
  <2>3. ASSUME NEW m \in Notifications, Judge(row, m) = "apply", new = Bumped(Applied(row, m))
        PROVE  new.status # "creating"
    BY <1>0, <2>3, AppliedIsRow, LegalResultHasStatus, BumpedKeeps, OutcomeInOutcomes
       DEF Outcomes, FinalOutcomes
  <2>4. new.status # "creating"
    BY <1>0, <2>1, <2>2, <2>3, RowSteps
  <2> QED
    BY <1>3, <2>4 DEF Applies
<1> QED
  BY <1>1, <1>2, <1>3 DEF Changes

\* A change that was made does not apply again.
LEMMA ChangedIsDone ==
    ASSUME NEW row \in Row, NEW change \in Changes, Applies(change, row)
    PROVE  ~Applies(change, Bumped(Changed(change, row)))
<1>1. /\ change = "attach" => Changed(change, row).url
      /\ change \in {"unknown", "reject"} => Changed(change, row).status # "creating"
  BY DEF Changed, Row, Applies
<1> QED
  BY <1>1, ChangedIsRow, BumpedKeeps DEF Applies

LEMMA ReturnedStep ==
    ASSUME TypeOK, LockInv, ChangeComesLate, ReturnedChangeHolds, Next
    PROVE  ReturnedChangeHolds'
<1> SUFFICES ASSUME NEW r \in Requests, create'[r].pc = "returned", create'[r].change # "none"
             PROVE  ~Applies(create'[r].change, payments'[r])
  BY DEF ReturnedChangeHolds
<1>0. /\ TableStep /\ create[r] \in CreatorState /\ create[r].change \in Changes
      /\ payments[r] \in Row
  BY StepsWriteLegally DEF TypeOK, CreatorState
<1>1. CASE create'[r] = create[r]
  <2>1. payments[r].status # "absent" /\ ~Applies(create[r].change, payments[r])
    BY <1>1 DEF ChangeComesLate, ReturnedChangeHolds
  <2> QED
    BY <1>0, <1>1, <2>1, StaysInapplicable
<1>2. CASE create'[r] = [create[r] EXCEPT !.pc = "error"]
  BY <1>0, <1>2 DEF CreatorState
<1>3. CASE FindExisting(r)
  <2>1. create[r].pc = "new" /\ create'[r].change = create[r].change
    BY <1>0, <1>3 DEF FindExisting, TypeOK, CreatorState
  <2> QED
    BY <2>1 DEF ChangeComesLate
<1>4. ASSUME NEW answer, create[r].pc = "checkout", UNCHANGED payments,
             create'[r] = Attempted(ChangeFor(answer), create[r].row, 0)
      PROVE  ~Applies(create'[r].change, payments'[r])
  <2>1. create[r].row = NewPayment
    BY <1>4 DEF LockInv, CreatorInserted
  <2>2. create'[r].change = ChangeFor(answer) /\ ~Applies(ChangeFor(answer), NewPayment)
    BY <1>4, <2>1, AttemptedKeepsChange
  <2> QED
    BY <2>2 DEF Applies, ChangeFor, NewPayment, NewRow, AttachableStatuses, MutableStatuses
<1>5. CASE SaveChange(r)
  <2>1. /\ Applies(create[r].change, payments[r])
        /\ create[r].row = Changed(create[r].change, payments[r])
        /\ Stored(r, create[r].row)
    BY <1>5 DEF SaveChange, VersionMatches, LockInv, CreatorCopies
  <2>2. payments'[r] = Bumped(Changed(create[r].change, payments[r]))
    BY <2>1 DEF Stored, Bumped, TypeOK
  <2>3. create'[r].change = create[r].change
    BY <1>0, <1>5 DEF SaveChange, CreatorGoes, TypeOK, CreatorState
  <2> QED
    BY <1>0, <2>1, <2>2, <2>3, ChangedIsDone
<1>6. CASE create[r].pc = "reload" /\ UNCHANGED payments /\
           create'[r] = Attempted(create[r].change, payments[r], create[r].attempt + 1)
  BY <1>6, AttemptedKeepsChange
<1> QED
  BY <1>1, <1>2, <1>3, <1>4, <1>5, <1>6, CreatorMoves, CreatorEffects

-----------------------------------------------------------------------------
(* One checkout per key, and none of a rejected payment                    *)

OneRowPerKey ==
    \A r, s \in Requests : KeyOf[r] = KeyOf[s] /\ r # s =>
        "absent" \in {payments[r].status, payments[s].status}

\* A provider hears of an order only after its row; over HTTP, only from its own request.
OrderHasRow ==
    \A r \in Requests : wire[r] # "idle" =>
        /\ payments[r].status # "absent"
        /\ ProviderOf[r] # "vnpay" => create[r].pc \notin {"new", "inserted"}

\* A request that came back found a row of its key with its fingerprint.
AnsweredWithItsRow ==
    \A r \in Requests : create[r].pc = "returned" =>
        \E s \in Requests : /\ KeyOf[s] = KeyOf[r] /\ FingerprintOf[s] = FingerprintOf[r]
                            /\ payments[s].status # "absent"

LEMMA OneRowStep ==
    ASSUME TypeOK, LockInv, OneRowPerKey, Next
    PROVE  OneRowPerKey'
<1> SUFFICES ASSUME NEW r \in Requests, NEW s \in Requests, KeyOf[r] = KeyOf[s], r # s,
                    payments'[r].status # "absent", payments'[s].status # "absent"
             PROVE  FALSE
  BY DEF OneRowPerKey
<1>0. TableStep
  BY StepsWriteLegally
<1>1. ASSUME NEW q \in Requests, payments[q].status = "absent", payments'[q].status # "absent"
      PROVE  Inserts(q)
  <2>1. payments[q] = NoRow /\ payments[q] \in Row
    BY <1>1 DEF LockInv, FreshRows, TypeOK
  <2>2. ~WritesChange(q)
    BY <1>1, <2>1, LegalChangeHasStatus DEF WritesChange, TypeOK, CreatorState
  <2>3. \A h \in Handlers : WritesResult(h) => worker[h].msg.order # q
    BY <1>1, <2>1, LegalResultHasStatus DEF WritesResult, MutableStatuses
  <2> QED
    BY <1>0, <1>1, <2>2, <2>3, RowWrites
<1>2. payments[r].status = "absent" \/ payments[s].status = "absent"
  BY DEF OneRowPerKey
<1>3. ASSUME NEW p \in Requests, NEW q \in Requests, KeyOf[p] = KeyOf[q], p # q,
             payments[p].status = "absent",
             payments'[p].status # "absent", payments'[q].status # "absent"
      PROVE  FALSE
  <2>1. KeyOwners(p) = {} /\ payments' = [payments EXCEPT ![p] = NewPayment]
    BY <1>1, <1>3 DEF Inserts
  <2>2. payments[q].status = "absent"
    BY <1>3, <2>1 DEF KeyOwners
  <2>3. payments'[q] = payments[q]
    BY <1>3, <2>1 DEF TypeOK
  <2> QED
    BY <1>3, <2>2, <2>3
<1> QED
  BY <1>2, <1>3

\* How the provider's view of an order moves.
LEMMA WireMoves ==
    ASSUME TypeOK, Next, NEW r \in Requests
    PROVE  \/ wire'[r] = wire[r]
           \/ CallCheckout(r) /\ ProviderOf[r] # "vnpay"
           \/ wire[r] = "inflight" /\ create' = create
           \/ BuyerOpensCheckout(r)
<1>1. ASSUME NEW s \in Requests, Creator(s) \/ CreateFails(s)
      PROVE  wire'[r] = wire[r] \/ (CallCheckout(r) /\ ProviderOf[r] # "vnpay")
  <2>1. CASE CallCheckout(s)
    BY <2>1 DEF CallCheckout, TypeOK
  <2>2. CASE ~CallCheckout(s)
    BY <1>1, <2>2 DEF Creator, InsertPayment, FindExisting, CheckoutEnds, SaveChange,
       SaveLost, ReloadPayment, CreateFails
  <2> QED
    BY <2>1, <2>2
<1>2. ASSUME NEW s \in Requests, Provider(s)
      PROVE  \/ wire'[r] = wire[r]
             \/ wire[r] = "inflight" /\ create' = create
             \/ BuyerOpensCheckout(r)
  BY <1>2 DEF Provider, ProviderAccepts, ProviderRefuses, BuyerOpensCheckout, TypeOK
<1>3. ASSUME NEW h \in Handlers, Handler(h) \/ HandlerFails(h) PROVE wire' = wire
  BY <1>3 DEF Handler, OrderNotFound, LoadPayment, SaveResult, TransactionConflict,
     ResultLost, HandlerFails
<1>4. ASSUME NEW h \in Handlers, NEW m \in Notifications, Deliver(h, m) \/ Redeliver(h, m)
      PROVE  wire' = wire
  BY <1>4 DEF Deliver, Redeliver
<1>5. CASE Crash
  BY <1>5 DEF Crash
<1> QED
  BY <1>1, <1>2, <1>3, <1>4, <1>5 DEF Next

LEMMA OrderHasRowStep ==
    ASSUME TypeOK, LockInv, OrderHasRow, Next
    PROVE  OrderHasRow'
<1> SUFFICES ASSUME NEW r \in Requests, wire'[r] # "idle"
             PROVE  /\ payments'[r].status # "absent"
                    /\ ProviderOf[r] # "vnpay" => create'[r].pc \notin {"new", "inserted"}
  BY DEF OrderHasRow
<1>0. create[r] \in CreatorState
  BY DEF TypeOK
<1>1. ASSUME create[r].pc \notin {"new", "inserted"}
      PROVE  create'[r].pc \notin {"new", "inserted"}
  <2>1. CASE create'[r] = [create[r] EXCEPT !.pc = "error"]
    BY <1>0, <2>1 DEF CreatorState
  <2>2. CASE Creator(r)
    BY <1>1, <2>2, CreatorEffects, AttemptedKeepsChange
  <2> QED
    BY <1>1, <2>1, <2>2, CreatorMoves
<1>2. CASE wire[r] # "idle"
  BY <1>1, <1>2, RowsStay DEF OrderHasRow
<1>3. CASE CallCheckout(r)
  <2>1. create[r].pc = "inserted" /\ create'[r].pc = "checkout"
    BY <1>0, <1>3 DEF CallCheckout, CreatorGoes, TypeOK, CreatorState
  <2>2. payments[r].status # "absent"
    BY <2>1 DEF LockInv, CreatorInserted
  <2> QED
    BY <2>1, <2>2, RowsStay
<1>4. CASE BuyerOpensCheckout(r)
  <2>1. payments[r].status # "absent"
    BY <1>4 DEF BuyerOpensCheckout, LockInv, FreshRows, NoRow, NewRow
  <2> QED
    BY <1>4, <2>1, RowsStay DEF BuyerOpensCheckout
<1> QED
  BY <1>2, <1>3, <1>4, WireMoves

LEMMA AnsweredStep ==
    ASSUME TypeOK, LockInv, AnsweredWithItsRow, Next
    PROVE  AnsweredWithItsRow'
<1> SUFFICES ASSUME NEW r \in Requests, create'[r].pc = "returned"
             PROVE  \E s \in Requests : /\ KeyOf[s] = KeyOf[r]
                                        /\ FingerprintOf[s] = FingerprintOf[r]
                                        /\ payments'[s].status # "absent"
  BY DEF AnsweredWithItsRow
<1>0. create[r] \in CreatorState
  BY DEF TypeOK
<1>1. CASE create[r].pc = "returned"
  <2>1. PICK s \in Requests : /\ KeyOf[s] = KeyOf[r] /\ FingerprintOf[s] = FingerprintOf[r]
                              /\ payments[s].status # "absent"
    BY <1>1 DEF AnsweredWithItsRow
  <2> QED
    BY <2>1, RowsStay
<1>2. CASE FindExisting(r)
  <2>1. PICK s \in KeyOwners(r) :
          create' = [create EXCEPT ![r].row = payments[s],
                                   ![r].pc = IF FingerprintOf[s] = FingerprintOf[r]
                                             THEN "returned" ELSE "mismatch"]
    BY <1>2 DEF FindExisting
  <2>2. s \in Requests /\ KeyOf[s] = KeyOf[r] /\ payments[s].status # "absent"
    BY DEF KeyOwners
  <2>3. FingerprintOf[s] = FingerprintOf[r]
    BY <1>0, <2>1 DEF TypeOK, CreatorState
  <2> QED
    BY <2>2, <2>3, RowsStay
<1>3. CASE create[r].pc \in {"checkout", "save", "reload"}
  <2>1. payments[r].status # "absent"
    BY <1>3 DEF LockInv, CreatorInserted
  <2> QED
    BY <2>1, RowsStay
<1>4. CASE create'[r] = [create[r] EXCEPT !.pc = "error"]
  BY <1>0, <1>4 DEF CreatorState
<1> QED
  BY <1>1, <1>2, <1>3, <1>4, CreatorMoves, CreatorEffects

\* The parts give the property as the runs check it.
LEMMA PartsGiveOneCheckout ==
    ASSUME LockInv, OneRowPerKey, OrderHasRow, AnsweredWithItsRow
    PROVE  OneCheckoutPerKey
<1> SUFFICES ASSUME NEW r \in Requests, NEW s \in Requests, KeyOf[r] = KeyOf[s],
                    payments[s].status # "absent", FingerprintOf[r] # FingerprintOf[s],
                    create[r].pc \in {"returned", "checkout", "save"}
             PROVE  FALSE
  BY DEF OneCheckoutPerKey, OneRowPerKey, OrderHasRow
<1>1. CASE create[r].pc \in {"checkout", "save"}
  BY <1>1 DEF LockInv, CreatorInserted, OneRowPerKey
<1>2. CASE create[r].pc = "returned"
  <2>1. PICK q \in Requests : /\ KeyOf[q] = KeyOf[r] /\ FingerprintOf[q] = FingerprintOf[r]
                              /\ payments[q].status # "absent"
    BY <1>2 DEF AnsweredWithItsRow
  <2> QED
    BY <2>1 DEF OneRowPerKey
<1> QED
  BY <1>1, <1>2

\* A request takes its order for rejected only when the provider refused it.
RejectIsTrue == \A r \in Requests : create[r].change = "reject" => wire[r] = "rejected"

LEMMA RefusalStays ==
    ASSUME TypeOK, OrderHasRow, Next, NEW r \in Requests, wire[r] = "rejected"
    PROVE  wire'[r] = "rejected"
BY WireMoves DEF OrderHasRow, CallCheckout, BuyerOpensCheckout

LEMMA RejectIsTrueStep ==
    ASSUME TypeOK, LockInv, OrderHasRow, RejectIsTrue, Next
    PROVE  RejectIsTrue'
<1> SUFFICES ASSUME NEW r \in Requests, create'[r].change = "reject"
             PROVE  wire'[r] = "rejected"
  BY DEF RejectIsTrue
<1>0. create[r] \in CreatorState
  BY DEF TypeOK
<1>1. CASE create[r].change = "reject"
  BY <1>1, RefusalStays DEF RejectIsTrue
<1>2. ASSUME NEW answer \in CheckoutAnswers(ProviderOf[r], wire[r]), UNCHANGED wire,
             create'[r] = Attempted(ChangeFor(answer), create[r].row, 0)
      PROVE  wire'[r] = "rejected"
  <2>1. ChangeFor(answer) = "reject"
    BY <1>2, AttemptedKeepsChange
  <2>2. answer = "rejected"
    BY <2>1 DEF ChangeFor
  <2> QED
    BY <1>2, <2>2 DEF CheckoutAnswers
<1>3. CASE create'[r] = [create[r] EXCEPT !.pc = "error"]
  BY <1>0, <1>1, <1>3 DEF CreatorState
<1> QED
  BY <1>1, <1>2, <1>3, CreatorMoves, CreatorEffects, AttemptedKeepsChange

LEMMA RejectedStep ==
    ASSUME TypeOK, LockInv, CreatingIsNew, OrderHasRow, RejectIsTrue, RejectedHasNoOrder, Next
    PROVE  RejectedHasNoOrder'
<1> SUFFICES ASSUME NEW r \in Requests, payments'[r].status = "create_failed"
             PROVE  /\ wire'[r] = "rejected"
                    /\ ~payments'[r].url
                    /\ payments'[r].txn = NoTxn
  BY DEF RejectedHasNoOrder
<1>0. TableStep /\ payments[r] \in Row
  BY StepsWriteLegally DEF TypeOK
<1>1. CASE payments'[r] = payments[r]
  BY <1>1, RefusalStays DEF RejectedHasNoOrder
<1>2. CASE WritesChange(r) /\ payments'[r] = Bumped(Changed(create[r].change, payments[r]))
  <2> DEFINE change == create[r].change
             new == Changed(change, payments[r])
  <2>1. change \in Changes /\ Applies(change, payments[r]) /\ new \in Row
    BY <1>0, <1>2, ChangedIsRow DEF WritesChange, TypeOK, CreatorState
  <2>2. new.status = "create_failed"
    BY <1>2, <2>1, BumpedKeeps
  <2>3. change = "reject"
    BY <1>0, <2>1, <2>2 DEF Applies, Changed, Row, AttachableStatuses, MutableStatuses,
       FinalOutcomes
  <2>4. payments[r] = NewPayment
    BY <2>1, <2>3 DEF Applies, CreatingIsNew
  <2>5. new.url = FALSE /\ new.txn = NoTxn
    <3>1. new = [payments[r] EXCEPT !.status = "create_failed", !.code = RejectCode]
      BY <2>3 DEF Changed
    <3>2. payments[r].url = FALSE /\ payments[r].txn = NoTxn
      BY <2>4 DEF NewPayment, NewRow
    <3> QED
      BY <1>0, <3>1, <3>2 DEF Row
  <2>6. wire'[r] = "rejected"
    BY <2>3, RefusalStays DEF RejectIsTrue
  <2> QED
    BY <1>2, <2>1, <2>5, <2>6, BumpedKeeps
<1>3. ASSUME NEW h \in Handlers, WritesResult(h), worker[h].msg.order = r,
             payments'[r] = Bumped(Applied(payments[r], worker[h].msg))
      PROVE  FALSE
  BY <1>0, <1>3, AppliedIsRow, LegalResultHasStatus, BumpedKeeps, OutcomeInOutcomes
     DEF WritesResult, Outcomes, FinalOutcomes
<1> QED
  BY <1>0, <1>1, <1>2, <1>3, RowWrites DEF NewPayment, NewRow

-----------------------------------------------------------------------------
(* Giving up                                                               *)

\* Each attempt of a request was lost to another write of its row.
AttemptsLost ==
    \A r \in Requests :
        /\ create[r].pc = "save" => create[r].attempt <= create[r].row.version
        /\ create[r].pc = "reload" => create[r].attempt < payments[r].version
        /\ create[r].pc = "exhausted" => payments[r].version >= MaxSaveAttempts

LEMMA AttemptsStep ==
    ASSUME TypeOK, LockInv, AttemptsLost, Next
    PROVE  AttemptsLost'
<1> SUFFICES ASSUME NEW r \in Requests
             PROVE  /\ create'[r].pc = "save" => create'[r].attempt <= create'[r].row.version
                    /\ create'[r].pc = "reload" => create'[r].attempt < payments'[r].version
                    /\ create'[r].pc = "exhausted" => payments'[r].version >= MaxSaveAttempts
  BY DEF AttemptsLost
<1>0. /\ create[r] \in CreatorState /\ create[r].attempt \in Nat
      /\ create[r].row \in Row /\ create[r].row.version \in Nat
      /\ payments[r] \in Row /\ payments[r].version \in Nat
      /\ create[r].change \in Changes
      /\ MaxSaveAttempts \in Nat \ {0}
  BY PaymentAssumption DEF TypeOK, CreatorState, Row
<1>1. payments'[r].version \in Nat /\ payments'[r].version >= payments[r].version
  <2>1. payments' \in [Requests -> Row]
    BY TypeStep DEF TypeOK
  <2>2. payments[r] = NoRow => payments[r].version = 0
    BY DEF NoRow, NewRow
  <2> QED
    BY <1>0, <2>1, <2>2, StepsWriteLegally, VersionsMove DEF Row
<1>2. CASE create'[r] = create[r]
  BY <1>0, <1>1, <1>2 DEF AttemptsLost
<1>3. CASE create'[r] = [create[r] EXCEPT !.pc = "error"]
  BY <1>0, <1>3 DEF CreatorState
<1>4. ASSUME NEW answer, create[r].pc = "checkout",
             create'[r] = Attempted(ChangeFor(answer), create[r].row, 0)
      PROVE  create'[r].pc \in {"save", "returned"} /\
             (create'[r].pc = "save" => create'[r].attempt <= create'[r].row.version)
  <2> DEFINE change == ChangeFor(answer)
  <2>1. create'[r].pc \in {"save", "returned"} /\ create'[r].attempt = 0
    BY <1>0, <1>4, AttemptedKeepsChange
  <2>2. create'[r].pc = "save" => create'[r].row = Changed(change, create[r].row)
    BY <1>4, AttemptedKeepsChange
  <2>3. Changed(change, create[r].row).version \in Nat
    BY <1>0, ChangeForIsChange, ChangedIsRow
  <2> QED
    BY <2>1, <2>2, <2>3
<1>5. CASE SaveLost(r)
  <2>1. create[r].row.version < payments[r].version
    BY <1>0, <1>5 DEF SaveLost, VersionMatches, LockInv, CreatorCopies
  <2>2. create'[r].pc = "reload" /\ create'[r].attempt = create[r].attempt
    BY <1>0, <1>5 DEF SaveLost, CreatorGoes, TypeOK, CreatorState
  <2>3. create[r].attempt <= create[r].row.version
    BY <1>5 DEF SaveLost, AttemptsLost
  <2> QED
    BY <1>0, <1>1, <2>1, <2>2, <2>3
<1>6. CASE create[r].pc = "reload" /\ UNCHANGED payments /\
           create'[r] = Attempted(create[r].change, payments[r], create[r].attempt + 1)
  <2>1. create[r].attempt + 1 <= payments[r].version
    BY <1>0, <1>6 DEF AttemptsLost
  <2>2. /\ create'[r].pc \in {"exhausted", "returned", "save"}
        /\ create'[r].attempt = create[r].attempt + 1
        /\ create'[r].pc = "save" => create'[r].row = Changed(create[r].change, payments[r])
        /\ create'[r].pc = "exhausted" => create[r].attempt + 1 >= MaxSaveAttempts
    BY <1>6, AttemptedKeepsChange
  <2>3. Changed(create[r].change, payments[r]).version = payments[r].version
    BY <1>0, ChangedIsRow
  <2> QED
    BY <1>0, <1>6, <2>1, <2>2, <2>3
<1> QED
  BY <1>2, <1>3, <1>4, <1>5, <1>6, CreatorMoves, CreatorEffects

-----------------------------------------------------------------------------
(* The safety invariants of the module                                     *)

PaymentInv ==
    /\ CreatingIsNew
    /\ HandledIsVerified /\ SettledByGenuine /\ AckedIsRecorded
    /\ ChangeComesLate /\ ReturnedChangeHolds
    /\ OneRowPerKey /\ OrderHasRow /\ AnsweredWithItsRow
    /\ RejectIsTrue /\ RejectedHasNoOrder
    /\ AttemptsLost

LEMMA PaymentInit == Init => PaymentInv
<1> SUFFICES ASSUME Init PROVE PaymentInv
  OBVIOUS
<1>1. CreatingIsNew
  BY CreatingInit
<1>2. HandledIsVerified /\ AckedIsRecorded
  BY DEF Init, HandledIsVerified, IdleWorker, AckedIsRecorded
<1>3. SettledByGenuine /\ RejectedHasNoOrder
  BY DEF Init, SettledByGenuine, RejectedHasNoOrder, NoRow, NewRow, Final, FinalOutcomes
<1>4. ChangeComesLate /\ ReturnedChangeHolds /\ AnsweredWithItsRow /\ RejectIsTrue /\ AttemptsLost
  BY DEF Init, ChangeComesLate, ReturnedChangeHolds, AnsweredWithItsRow, RejectIsTrue,
     AttemptsLost, NewCreator
<1>5. OneRowPerKey /\ OrderHasRow
  BY DEF Init, OneRowPerKey, OrderHasRow, NoRow, NewRow
<1> QED
  BY <1>1, <1>2, <1>3, <1>4, <1>5 DEF PaymentInv

LEMMA PaymentStep == TypeOK /\ LockInv /\ PaymentInv /\ [Next]_vars => PaymentInv'
<1> SUFFICES ASSUME TypeOK, LockInv, PaymentInv, [Next]_vars PROVE PaymentInv'
  OBVIOUS
<1>1. CASE Next
  BY <1>1, CreatingStep, VerifiedStep, SettledStep, AckedStep, ChangeLateStep, ReturnedStep,
     OneRowStep, OrderHasRowStep, AnsweredStep, RejectIsTrueStep, RejectedStep, AttemptsStep
     DEF PaymentInv
<1>2. CASE UNCHANGED vars
  <2>1. /\ payments' = payments /\ create' = create /\ wire' = wire
        /\ worker' = worker /\ reply' = reply
    BY <1>2 DEF vars
  <2>2. CreatingIsNew' /\ HandledIsVerified' /\ SettledByGenuine' /\ AckedIsRecorded'
    BY <2>1 DEF PaymentInv, CreatingIsNew, HandledIsVerified, SettledByGenuine,
       AckedIsRecorded, Final, Genuine, SameResult
  <2>3. ChangeComesLate' /\ ReturnedChangeHolds' /\ AnsweredWithItsRow' /\ RejectIsTrue'
    BY <2>1 DEF PaymentInv, ChangeComesLate, ReturnedChangeHolds, AnsweredWithItsRow,
       RejectIsTrue
  <2>4. OneRowPerKey' /\ OrderHasRow' /\ RejectedHasNoOrder' /\ AttemptsLost'
    BY <2>1 DEF PaymentInv, OneRowPerKey, OrderHasRow, RejectedHasNoOrder, AttemptsLost
  <2> QED
    BY <2>2, <2>3, <2>4 DEF PaymentInv
<1> QED
  BY <1>1, <1>2

LEMMA PaymentInvHolds == Spec => [](TypeOK /\ LockInv /\ PaymentInv)
<1> QED
  BY TypeInit, TypeStep, LockInit, LockStep, PaymentInit, PaymentStep, PTL DEF Spec

\* SettledByGenuine: however notifications are forged, repeated and interleaved, a payment
\* ends only with the result of one that verified, of its order, amount and request.
THEOREM OnlyGenuineSettles == Spec => []SettledByGenuine
<1>1. PaymentInv => SettledByGenuine
  BY DEF PaymentInv
<1> QED
  BY <1>1, PaymentInvHolds, PTL

\* AckedIsRecorded: no provider is ever told that a result is done that the table does not
\* have, at the answer or at any time after it.
THEOREM AcksAreRecorded == Spec => []AckedIsRecorded
<1>1. PaymentInv => AckedIsRecorded
  BY DEF PaymentInv
<1> QED
  BY <1>1, PaymentInvHolds, PTL

\* ReturnedChangeHolds: a request that came back has made its change or found it overtaken,
\* and no later write reopens it.
THEOREM ChangesStayMade == Spec => []ReturnedChangeHolds
<1>1. PaymentInv => ReturnedChangeHolds
  BY DEF PaymentInv
<1> QED
  BY <1>1, PaymentInvHolds, PTL

\* OneCheckoutPerKey: requests racing on one idempotency key have one row, one order, and
\* answers about the same payment.
THEOREM KeysPayOnce == Spec => []OneCheckoutPerKey
<1>1. LockInv /\ PaymentInv => OneCheckoutPerKey
  BY PartsGiveOneCheckout DEF PaymentInv
<1> QED
  BY <1>1, PaymentInvHolds, PTL

\* RejectedHasNoOrder: create_failed is written only where the provider refused the order.
THEOREM RejectionsAreTrue == Spec => []RejectedHasNoOrder
<1>1. PaymentInv => RejectedHasNoOrder
  BY DEF PaymentInv
<1> QED
  BY <1>1, PaymentInvHolds, PTL

\* ExhaustedNeedsContention: only a request that lost MaxSaveAttempts races gives up.
THEOREM GivesUpAfterRaces == Spec => []ExhaustedNeedsContention
<1>1. PaymentInv => ExhaustedNeedsContention
  BY DEF PaymentInv, AttemptsLost, ExhaustedNeedsContention
<1> QED
  BY <1>1, PaymentInvHolds, PTL
=============================================================================
