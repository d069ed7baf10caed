------------------------------- MODULE Payment -------------------------------
(***************************************************************************)
(* The payment module: create requests and provider notification handlers   *)
(* race on one versioned row per payment.                                   *)
(*                                                                         *)
(* A create request inserts its row (or finds the row of its idempotency    *)
(* key), asks the provider for a checkout page, and saves the answer.  A    *)
(* handler verifies a notification, loads the row, applies the result and   *)
(* saves.  Both save with a version check and re-run their rules on the     *)
(* latest row when it fails, at most MaxSaveAttempts times.  Providers      *)
(* deliver notifications in any order, more than once, early, and again     *)
(* until they are acknowledged; the process may crash and a database call   *)
(* may fail before or after its write.                                      *)
(***************************************************************************)
EXTENDS PaymentGateways, Integers, FiniteSets

CONSTANTS
    Requests,           \* create requests; each would create the payment of its name
    KeyOf,              \* [Requests -> (userId, idempotencyKey)]
    FingerprintOf,      \* [Requests -> requestFingerprint]
    ProviderOf,         \* [Requests -> Providers]
    Notifications,      \* the notifications providers send
    UnknownOrder,       \* an order id this system never issued
    Handlers,           \* concurrent executions of the notification use case
    NoMessage,          \* what an idle handler holds
    NoCode,             \* a null providerResultCode
    RejectCode,         \* ZaloPay's return_code:sub_return_code of a rejection
    MaxSaveAttempts,    \* MAX_SAVE_ATTEMPTS
    MaxFaults,          \* bound: crashes, failed database calls and lost answers
    MaxRedeliveries     \* bound: deliveries of what was already answered for good

ASSUME PaymentAssumption ==
    /\ ProviderOf \in [Requests -> Providers]
    /\ UnknownOrder \notin Requests
    /\ NoMessage \notin Notifications
    /\ NoCode \notin Codes /\ RejectCode \notin Codes
    /\ MaxSaveAttempts \in Nat \ {0}
    /\ MaxFaults \in Nat
    /\ MaxRedeliveries \in Nat

ASSUME NotificationAssumption ==
    \A m \in Notifications :
        /\ m.order \in Requests \union {UnknownOrder}
        /\ m.provider \in Providers
        /\ m.order \in Requests => m.provider = ProviderOf[m.order]
        /\ m.check \in Checks
        /\ m.amountOk \in BOOLEAN /\ m.requestOk \in BOOLEAN
        /\ m.txn \in Txns \union {NoTxn}
        /\ m.code \in Codes

VARIABLES
    payments,       \* the payments table, a row per request that inserted one
    create,         \* [Requests -> the create request's execution]
    wire,           \* [Requests -> the order at the provider]
    worker,         \* [Handlers -> the handler's execution]
    reply,          \* [Notifications -> the last answer its provider has]
    faults,         \* faults so far
    redeliveries    \* redeliveries so far

vars == <<payments, create, wire, worker, reply, faults, redeliveries>>

-----------------------------------------------------------------------------
(* The payment entity and its policy                                       *)

MutableStatuses    == {"creating", "pending", "unknown"}
AttachableStatuses == MutableStatuses \union FinalOutcomes
Statuses           == AttachableStatuses \union {"create_failed", "absent"}

Row == [status : Statuses, url : BOOLEAN, txn : Txns \union {NoTxn},
        code : Codes \union {NoCode, RejectCode}, version : Nat]

NewRow(status) == [status |-> status, url |-> FALSE, txn |-> NoTxn,
                   code |-> NoCode, version |-> 0]

NewPayment == NewRow("creating")
NoRow      == NewRow("absent")

Changes == {"none", "attach", "unknown", "reject"}

\* attachCheckoutUrl, markUnknown and markCreateFailed return false unless this holds.
Applies(change, row) ==
    \/ change = "attach" /\ ~row.url /\ row.status \in AttachableStatuses
    \/ change \in {"unknown", "reject"} /\ row.status = "creating"

\* Mutant: attaching a URL makes every payment pending.
ChangedToPending(change, row) ==
    CASE change = "attach" -> [row EXCEPT !.url = TRUE, !.status = "pending"]
      [] change = "unknown" -> [row EXCEPT !.status = "unknown"]
      [] change = "reject"  -> [row EXCEPT !.status = "create_failed", !.code = RejectCode]
      [] OTHER -> row

Changed(change, row) ==
    CASE change = "attach" ->
            [row EXCEPT !.url = TRUE,
                        !.status = IF @ = "creating" THEN "pending" ELSE @]
      [] change = "unknown" -> [row EXCEPT !.status = "unknown"]
      [] change = "reject"  -> [row EXCEPT !.status = "create_failed", !.code = RejectCode]
      [] OTHER -> row

Outcome(m) == OutcomeOf(m.provider, m.code)

SameResult(row, m) == /\ row.status = Outcome(m)
                      /\ row.code = m.code
                      /\ row.txn = m.txn

\* Mutant: a final result can be replaced by another one.
ClassifyLoosely(row, m) ==
    CASE SameResult(row, m) -> "duplicate"
      [] row.status = "create_failed" -> "state_conflict"
      [] OTHER -> "apply"

\* classifyExistingPaymentNotification, with "apply" for null.
Classify(row, m) ==
    CASE row.status \in FinalOutcomes ->
            IF Outcome(m) = "pending" \/ SameResult(row, m) THEN "duplicate"
            ELSE "state_conflict"
      [] row.status \in MutableStatuses ->
            IF row.status = "pending" /\ SameResult(row, m) THEN "duplicate" ELSE "apply"
      [] OTHER -> "state_conflict"

\* Mutant: the amount is not compared.
JudgeAnyAmount(row, m) ==
    IF m.provider = "momo" /\ ~m.requestOk THEN "reference_mismatch" ELSE Classify(row, m)

\* applyVerifiedOutcome: the checks before the classification come first. Only MoMo's
\* notifications carry a request id.
Judge(row, m) ==
    IF ~m.amountOk THEN "amount_mismatch"
    ELSE IF m.provider = "momo" /\ ~m.requestOk THEN "reference_mismatch"
    ELSE Classify(row, m)

\* Mutant: the row is rebuilt from the notification, without its URL.
AppliedToNewRow(row, m) ==
    [NewRow(Outcome(m)) EXCEPT !.txn = m.txn, !.code = m.code, !.version = row.version]

Applied(row, m) == [row EXCEPT !.status = Outcome(m), !.txn = m.txn, !.code = m.code]

-----------------------------------------------------------------------------
(* The payments table                                                      *)

\* Mutant: the conflict target of the insert is the payment's id.
KeyOwnersById(r) == {s \in {r} : payments[s].status # "absent"}

\* The row holding the key of r: payments_user_idempotency_unique allows one.
KeyOwners(r) == {s \in Requests : KeyOf[s] = KeyOf[r] /\ payments[s].status # "absent"}

\* Mutant: the UPDATE finds the row by its id alone.
VersionIgnored(r, row) == payments[r].status # "absent"

\* UPDATE ... WHERE version = $8
VersionMatches(r, row) == payments[r].version = row.version

\* payments_provider_transaction_unique, a partial index on (provider, transaction id).
TransactionTaken(r, row) ==
    /\ row.txn # NoTxn
    /\ \E s \in Requests \ {r} : ProviderOf[s] = ProviderOf[r] /\ payments[s].txn = row.txn

\* Mutant: two parameters of the UPDATE are swapped.
StoredSwapped(r, row) ==
    payments' = [payments EXCEPT ![r] = [row EXCEPT !.version = @ + 1, !.txn = row.code,
                                                    !.code = row.txn]]

Stored(r, row) == payments' = [payments EXCEPT ![r] = [row EXCEPT !.version = @ + 1]]

-----------------------------------------------------------------------------
(* The create request                                                      *)

CreatorPcs == {"new", "inserted", "checkout", "save", "reload",
               "returned", "mismatch", "exhausted", "error"}
CreatorEnds == {"returned", "mismatch", "exhausted", "error"}

NewCreator == [pc |-> "new", change |-> "none", row |-> NoRow, attempt |-> 0]

\* Mutant: the loop ends an attempt early.
AttemptedEarly(change, row, attempt) ==
    IF attempt + 1 >= MaxSaveAttempts
    THEN [pc |-> "exhausted", change |-> change, row |-> row, attempt |-> attempt]
    ELSE IF ~Applies(change, row)
    THEN [pc |-> "returned", change |-> change, row |-> row, attempt |-> attempt]
    ELSE [pc |-> "save", change |-> change, row |-> Changed(change, row), attempt |-> attempt]

\* One turn of changeAndSave's loop up to its save, on the row just loaded.
Attempted(change, row, attempt) ==
    IF attempt >= MaxSaveAttempts
    THEN [pc |-> "exhausted", change |-> change, row |-> row, attempt |-> attempt]
    ELSE IF ~Applies(change, row)
    THEN [pc |-> "returned", change |-> change, row |-> row, attempt |-> attempt]
    ELSE [pc |-> "save", change |-> change, row |-> Changed(change, row), attempt |-> attempt]

CreatorGoes(r, pc) == create' = [create EXCEPT ![r].pc = pc]

\* INSERT ... ON CONFLICT (user_id, idempotency_key) DO NOTHING inserts.
InsertPayment(r) ==
    /\ create[r].pc = "new"
    /\ KeyOwners(r) = {}
    /\ payments' = [payments EXCEPT ![r] = NewPayment]
    /\ create' = [create EXCEPT ![r].pc = "inserted", ![r].row = NewPayment]
    /\ UNCHANGED <<wire, worker, reply, faults, redeliveries>>

\* The key already has its row: the same request gets it back, another is refused.
FindExisting(r) ==
    /\ create[r].pc = "new"
    /\ \E s \in KeyOwners(r) :
         create' = [create EXCEPT ![r].row = payments[s],
                                  ![r].pc = IF FingerprintOf[s] = FingerprintOf[r]
                                            THEN "returned" ELSE "mismatch"]
    /\ UNCHANGED <<payments, wire, worker, reply, faults, redeliveries>>

\* createCheckout: MoMo and ZaloPay are called over HTTP, VNPay only signs a URL.
CallCheckout(r) ==
    /\ create[r].pc = "inserted"
    /\ CreatorGoes(r, "checkout")
    /\ wire' = IF ProviderOf[r] = "vnpay" THEN wire ELSE [wire EXCEPT ![r] = "inflight"]
    /\ UNCHANGED <<payments, worker, reply, faults, redeliveries>>

\* Mutant: an uncertain answer is taken for a rejection.
ChangeForFailure(answer) == IF answer = "url" THEN "attach" ELSE "reject"

ChangeFor(answer) == CASE answer = "url" -> "attach"
                       [] answer = "rejected" -> "reject"
                       [] OTHER -> "unknown"

\* The checkout call ends and its change is applied to the row inserted before it.
CheckoutEnds(r) ==
    /\ create[r].pc = "checkout"
    /\ \E answer \in CheckoutAnswers(ProviderOf[r], wire[r]) :
         create' = [create EXCEPT ![r] = Attempted(ChangeFor(answer), create[r].row, 0)]
    /\ UNCHANGED <<payments, wire, worker, reply, faults, redeliveries>>

SaveChange(r) ==
    /\ create[r].pc = "save"
    /\ VersionMatches(r, create[r].row)
    /\ Stored(r, create[r].row)
    /\ CreatorGoes(r, "returned")
    /\ UNCHANGED <<wire, worker, reply, faults, redeliveries>>

\* Mutant: a save that changed no row is taken for done.
SaveLostUnseen(r) ==
    /\ create[r].pc = "save"
    /\ ~VersionMatches(r, create[r].row)
    /\ CreatorGoes(r, "returned")
    /\ UNCHANGED <<payments, wire, worker, reply, faults, redeliveries>>

SaveLost(r) ==
    /\ create[r].pc = "save"
    /\ ~VersionMatches(r, create[r].row)
    /\ CreatorGoes(r, "reload")
    /\ UNCHANGED <<payments, wire, worker, reply, faults, redeliveries>>

\* The row is reloaded after every lost save, the last one included.
ReloadPayment(r) ==
    /\ create[r].pc = "reload"
    /\ create' = [create EXCEPT ![r] = Attempted(create[r].change, payments[r],
                                                 create[r].attempt + 1)]
    /\ UNCHANGED <<payments, wire, worker, reply, faults, redeliveries>>

-----------------------------------------------------------------------------
(* The providers                                                           *)

\* The order of an HTTP checkout call is created or refused, perhaps after its deadline.
ProviderAccepts(r) ==
    /\ wire[r] = "inflight"
    /\ wire' = [wire EXCEPT ![r] = "created"]
    /\ UNCHANGED <<payments, create, worker, reply, faults, redeliveries>>

ProviderRefuses(r) ==
    /\ wire[r] = "inflight"
    /\ wire' = [wire EXCEPT ![r] = "rejected"]
    /\ UNCHANGED <<payments, create, worker, reply, faults, redeliveries>>

\* VNPay first hears of the order when the buyer opens the stored URL.
BuyerOpensCheckout(r) ==
    /\ ProviderOf[r] = "vnpay"
    /\ wire[r] = "idle"
    /\ payments[r].url
    /\ wire' = [wire EXCEPT ![r] = "created"]
    /\ UNCHANGED <<payments, create, worker, reply, faults, redeliveries>>

-----------------------------------------------------------------------------
(* The notification handler                                                *)

WorkerPcs == {"idle", "load", "save"}

IdleWorker == [pc |-> "idle", msg |-> NoMessage, row |-> NoRow, attempt |-> 0]
Loading(m, attempt) == [pc |-> "load", msg |-> m, row |-> NoRow, attempt |-> attempt]

\* Mutant: what was not refused is acknowledged.
ResponseEager(result) ==
    IF result \in {"not_found", "amount_mismatch", "reference_mismatch", "invalid"}
    THEN "reject" ELSE "ack"

\* Mutant: a failure of the server is answered like a bad request.
ResponseWithoutRetry(result) ==
    IF result \in {"applied", "duplicate"} THEN "ack" ELSE "reject"

\* The callback controllers' answer to a result of the use case: acknowledged, to be
\* sent again, or refused without a retry.
Response(result) ==
    CASE result \in {"applied", "duplicate"} -> "ack"
      [] result \in {"state_conflict", "thrown"} -> "retry"
      [] result \in {"not_found", "amount_mismatch", "reference_mismatch", "invalid"} -> "reject"

\* An acknowledgement ends the provider's deliveries of m; other answers replace each other.
Answered(m, result) ==
    reply' = [reply EXCEPT ![m] = IF @ = "ack" THEN "ack" ELSE Response(result)]

\* Providers notify about orders they have; a message about an order of somebody
\* else, or one that fails verification, can arrive at any time.
Sendable(m) == \/ m.order = UnknownOrder
               \/ ~VerifyNotification(m)
               \/ m.order \in Requests /\ wire[m.order] = "created"

\* verifyNotification runs before anything is read.
Receive(h, m) ==
    IF VerifyNotification(m)
    THEN /\ worker' = [worker EXCEPT ![h] = Loading(m, 0)]
         /\ UNCHANGED reply
    ELSE /\ Answered(m, "invalid")
         /\ UNCHANGED worker

\* A notification with no answer yet, or told to come again, is delivered.
Deliver(h, m) ==
    /\ worker[h].pc = "idle"
    /\ Sendable(m)
    /\ reply[m] \in {"none", "retry"}
    /\ Receive(h, m)
    /\ UNCHANGED <<payments, create, wire, faults, redeliveries>>

\* One already answered for good is delivered once more.
Redeliver(h, m) ==
    /\ worker[h].pc = "idle"
    /\ redeliveries < MaxRedeliveries
    /\ reply[m] \in {"ack", "reject"}
    /\ Receive(h, m)
    /\ redeliveries' = redeliveries + 1
    /\ UNCHANGED <<payments, create, wire, faults>>

HandlerEnds(h, result) ==
    /\ worker' = [worker EXCEPT ![h] = IdleWorker]
    /\ Answered(worker[h].msg, result)

\* findPaymentByProviderOrderId finds no row.
OrderNotFound(h) ==
    /\ worker[h].pc = "load"
    /\ worker[h].msg.order = UnknownOrder
    /\ HandlerEnds(h, "not_found")
    /\ UNCHANGED <<payments, create, wire, faults, redeliveries>>

\* The row is loaded and the result applied to the copy, or the handler ends.
LoadPayment(h) ==
    LET m == worker[h].msg
        row == payments[m.order]
        verdict == Judge(row, m)
    IN  /\ worker[h].pc = "load"
        /\ m.order \in Requests
        /\ IF verdict = "apply"
           THEN /\ worker' = [worker EXCEPT ![h].pc = "save", ![h].row = Applied(row, m)]
                /\ UNCHANGED reply
           ELSE HandlerEnds(h, verdict)
        /\ UNCHANGED <<payments, create, wire, faults, redeliveries>>

SaveResult(h) ==
    LET r == worker[h].msg.order
        row == worker[h].row
    IN  /\ worker[h].pc = "save"
        /\ VersionMatches(r, row)
        /\ ~TransactionTaken(r, row)
        /\ Stored(r, row)
        /\ HandlerEnds(h, "applied")
        /\ UNCHANGED <<create, wire, faults, redeliveries>>

\* PaymentProviderTransactionConflictError
TransactionConflict(h) ==
    LET r == worker[h].msg.order
        row == worker[h].row
    IN  /\ worker[h].pc = "save"
        /\ VersionMatches(r, row)
        /\ TransactionTaken(r, row)
        /\ HandlerEnds(h, "state_conflict")
        /\ UNCHANGED <<payments, create, wire, faults, redeliveries>>

\* The save updates no row: load again, unless this was the last attempt.
ResultLost(h) ==
    /\ worker[h].pc = "save"
    /\ ~VersionMatches(worker[h].msg.order, worker[h].row)
    /\ IF worker[h].attempt + 1 < MaxSaveAttempts
       THEN /\ worker' = [worker EXCEPT ![h] = Loading(worker[h].msg, worker[h].attempt + 1)]
            /\ UNCHANGED reply
       ELSE HandlerEnds(h, "state_conflict")
    /\ UNCHANGED <<payments, create, wire, faults, redeliveries>>

-----------------------------------------------------------------------------
(* Faults                                                                  *)

Fault == /\ faults < MaxFaults
         /\ faults' = faults + 1

\* The process dies: every request and handler in it is gone, answers unsent.
Crash ==
    /\ Fault
    /\ create' = [r \in Requests |->
                    IF create[r].pc \in CreatorEnds \union {"new"} THEN create[r]
                    ELSE [create[r] EXCEPT !.pc = "error"]]
    /\ worker' = [h \in Handlers |-> IdleWorker]
    /\ UNCHANGED <<payments, wire, reply, redeliveries>>

\* A database call of the create request throws; its write may have landed.
CreateFails(r) ==
    /\ Fault
    /\ \/ /\ create[r].pc \in {"new", "save", "reload"}
          /\ UNCHANGED payments
       \/ /\ create[r].pc = "new"
          /\ KeyOwners(r) = {}
          /\ payments' = [payments EXCEPT ![r] = NewPayment]
       \/ /\ create[r].pc = "save"
          /\ VersionMatches(r, create[r].row)
          /\ Stored(r, create[r].row)
    /\ CreatorGoes(r, "error")
    /\ UNCHANGED <<wire, worker, reply, redeliveries>>

\* A database call of a handler throws; its write may have landed. The provider is
\* told, or concludes from no answer, to send again.
HandlerFails(h) ==
    /\ Fault
    /\ \/ /\ worker[h].pc \in {"load", "save"}
          /\ UNCHANGED payments
       \/ /\ worker[h].pc = "save"
          /\ VersionMatches(worker[h].msg.order, worker[h].row)
          /\ ~TransactionTaken(worker[h].msg.order, worker[h].row)
          /\ Stored(worker[h].msg.order, worker[h].row)
    /\ HandlerEnds(h, "thrown")
    /\ UNCHANGED <<create, wire, redeliveries>>

-----------------------------------------------------------------------------
Init ==
    /\ payments = [r \in Requests |-> NoRow]
    /\ create = [r \in Requests |-> NewCreator]
    /\ wire = [r \in Requests |-> "idle"]
    /\ worker = [h \in Handlers |-> IdleWorker]
    /\ reply = [m \in Notifications |-> "none"]
    /\ faults = 0
    /\ redeliveries = 0

\* A create request up to its answer.
Creator(r) == \/ InsertPayment(r) \/ FindExisting(r) \/ CallCheckout(r)
              \/ CheckoutEnds(r) \/ SaveChange(r) \/ SaveLost(r) \/ ReloadPayment(r)

\* A handler after delivery.
Handler(h) == \/ OrderNotFound(h) \/ LoadPayment(h) \/ SaveResult(h)
              \/ TransactionConflict(h) \/ ResultLost(h)

Provider(r) == ProviderAccepts(r) \/ ProviderRefuses(r) \/ BuyerOpensCheckout(r)

Next ==
    \/ \E r \in Requests : Creator(r) \/ Provider(r) \/ CreateFails(r)
    \/ \E h \in Handlers : Handler(h) \/ HandlerFails(h)
    \/ \E h \in Handlers, m \in Notifications : Deliver(h, m) \/ Redeliver(h, m)
    \/ Crash

Spec == Init /\ [][Next]_vars

\* Requests and handlers run to their end unless a fault stops them: every await is a
\* database call or a checkout call with a 35 s deadline. Providers keep delivering
\* what has not been acknowledged (the callback controller's answers rely on it).
Fairness ==
    /\ \A r \in Requests : WF_vars(Creator(r))
    /\ \A h \in Handlers : WF_vars(Handler(h))
    /\ \A m \in Notifications : SF_vars(\E h \in Handlers : Deliver(h, m))

FairSpec == Spec /\ Fairness

-----------------------------------------------------------------------------
(* Properties                                                              *)

CreatorState == [pc : CreatorPcs, change : Changes, row : Row, attempt : Nat]

\* A busy handler holds a notification; one about to save found its order.
WorkerState ==
    {w \in [pc : WorkerPcs, msg : Notifications \union {NoMessage}, row : Row, attempt : Nat] :
        /\ w.pc # "idle" => w.msg \in Notifications
        /\ w.pc = "save" => w.msg.order \in Requests}

\* The state's shape: what payment.types.ts and the payments table allow.
TypeOK ==
    /\ payments \in [Requests -> Row]
    /\ create \in [Requests -> CreatorState]
    /\ wire \in [Requests -> {"idle", "inflight", "created", "rejected"}]
    /\ worker \in [Handlers -> WorkerState]
    /\ reply \in [Notifications -> {"none", "ack", "retry", "reject"}]
    /\ faults \in 0 .. MaxFaults
    /\ redeliveries \in 0 .. MaxRedeliveries

Final(row) == row.status \in FinalOutcomes

\* What the payment could be settled with: verified, of its order, amount and request.
Genuine(m) == /\ m.order \in Requests
              /\ VerifyNotification(m)
              /\ m.amountOk
              /\ m.provider = "momo" => m.requestOk

\* A payment ends only with the result of a genuine notification about it; a stray,
\* forged or mismatched one leaves no trace (isVerifiedNotification, applyVerifiedOutcome).
SettledByGenuine ==
    \A r \in Requests : Final(payments[r]) =>
        \E m \in Notifications : m.order = r /\ Genuine(m) /\ SameResult(payments[r], m)

\* "Never acknowledge an unpersisted notification" (payment-callback.controller.ts): what a
\* provider was told is done is in the table, and stays there whatever runs later.
AckedIsRecorded ==
    \A m \in Notifications : reply[m] = "ack" =>
        /\ m.order \in Requests
        /\ LET row == payments[m.order]
           IN  IF Outcome(m) = "pending" THEN row.status = "pending" \/ Final(row)
               ELSE SameResult(row, m)

\* A request that came back without an exception leaves nothing of its change behind to be
\* done: its URL is stored, or the payment has left the status the change was for. A handler
\* that writes over the row may not undo it (changeAndSave, save).
ReturnedChangeHolds ==
    \A r \in Requests :
        create[r].pc = "returned" /\ create[r].change # "none"
            => ~Applies(create[r].change, payments[r])

\* One idempotency key pays once: at most one row, only that row has an order at a
\* provider, and only a request that asked for the same payment is answered with it.
OneCheckoutPerKey ==
    \A r, s \in Requests : KeyOf[r] = KeyOf[s] =>
        /\ r # s => "absent" \in {payments[r].status, payments[s].status}
        /\ wire[r] # "idle" => payments[r].status # "absent"
        /\ payments[s].status # "absent" /\ FingerprintOf[r] # FingerprintOf[s]
             => create[r].pc \notin {"returned", "checkout", "save"}

\* create_failed is definitive: the provider has no order of it, the buyer has no URL for
\* it, and no transaction is attached to it (toCheckoutError, markCreateFailed).
RejectedHasNoOrder ==
    \A r \in Requests : payments[r].status = "create_failed" =>
        /\ wire[r] = "rejected"
        /\ ~payments[r].url
        /\ payments[r].txn = NoTxn

\* A request that gives up with "changed concurrently" really lost MaxSaveAttempts races:
\* that many other writes are in the row (MAX_SAVE_ATTEMPTS).
ExhaustedNeedsContention ==
    \A r \in Requests : create[r].pc = "exhausted" => payments[r].version >= MaxSaveAttempts

\* A payment that ended keeps its status, transaction and code for ever
\* (classifyExistingPaymentNotification and the version check together).
FinalSticky ==
    [][\A r \in Requests : payments[r].status \in FinalOutcomes \union {"create_failed"} =>
           /\ payments'[r].status = payments[r].status
           /\ payments'[r].txn = payments[r].txn
           /\ payments'[r].code = payments[r].code]_vars

\* A stored URL is never taken back or written twice: the step that sets it is the only
\* one, and every write moves the version by one (save, attachCheckoutUrl).
UrlSetOnce ==
    [][\A r \in Requests :
           /\ payments[r].url => payments'[r].url
           /\ payments'[r] # payments[r] /\ payments[r].status # "absent"
                => payments'[r].version = payments[r].version + 1]_vars

\* What the module promises, and how its table means it.
LedgerEntry(row) ==
    [state |-> CASE row.status = "absent" -> "absent"
                 [] row.status = "create_failed" -> "rejected"
                 [] row.status \in FinalOutcomes -> "settled"
                 [] OTHER -> "open",
     offered |-> row.url,
     result |-> IF Final(row) THEN [outcome |-> row.status, txn |-> row.txn, code |-> row.code]
                ELSE [outcome |-> "none"]]

Ledger == INSTANCE PaymentLedger WITH
              Outcomes <- FinalOutcomes,
              ledger <- [r \in Requests |-> LedgerEntry(payments[r])]

\* The row table behind its version checks implements the abstract ledger.
ImplementsLedger == Ledger!LedgerSpec

\* A genuine final result of an order that exists is acknowledged in the end, unless the
\* payment already ended with another result or the transaction belongs to another order.
\* Crashes, lost answers and lost races only delay it.
FinalResultSettles ==
    \A m \in Notifications : Genuine(m) /\ Outcome(m) # "pending" =>
        (wire[m.order] = "created" ~>
            \/ reply[m] = "ack"
            \/ Final(payments[m.order]) /\ ~SameResult(payments[m.order], m)
            \/ TransactionTaken(m.order, Applied(payments[m.order], m)))
=============================================================================
