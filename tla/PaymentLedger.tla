---------------------------- MODULE PaymentLedger ----------------------------
(***************************************************************************)
(* What the payment module promises to the rest of the system, with no     *)
(* processes, copies or versions: a payment is opened at most once per      *)
(* idempotency key, its checkout page is offered at most once, and it ends  *)
(* at most once, either rejected by the provider before any page existed or *)
(* settled with one provider result that never changes afterwards.          *)
(***************************************************************************)
CONSTANTS
    Requests,       \* payment ids, one per create request
    KeyOf,          \* [Requests -> idempotency scope], user and key together
    ProviderOf,     \* [Requests -> provider]
    Outcomes,       \* the final outcomes
    Txns,           \* provider transaction ids
    NoTxn,          \* no transaction id
    Codes           \* provider result codes

VARIABLE ledger     \* [Requests -> Entry]

Result == [outcome : Outcomes, txn : Txns \union {NoTxn}, code : Codes]

\* What a payment that has not been settled carries in place of a result.
NoResult == [outcome |-> "none"]

Entry == [state : {"absent", "open", "rejected", "settled"},
          offered : BOOLEAN,
          result : Result \union {NoResult}]

Absent == [state |-> "absent", offered |-> FALSE, result |-> NoResult]

LedgerInit == ledger = [r \in Requests |-> Absent]

-----------------------------------------------------------------------------
\* The first create request of a key opens the payment.
OpenPayment(r) ==
    /\ \A s \in Requests : KeyOf[s] = KeyOf[r] => ledger[s].state = "absent"
    /\ ledger' = [ledger EXCEPT ![r] = [state |-> "open", offered |-> FALSE,
                                        result |-> NoResult]]

\* The checkout page is published; a callback may have settled the payment before.
OfferCheckout(r) ==
    /\ ledger[r].state \in {"open", "settled"}
    /\ ~ledger[r].offered
    /\ ledger' = [ledger EXCEPT ![r] = [state |-> ledger[r].state, offered |-> TRUE,
                                        result |-> ledger[r].result]]

\* The provider refused to create the order.
RejectPayment(r) ==
    /\ ledger[r].state = "open"
    /\ ~ledger[r].offered
    /\ ledger' = [ledger EXCEPT ![r] = [state |-> "rejected", offered |-> FALSE,
                                        result |-> NoResult]]

\* The provider's result is stored; its transaction settles no other payment.
SettlePayment(r, res) ==
    /\ ledger[r].state = "open"
    /\ res.txn # NoTxn =>
         \A s \in Requests \ {r} :
            ProviderOf[s] = ProviderOf[r] /\ ledger[s].state = "settled"
              => ledger[s].result.txn # res.txn
    /\ ledger' = [ledger EXCEPT ![r] = [state |-> "settled", offered |-> ledger[r].offered,
                                        result |-> res]]

LedgerNext ==
    \E r \in Requests :
        \/ OpenPayment(r)
        \/ OfferCheckout(r)
        \/ RejectPayment(r)
        \/ \E res \in Result : SettlePayment(r, res)

LedgerSpec == LedgerInit /\ [][LedgerNext]_ledger
=============================================================================
