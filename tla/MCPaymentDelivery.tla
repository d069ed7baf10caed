--------------------------- MODULE MCPaymentDelivery ---------------------------
(* Termination and delivery of a MoMo payment with contradicting results, under    *)
(* crashes, failed database calls and a redelivery.                               *)
EXTENDS Payment

CONSTANTS r1, h1, h2, t1, nobody

MCRequests == {r1}
MCHandlers == {h1, h2}
MCKeyOf == [r \in MCRequests |-> "k1"]
MCFingerprintOf == [r \in MCRequests |-> "f1"]
MCProviderOf == [r \in MCRequests |-> "momo"]

MCCodes == {"0", "1000", "1006"}
MCResponseClass == [c \in MCCodes |->
    CASE c = "0" -> "ok" [] c = "1006" -> "cancelled" [] OTHER -> "other"]
MCTransactionClass == [c \in MCCodes |-> "other"]

Note(code, txn) ==
    [order |-> r1, provider |-> "momo", check |-> "ok", amountOk |-> TRUE,
     requestOk |-> TRUE, txn |-> txn, code |-> code]

DeliveryNotifications == {
    Note("1000", NoTxn),
    Note("0", t1),
    Note("1006", NoTxn)}
=============================================================================
