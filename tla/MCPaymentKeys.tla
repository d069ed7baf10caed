----------------------------- MODULE MCPaymentKeys -----------------------------
(* Requests that share an idempotency key, and one of another key whose          *)
(* provider reports the same transaction: ZaloPay with its rejections, and VNPay  *)
(* with its locally built URL.                                                   *)
EXTENDS Payment

CONSTANTS a1, a2, b, c, t1, h1, nobody

MCRequests == {a1, a2, b, c}
MCHandlers == {h1}

\* a1 and a2 are the same request sent twice, b reuses their key for VNPay, c is another
\* payment of the same provider as a1.
MCKeyOf == [r \in MCRequests |-> IF r = c THEN "k2" ELSE "k1"]
MCFingerprintOf == [r \in MCRequests |->
    CASE r \in {a1, a2} -> "fa" [] r = b -> "fb" [] OTHER -> "fc"]
MCProviderOf == [r \in MCRequests |-> IF r = b THEN "vnpay" ELSE "zalopay"]

MCCodes == {"1", "00:00", "24:02"}
MCResponseClass == [k \in MCCodes |-> IF k = "24:02" THEN "cancelled" ELSE "ok"]
MCTransactionClass == [k \in MCCodes |-> IF k = "24:02" THEN "failed" ELSE "ok"]

Note(order, provider, check, code, txn) ==
    [order |-> order, provider |-> provider, check |-> check, amountOk |-> TRUE,
     requestOk |-> TRUE, txn |-> txn, code |-> code]

MCNotifications == {
    Note(a1, "zalopay", "ok", "1", t1),
    Note(c, "zalopay", "ok", "1", t1),
    Note(b, "vnpay", "ok", "00:00", t1)}
=============================================================================
