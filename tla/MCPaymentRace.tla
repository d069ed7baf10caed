----------------------------- MODULE MCPaymentRace -----------------------------
(* One MoMo payment whose URL save races two pending, a successful and a          *)
(* cancelled notification: enough other writers to lose every save attempt.  Four  *)
(* more claim a success: one is forged, one has another amount, one another      *)
(* request id and one an unknown order.                                            *)
EXTENDS Payment, TLC

CONSTANTS r1, h1, h2, t1, t2, nobody

MCRequests == {r1}
MCHandlers == {h1, h2}
MCCodes == {"0", "1000", "7000", "1006"}

MCResponseClass == [c \in MCCodes |->
    CASE c = "0" -> "ok" [] c = "1006" -> "cancelled" [] OTHER -> "other"]
MCTransactionClass == [c \in MCCodes |-> "other"]

Note(code, txn) ==
    [order |-> r1, provider |-> "momo", check |-> "ok", amountOk |-> TRUE,
     requestOk |-> TRUE, txn |-> txn, code |-> code]

Pending      == Note("1000", NoTxn)
OtherPending == Note("7000", t1)
Success      == Note("0", t1)
Cancelled    == Note("1006", NoTxn)

Claim        == Note("0", t2)
Forged       == [Claim EXCEPT !.check = "invalid_signature"]
OtherAmount  == [Claim EXCEPT !.amountOk = FALSE]
OtherRequest == [Claim EXCEPT !.requestOk = FALSE]
OtherOrder   == [Claim EXCEPT !.order = nobody]

RaceNotifications == {Pending, OtherPending, Success, Cancelled,
                      Forged, OtherAmount, OtherRequest, OtherOrder}

MCKeyOf == [r \in MCRequests |-> "k1"]
MCFingerprintOf == [r \in MCRequests |-> "f1"]
MCProviderOf == [r \in MCRequests |-> "momo"]
Symmetry == Permutations(MCHandlers)
=============================================================================
