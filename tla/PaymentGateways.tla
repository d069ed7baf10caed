--------------------------- MODULE PaymentGateways ---------------------------
(***************************************************************************)
(* The three payment gateway adapters as pure operators: which answer a     *)
(* checkout call can give the use case, which notifications pass            *)
(* verifyNotification, and which outcome a provider's result code means.    *)
(* A result code is a member of Codes; ResponseClass and TransactionClass   *)
(* say which of the adapters' code tables it falls into.                    *)
(***************************************************************************)
CONSTANTS
    Codes,              \* result codes, as stored in providerResultCode
    ResponseClass,      \* [Codes -> Classes], vnp_ResponseCode or MoMo's resultCode
    TransactionClass,   \* [Codes -> Classes], vnp_TransactionStatus
    ZalopayCode,        \* the code stored for every ZaloPay success
    Txns,               \* provider transaction ids
    NoTxn               \* a null, blank or '0' transaction id after normalisation

Providers == {"vnpay", "momo", "zalopay"}
Classes   == {"ok", "processing", "cancelled", "failed", "other"}
Checks    == {"ok", "invalid_signature", "merchant_mismatch", "invalid_payload"}

ASSUME GatewayAssumption ==
    /\ ResponseClass \in [Codes -> Classes]
    /\ TransactionClass \in [Codes -> Classes]
    /\ ZalopayCode \in Codes
    /\ NoTxn \notin Txns

FinalOutcomes == {"succeeded", "failed", "cancelled"}
Outcomes      == FinalOutcomes \union {"pending"}

\* VNPay: the codes are read in the order of the adapter's early returns.
VnpayOutcome(code) ==
    LET response == ResponseClass[code]
        transaction == TransactionClass[code]
    IN  IF response = "ok" /\ transaction = "ok" THEN "succeeded"
        ELSE IF transaction = "processing" THEN "pending"
        ELSE IF response = "cancelled" THEN "cancelled"
        ELSE IF transaction = "failed" \/ response = "failed" THEN "failed"
        ELSE "pending"

\* MoMo: 0 and 9000 succeed, two tables end the payment, anything else is pending.
MomoOutcome(code) ==
    CASE ResponseClass[code] = "ok" -> "succeeded"
      [] ResponseClass[code] = "cancelled" -> "cancelled"
      [] ResponseClass[code] = "failed" -> "failed"
      [] OTHER -> "pending"

OutcomeOf(provider, code) ==
    CASE provider = "vnpay" -> VnpayOutcome(code)
      [] provider = "momo" -> MomoOutcome(code)
      [] OTHER -> "succeeded"

\* ZaloPay sends only successful order callbacks, always with a transaction id.
VerifyNotification(m) ==
    /\ m.check = "ok"
    /\ m.provider = "zalopay" => m.txn # NoTxn /\ m.code = ZalopayCode

-----------------------------------------------------------------------------
\* The classifications createCheckout can hand back, given what the provider did
\* with the request. VNPay builds its URL locally; MoMo's SDK hides the reason of
\* a refusal; only ZaloPay's FAIL is definitive. Deadline, network failure, an
\* invalid URL or an unexpected answer leave the call uncertain at any time.
CheckoutAnswers(provider, order) ==
    {"uncertain"}
      \union (IF provider = "vnpay" \/ order = "created" THEN {"url"} ELSE {})
      \union (IF provider = "zalopay" /\ order = "rejected" THEN {"rejected"} ELSE {})
=============================================================================
