CONSTANTS
    a1 = a1
    a2 = a2
    b = b
    c = c
    h1 = h1
    t1 = t1
    nobody = nobody
    Requests <- MCRequests
    KeyOf <- MCKeyOf
    FingerprintOf <- MCFingerprintOf
    ProviderOf <- MCProviderOf
    Notifications <- MCNotifications
    UnknownOrder = nobody
    Handlers <- MCHandlers
    NoMessage = NoMessage
    Codes <- MCCodes
    ResponseClass <- MCResponseClass
    TransactionClass <- MCTransactionClass
    ZalopayCode = "1"
    Txns = {t1}
    NoTxn = NoTxn
    NoCode = "null"
    RejectCode = "2:-92"
    MaxSaveAttempts = 3
    MaxFaults = 1
    MaxRedeliveries = 0
SPECIFICATION Spec
INVARIANTS
    OneCheckoutPerKey
    RejectedHasNoOrder
PROPERTIES
    ImplementsLedger
CHECK_DEADLOCK FALSE
