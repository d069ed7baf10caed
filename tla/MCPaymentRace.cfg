CONSTANTS
    r1 = r1
    h1 = h1
    h2 = h2
    t1 = t1
    t2 = t2
    nobody = nobody
    Requests <- MCRequests
    KeyOf <- MCKeyOf
    FingerprintOf <- MCFingerprintOf
    ProviderOf <- MCProviderOf
    Notifications <- RaceNotifications
    UnknownOrder = nobody
    Handlers <- MCHandlers
    NoMessage = NoMessage
    Codes <- MCCodes
    ResponseClass <- MCResponseClass
    TransactionClass <- MCTransactionClass
    ZalopayCode = "0"
    Txns = {t1, t2}
    NoTxn = NoTxn
    NoCode = "null"
    RejectCode = "2:-92"
    MaxSaveAttempts = 3
    MaxFaults = 0
    MaxRedeliveries = 0
SYMMETRY Symmetry
SPECIFICATION Spec
INVARIANTS
    AckedIsRecorded
    ReturnedChangeHolds
    SettledByGenuine
CHECK_DEADLOCK FALSE
