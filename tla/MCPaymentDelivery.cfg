CONSTANTS
    r1 = r1
    h1 = h1
    h2 = h2
    t1 = t1
    nobody = nobody
    Requests <- MCRequests
    KeyOf <- MCKeyOf
    FingerprintOf <- MCFingerprintOf
    ProviderOf <- MCProviderOf
    Notifications <- DeliveryNotifications
    UnknownOrder = nobody
    Handlers = {h1, h2}
    NoMessage = NoMessage
    Codes <- MCCodes
    ResponseClass <- MCResponseClass
    TransactionClass <- MCTransactionClass
    ZalopayCode = "0"
    Txns = {t1}
    NoTxn = NoTxn
    NoCode = "null"
    RejectCode = "2:-92"
    MaxSaveAttempts = 3
    MaxFaults = 1
    MaxRedeliveries = 1
SPECIFICATION FairSpec
PROPERTY FinalResultSettles
CHECK_DEADLOCK FALSE
