SPECIFICATION FairSpec
CONSTANTS
    r1 = r1
    r2 = r2
    r3 = r3
    r4 = r4
    k1 = k1
    NoHeader = NoHeader
    Requests = {r1, r2, r3, r4}
    Keys = {k1}
    Header <- MCHeader
    OrderId <- MCOrderId
    BadModel = {r4}
    Malformed = {}
    Declines = {r3}
    Live = {r1}
    RetryAttempts = 2
    Faults = {"hangup", "db", "crash"}
CHECK_DEADLOCK FALSE
INVARIANTS
    TypeOK
    NoDoubleCharge
    CapturesAreBooked
    AnswersAgreeWithBooks
PROPERTIES
    ChargesOnce
    EveryRequestEnds
    RowsSettle
