SPECIFICATION FairSpec
CONSTANTS
    ann = ann
    device = device
    Clicks = {ann, device}
    RateLimit = 1
    RetryAttempts = 1
    ClickOp <- MCOp
    ClickEmail <- MCEmail
    ClickPassword <- MCPassword
    ClickInvalid = {}
    ClickUnreadable = {}
    ClickTooLong = {}
    NoAccount = NoAccount
    Suspensions = TRUE
    Faults = {"db", "crash"}
CHECK_DEADLOCK FALSE
INVARIANTS
    TypeOK
    OneAccountPerEmail
    TokensNameStoredAccounts
    ConflictsAreReal
PROPERTIES
    EveryClickIsAnswered
