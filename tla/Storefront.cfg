SPECIFICATION Spec
CONSTANTS
    ada = ada
    guest = guest
    early = early
    scribble = scribble
    lamp = lamp
    Clicks = {ada, guest, early, scribble}
    Garbled = {scribble}
    Signed = {ada}
    Secretless = {early}
    RateLimit = 1
    GatewayRetries = 1
    ClickInvalid = {}
    ClickUser <- MCUser
    ClickItems <- MCItems
    UserStatus <- MCUserStatus
    Products = {lamp}
    Missing = {}
    Catalogs <- MCCatalogs
    Listings <- MCListings
    MaxInt = 8
    RetryAttempts = 2
    Flaky = {"verify", "charge"}
    Faults = {"disconnect", "db", "crash"}
CHECK_DEADLOCK FALSE
INVARIANTS
    OnlyLostAnswersDuplicate
    AnswersAgreeWithOrders
