SPECIFICATION Spec
CONSTANTS
    ada = ada
    noItem = noItem
    lamp = lamp
    desk = desk
    ghost = ghost
    Calls <- OrderAndNoItem
    Invalid = {}
    UserOf <- MCUserOf
    UserStatus <- MCUserStatus
    ItemsOf <- MCItemsOf
    Products <- MCProducts
    Missing <- MCMissing
    Catalogs <- MCCatalogs
    Listings <- MCListings
    MaxInt <- MCMaxInt
    RetryAttempts = 1
    Flaky = {"verify", "product", "charge"}
    Faults = {"disconnect", "db", "crash"}
CHECK_DEADLOCK FALSE
INVARIANTS
    OrdersAreComplete
    RetriedAnswersLeaveNoOrder
    AnswersNeverContradictTable
