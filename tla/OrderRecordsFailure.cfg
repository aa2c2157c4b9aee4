SPECIFICATION Spec
CONSTANTS
    ada = ada
    noItem = noItem
    lamp = lamp
    desk = desk
    ghost = ghost
    Calls <- OneOrder
    Invalid = {}
    UserOf <- MCUserOf
    UserStatus <- MCUserStatus
    ItemsOf <- MCItemsOf
    Products <- MCProducts
    Missing <- MCMissing
    Catalogs <- MCCatalogs
    Listings <- MCListings
    MaxInt <- MCMaxInt
    RetryAttempts = 1
    Flaky = {"charge"}
    Faults = {"disconnect"}
CHECK_DEADLOCK FALSE
INVARIANTS
    FailedChargesAreRecorded
