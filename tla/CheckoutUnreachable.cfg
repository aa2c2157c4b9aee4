SPECIFICATION Spec
CONSTANTS
    ada = ada
    eve = eve
    noUser = noUser
    garbled = garbled
    lamp = lamp
    NoHeader = NoHeader
    Calls <- OneCall
    Invalid <- MCInvalid
    UserOf <- MCUserOf
    UserStatus <- MCUserStatus
    ItemsOf <- MCItemsOf
    Products <- MCProducts
    Missing = {}
    Catalogs <- MCCatalogs
    Listings = {}
    MaxInt = 8
    RetryAttempts = 1
    Flaky = {"charge"}
    OrderFaults = {}
    TooExpensive <- MCDeclined
    Live = {}
    GatewayRetries = 0
    PaymentFaults = {}
CHECK_DEADLOCK FALSE
INVARIANTS
    UnreachablePaymentsAreReported
