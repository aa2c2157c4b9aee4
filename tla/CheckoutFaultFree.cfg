SPECIFICATION FairSpec
CONSTANTS
    ada = ada
    eve = eve
    noUser = noUser
    garbled = garbled
    lamp = lamp
    NoHeader = NoHeader
    Calls <- MixedCalls
    Invalid <- MCInvalid
    UserOf <- MCUserOf
    UserStatus <- MCUserStatus
    ItemsOf <- MCItemsOf
    Products <- MCProducts
    Missing = {}
    Catalogs <- MCCatalogs
    Listings <- MCListings
    MaxInt = 8
    RetryAttempts = 1
    Flaky = {}
    OrderFaults = {}
    TooExpensive <- MCDeclined
    Live = {}
    GatewayRetries = 0
    PaymentFaults = {}
CHECK_DEADLOCK FALSE
INVARIANTS
    BooksAgree
PROPERTIES
    OrdersSettle
