SPECIFICATION FairSpec
CONSTANTS
    ada = ada
    lamp = lamp
    browser = browser
    prober = prober
    Unset = Unset
    Malformed = Malformed
    Calls = {ada}
    Invalid = {}
    UserOf <- MCUserOf
    UserStatus <- MCUserStatus
    ItemsOf <- MCItemsOf
    Products = {lamp}
    Missing = {}
    Catalogs <- MCCatalogs
    Listings = {}
    MaxInt = 8
    RetryAttempts = 1
    Flaky = {"charge"}
    Faults = {"disconnect", "db", "crash"}
    Readers <- MCReaders
    Queries <- MCQueries
    Settings = {0, 1, 2, Malformed}
CHECK_DEADLOCK FALSE
INVARIANTS
    TypeOK
    ReadsAreWhole
    ReadsFollowAnswers
PROPERTIES
    RefinesOrderService
    CleanExitsDropNothing
    TimeoutsHold
    HandlersEnd
