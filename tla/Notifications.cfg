SPECIFICATION FairSpec
CONSTANTS
    welcome = welcome
    receipt = receipt
    text = text
    partial = partial
    misspelt = misspelt
    Requests = {welcome, receipt, text, partial, misspelt}
    Incomplete = {partial}
    Unknown = {misspelt}
    Channel <- MCChannel
    Bounces = {receipt}
    RetryAttempts = 1
    Faults = {"provider", "db", "crash"}
CHECK_DEADLOCK FALSE
INVARIANTS
    TypeOK
    MailIsRecorded
    StatusTellsTheTruth
    AnswersAgreeWithCollection
PROPERTIES
    PendingSettles
