SPECIFICATION ExecutionsSpec
CHECK_DEADLOCK FALSE
SYMMETRY Symmetry
CONSTANTS
    \* BullJob
    Workers = {w1}
    NoWorker = NoWorker
    Attempts = 2
    \* SourceImport
    Operator = Operator
    Externals = {milk}
    Catalog = {p1, p2}
    NoProduct = NoProduct
    MaxDay = 1
    MaxHappenings = 2
    \* NotificationDelivery
    Sweeper = Sweeper
    MaxChannelAttempts = 2
    DueAt = 0
    MaxHour = 0
    MaxEvents = 1
    \* ShoppingSession
    NoPrice = NoPrice
    Keep = Keep
    MaxAttempts = 3
    StartedAt = 2
    Skew = 1
    MaxClock = 3
    Reported = {1, 3, 4}
    Items = {i1}
    Changers = {}
    Writers = {r1, r2}
    Prices = {}
INVARIANTS
    ExecutionsTypeOK
    OneRunnerPerRun
    RunsTellTheTruth
    DecisionsOutlastImports
    ConsentHolds
    CopiesAreBounded
    MomentsAreSane
