SPECIFICATION Spec
CHECK_DEADLOCK FALSE
SYMMETRY Symmetry
CONSTANTS
    a = a
    b = b
    x = x
    y = y
    \* BullJob
    Workers = {a, b}
    NoWorker = NoWorker
    Attempts = 2
    \* PriceAlerts
    Absent = Absent
    DayHours = 4
    Quarters = 2
    AlertPrices = {8, 9}
    Elsewhere = 11
    Threshold = 10
    DropPercent = 10
    Radius = 1
    MinMinutes = 1
    MaxMinute = 1
    MaxMoves = 3
    MaxEdits = 1
    \* PriceIngestion
    Reports = {a, b}
    Feeds = {f1, f2}
    Users = {x, y}
    None = None
    SomePrices = {2, 7}
    MaxTarget = 1
    Retention = 0
    MaxToday = 1
    MaxRows = 3
    MaxPrice = 100
    MaxSkew = 0
    ShelfAge = 1
    PurchaseAge = 1
    NewAccountAge = 1
    SoftAccount = 9
    SoftTarget = 9
    SoftProduct = 9
    SoftStore = 9
    RepeatedDeviations = 9
    StoreSamples = 1
    AnySamples = 1
    \* DailyPrices
    DayLength = 1
    LastDay = 3
    Reporting <- Sightings
    HalfLife = 1
    Kept = 1
    MaxSightings = 2
    MaxMishaps = 1
    \* PlanSearch
    Shops = {1, 2, 3}
    Goods = {x, y}
    Wanted = 2
    UnitPrices = {0, 300, 900}
    Streets <- Corners
    ShopLimits = {1, 2}
    KmLimits = {1, 9}
    MinuteLimits = {20}
    SavingLimits = {0, 400}
    Exclusions = {{}, {2}}
    MaxCandidates = 12
    HardShopLimit = 4
INVARIANTS
    TypeOK
    SpeaksOnlyWithNews
    HeldUntilQuietEnds
    HardLimitHolds
    AnswersAreTheCallers
    ConfirmationsLast
    DayIsTrue
    NothingBetter
