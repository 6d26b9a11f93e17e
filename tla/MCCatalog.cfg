SPECIFICATION Spec
CHECK_DEADLOCK FALSE
SYMMETRY Symmetry
CONSTANTS
    q1 = q1
    q2 = q2
    x = x
    y = y
    p1 = p1
    p2 = p2
    ana = ana
    old = old
    c1 = c1
    b1 = b1
    \* Community
    Products = {x, y}
    Shop = Shop
    Shoppers = {ana, p1, p2}
    Creator = ana
    Newcomers = {}
    Callers = {q1, q2}
    Nobody = Nobody
    Needed = 2
    HideThreshold = 2
    DailyFlagLimit = 2
    SignalCap = 20
    MaxRequests = 3
    MaxDeaths = 1
    \* Catalog
    Additions = {q1, q2}
    Ids = {q1, q2, old}
    Adders = {ana}
    Team = Team
    Codes = {c1}
    Brands = {b1}
    NoBrand = NoBrand
    Nowhere = Nowhere
    Sizes = {0, 1}
    CarefulLimit = 1
    ProductLimit = 2
    MaxCorrections = 1
    \* Shops
    Branches = {q1, q2, old}
    Openings = {q1, q2}
    Founders = {p1, p2}
    Curators = Curators
    Chains = {x, y}
    Spots = {1, 2, 3}
    SameStore = 1
    CarefulStores = 1
    StoreLimit = 1
    MaxVerdicts = 1
    \* ShoppingList
    Requests = {q1, q2}
    ItemIds = {x, y}
    TripIds = {t1}
    NoId = NoId
    MaxItems = 2
    MaxTrips = 3
    MaxTurns = 4
    \* NearbyStores
    s1 = s1
    s2 = s2
    s3 = s3
    g1 = g1
    g2 = g2
    Places = {s1, s2, s3}
    Offers = {g1, g2}
    OverFetch = 2
    NearbyCandidates = 3
    DropCandidates = 2
    DropWindow = 1
    MinDropPercent = 3
    MinutesPerDay = 3
    DaysPerWeek = 3
    \* PriceHistory
    Outlets = {s1, s2}
    Monies = {1, 2}
    RangeDays = 1
    MaxPoints = 3
    Today = 2
    Unnamed = Unnamed
    \* Totals
    Lines = {x, y}
    Quantities = {500, 1333}
    Paid = {0, 3}
    Unpriced = Unpriced
    Left = Left
    \* Accounts
    People = {old, ben}
    Members = {old}
    Errands = {q1, q2}
    Emails = {x, y}
    NoEmail = NoEmail
    Tickets = {p1, p2, t1}
    NoTicket = NoTicket
    CodeLimit = 1
    MaxGuesses = 1
    MaxErrands = 4
    \* Settings
    Changes = {q1, q2}
    MaxMoment = 4
    \* CategoryTree
    Slugs = {c1, b1, old}
    Top = Top
    Goods = {g1}
    Clerks = {k1}
    Taxonomies <- Files
    MaxDeploys = 1
    \* ProductFacts
    Scans = {q1, q2}
    Scanned = {x}
    MaxPerMinute = 2
    Minute = 1
    MaxTicks = 3
    \* SourceFeed
    Pages = {1, 2, 3}
    FirstPage = 1
    NoNext = 0
    MaxPages = 3
    FeedItems <- SomeItems
    Absent = Absent
    DefaultCurrency = ARS
    InMajorUnits = FALSE
    MaxPublished = 1
INVARIANTS
    TypeOK
    StandingIsTrue
    TenthPricePublishes
    OnlyRacesGetPast
    OneOpenTrip
    AnswersAreTrue
PROPERTIES
    CodesStay
