SPECIFICATION FairSpec
CHECK_DEADLOCK FALSE
CONSTANTS
    w1 = w1
    w2 = w2
    r1 = r1
    r2 = r2
    Workers = {w1}
    NoWorker = NoWorker
    Attempts = 2
    Readers = {}
    Prices = {1, 2, 3}
    MaxArrivals = 4
    MaxAgeing = 1
    MaxFaults = 1
INVARIANTS
    RecordsAgree
PROPERTIES
    WaitingPriceIsShown
