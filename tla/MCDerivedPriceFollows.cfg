SPECIFICATION FairSpec
CHECK_DEADLOCK FALSE
CONSTANTS
    w1 = w1
    w2 = w2
    r1 = r1
    r2 = r2
    Workers = {w1}
    NoWorker = NoWorker
    Attempts = 2
    Readers = {}
    Prices = {1, 2}
    MaxArrivals = 2
    MaxAgeing = 0
    MaxFaults = 0
PROPERTIES
    PriceFollowsObservations
