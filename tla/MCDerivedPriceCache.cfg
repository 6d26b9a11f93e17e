SPECIFICATION Spec
CHECK_DEADLOCK FALSE
CONSTANTS
    w1 = w1
    w2 = w2
    r1 = r1
    r2 = r2
    Workers = {w1, w2}
    NoWorker = NoWorker
    Attempts = 2
    Readers = {r1}
    Prices = {1}
    MaxArrivals = 2
    MaxAgeing = 0
    MaxFaults = 2
SYMMETRY Symmetry
INVARIANTS
    CacheIsCurrent
