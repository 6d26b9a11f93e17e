SPECIFICATION FairSpec
CHECK_DEADLOCK FALSE
CONSTANTS
    w1 = w1
    w2 = w2
    NoWorker = NoWorker
    Workers = {w1, w2}
    Attempts = 2
    LineCount = 2
    MaxFaults = 2
INVARIANTS
    LedgerIsTrue
    AnnouncedOnce
PROPERTIES
    EveryTripContributes
