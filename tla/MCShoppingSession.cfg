SPECIFICATION FairSpec
CONSTANTS
    i1 = i1
    c1 = c1
    c2 = c2
    w1 = w1
    p1 = p1
    NoPrice = NoPrice
    Keep = Keep
    MaxAttempts = 2
    StartedAt = 1
    Skew = 0
    MaxClock = 2
    Reported = {}
    Items = {i1}
    Changers = {c1, c2}
    Writers = {w1}
    Prices = {p1}
INVARIANTS
    TypeOK
    CompletionIsFinal
    ReplaysAreTrue
PROPERTIES
    KeepsPromise
    EveryChangeIsAnswered
    CompletionIsAnnounced
