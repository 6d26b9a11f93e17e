SPECIFICATION AnswersFairSpec
CHECK_DEADLOCK FALSE
CONSTANTS
    w1 = w1
    w2 = w2
    r1 = r1
    r2 = r2
    a1 = a1
    milk = milk
    bread = bread
    NoWorker = NoWorker
    NoContents = NoContents
    Workers = {w1, w2}
    Askers = {a1}
    Requests = {r1}
    Contents = {milk, bread}
    Attempts = 2
    MaxFaults = 3
    Sweeper = Sweeper
    MaxChannelAttempts = 2
    DueAt = 1
    MaxHour = 1
    MaxEvents = 0
INVARIANTS
    TypeOK
    ClaimIsExclusive
    AnnouncedOnce
PROPERTIES
    FinishedIsFinal
    EveryRequestIsAnswered
    EveryMessageSettles
