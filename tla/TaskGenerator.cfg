SPECIFICATION FairSpec
CONSTANTS
    Coros = {c1, c2, c3}
    Workers = {w1}
    NoHandle = NoHandle
    c1 = c1
    c2 = c2
    c3 = c3
    w1 = w1
    LowThreshold = 1
    RefillAmount = 1
    MaxAnswer = 2
    MaxSessions = 1
    IdLimit = 3
INVARIANTS
    BoundedBacklog
PROPERTIES
    ResponseArrives
    ShutdownEnds
