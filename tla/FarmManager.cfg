SPECIFICATION FairSpec
CONSTANTS
    Own = {s1}
    Foreign = {f1}
    Requests = {r1, r2}
    MaxWorkers = 1
    NoSlot = NoSlot
INVARIANTS
    NoStaleTrace
    LiveWorkerKnown
PROPERTY
    StopTakesEffect
