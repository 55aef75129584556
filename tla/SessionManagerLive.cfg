SPECIFICATION FairSpec
CONSTANTS
    Sessions = {s1}
    Tasks = {t1, t2}
    Producers = {p1}
    Maintenance = maint
    Stopper = stopper
    NoTask = NoTask
    MaxBatch = 2
    HistoryCap = 1
PROPERTIES
    DeadWaiterLeavesQueue
    
    StopReturns
