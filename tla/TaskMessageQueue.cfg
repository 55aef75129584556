SPECIFICATION FairSpec
CONSTANTS
    Sessions = {s1, s2}
    Tasks = {t1, t2}
    Producers = {p1, p2}
    Maintenance = maint
    Stopper = stopper
    NoTask = NoTask
    MaxBatch = 2
INVARIANTS
    NoTaskLost
    NeverBothWait
    HandleResumedOnce
PROPERTIES
    ImplementsPool
    ShutdownWakesLive
    QueuedTaskIsTaken
