SPECIFICATION Spec
CONSTANTS
    Sessions = {s1, s2}
    Tasks = {t1}
    Producers = {p1}
    Maintenance = maint
    Stopper = stopper
    NoTask = NoTask
    MaxBatch = 1
    HistoryCap = 1
SYMMETRY Symmetry
INVARIANTS
    NoDanglingHandle
    NoTaskRefused
PROPERTY ImplementsQueue
