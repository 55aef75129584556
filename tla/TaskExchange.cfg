SPECIFICATION FairSpec
CONSTANTS
    t1 = t1
    t2 = t2
    s1 = s1
    s2 = s2
    w1 = w1
    w2 = w2
    Tasks = {t1, t2}
    Sessions = {s1, s2}
    Workers = {w1}
    Threads = {th1, th2}
    Faults <- const_Faults
    BodySize <- const_BodySize
    HeaderSize = 2
    Window = 2
    MaxLosses = 1
    None = None
INVARIANTS
    FramesAligned
    EveryOpHeldOnce
    StopKeepsOps
PROPERTY
    GoodTaskFinishes
CHECK_DEADLOCK FALSE
