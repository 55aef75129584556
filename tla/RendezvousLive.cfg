SPECIFICATION FairSpec
CONSTANTS
    Dispatchers = {1}
    None = None
    Backlog = 1
    MayExit = TRUE
PROPERTIES
    StopReturns
    ServerStopReturns
    Registers
    EndedIsNotServed
CHECK_DEADLOCK FALSE
