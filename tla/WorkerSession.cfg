SPECIFICATION FairSpec
CONSTANTS
    Modes = {"off", "on", "misconfigured"}
    Endpoints = {e1, e2}
    Configured = c
    MaxPresses = 2
    MaxMoves = 1
    e1 = e1
    e2 = e2
    c = c
INVARIANTS
    HeldUntilStart
PROPERTIES
    ShutdownInterrupts
    LossIsRepaired
