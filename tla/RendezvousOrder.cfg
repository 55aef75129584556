SPECIFICATION Spec
CONSTANTS
    Dispatchers <- const_Dispatchers
    None = None
    Backlog = 2
    MayExit = FALSE
INVARIANT
    NoBuildOnStoppedServer
PROPERTIES
    ServedViewNeverGoesBack
CHECK_DEADLOCK FALSE
