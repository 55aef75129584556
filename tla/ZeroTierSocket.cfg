SPECIFICATION FairSpec
CONSTANTS
    None = None
    Server = server
    Runtime = runtime
    client = client
    reporter = reporter
    Owners <- const_Owners
    Clients <- const_Clients
    Persistent = {reporter}
    Accepted = {k1}
    MaxFd = 4
INVARIANTS
    LeaseKeepsNetwork
    ClientsNeverWait
PROPERTIES
    StopLeavesNetwork
CHECK_DEADLOCK FALSE
