SPECIFICATION FairSpec
CONSTANTS
    Networks = {n1}
    Identities = {i1, i2}
    Contents = {c1, c2}
    Addrs = {a1}
    Listens = TRUE
    None = None
    Blank = Blank
INVARIANTS
    IdentityKept
    JoinedSurvivesRestart
    AddressesAsAnnounced
PROPERTIES
    StatusIsTold
CHECK_DEADLOCK FALSE
