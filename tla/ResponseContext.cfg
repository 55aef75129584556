SPECIFICATION FairSpec
CONSTANTS
    Handles = {h1, h2, h3}
    Workers = {w1, w2, w3}
    NoHandle = NoHandle
    h1 = h1
    h2 = h2
    h3 = h3
    w1 = w1
    w2 = w2
    w3 = w3
INVARIANTS
    NoLostNotify
    StopDrains
