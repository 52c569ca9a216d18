\* Resets one after the other, three changes.
CONSTANTS
    a1 = a1
    a2 = a2
    a3 = a3
    Nodes = {1, 2}
    AddrsOf <- OneAddrEach
    Threads = {t1}
    Null = Null
    Offline = Offline
    MaxChanges = 3
    MaxPools = 5
    MaxTotal = 1
    Overlap = FALSE
SPECIFICATION FairSpec
INVARIANTS
    PublishedOpen
    PoolsAccounted
PROPERTIES
    DetectsProxies
    CloseIsComplete
