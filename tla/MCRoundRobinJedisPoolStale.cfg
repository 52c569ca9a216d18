\* The constructor's reset next to a listener's (expected to fail).
CONSTANTS
    a1 = a1
    a2 = a2
    a3 = a3
    Nodes = {1, 2}
    AddrsOf <- OneAddrEach
    Threads = {t1}
    Null = Null
    Offline = Offline
    MaxChanges = 2
    MaxPools = 5
    MaxTotal = 1
    Overlap = TRUE
SPECIFICATION FairSpec
PROPERTY DetectsProxies
