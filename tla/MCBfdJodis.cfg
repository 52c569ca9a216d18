\* Two proxies, two threads, one failure for two instances in each pool.
CONSTANTS
    a1 = a1
    a2 = a2
    a3 = a3
    Nodes = {1, 2}
    AddrsOf <- OneAddrEach
    Threads = {t1, t2}
    Null = Null
    Offline = Offline
    MaxChanges = 1
    MaxPools = 4
    MaxTotal = 2
    MaxFaults = 1
    Overlap = TRUE
SPECIFICATION JodisSpec
SYMMETRY Symmetry
INVARIANTS
    PickInRange
    CallsTypeOK
    RetryElsewhere
    HeldIsBorrowed
PROPERTY RoundRobin
