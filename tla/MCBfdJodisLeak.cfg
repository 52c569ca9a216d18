\* A command that throws (expected to fail).
CONSTANTS
    a1 = a1
    a2 = a2
    a3 = a3
    Nodes = {1, 2}
    AddrsOf <- OneAddrEach
    Threads = {t1}
    Null = Null
    Offline = Offline
    MaxChanges = 0
    MaxPools = 2
    MaxTotal = 1
    MaxFaults = 1
    Overlap = FALSE
SPECIFICATION JodisSpec
INVARIANT EveryJedisIsClosed
