\* Three calls, two contexts; one of three descriptors is out of range.
CONSTANTS
    Addr = {a1, a2}
    Fds = {0, 1, 2}
    SetSize = 2
    Frames = {s1, s2}
    MaxCalls = 3
    MaxCloses = 1
    Null = Null
    Junk = Junk
SPECIFICATION FairSpec
INVARIANTS
    TypeOK
    PoolSane
PROPERTIES
    OneOwnAnswer
    SentIsAnswered
