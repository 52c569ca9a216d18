\* Two proxies, one of which comes, goes or changes its state, and two threads
\* in calls.
CONSTANTS
    Proxies = {p1, p2}
    Threads = {t1, t2}
    Null = Null
    MaxChanges = 1
    MaxLosses = 1
    MaxFaults = 2
SPECIFICATION FairSpec
INVARIANTS
    TypeOK
    LockDiscipline
    IndexInRange
    RetryElsewhere
PROPERTIES
    RoundRobin
    Convergence
