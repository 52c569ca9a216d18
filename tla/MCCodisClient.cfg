\* Two threads, one of them with a timeout, over three addresses.
CONSTANTS
    Threads = {t1, t2}
    Timed = {t1}
    Addr = {a1, a2, a3}
    Null = Null
    Late = Late
SPECIFICATION FairSpec
INVARIANTS
    TypeOK
    Ownership
    PooledHaveNoError
    NoLeak
    PoolBound
    ReplyMatches
    NoUseAfterFree
    PoolOutlivesBorrowers
PROPERTY TimedCallReturns
