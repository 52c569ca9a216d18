\* A reconnection that lands at another address (expected to fail).
CONSTANTS
    Threads = {t1, t2}
    Timed = {t1}
    Addr = {a1, a2}
    Null = Null
    Late = Late
SPECIFICATION Spec
INVARIANT ResendIsSafe
