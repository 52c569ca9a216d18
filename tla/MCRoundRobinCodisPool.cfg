\* Two proxies that change state, two sessions, Inits that overlap, and an int
\* that overflows every four calls.
CONSTANTS
    Proxies = {p1, p2}
    Clients = {c1, c2, c3, c4}
    Users = {u1}
    Null = Null
    MaxSessions = 2
    MaxChanges = 2
    IntRange = 4
    SizeRange = 8
SPECIFICATION Spec
SYMMETRY Symmetry
INVARIANTS
    TypeOK
    OwnedOnce
    CallFindsClient
    GetProxyInRange
    ListIsCurrent
    HandleIsOpen
PROPERTY RoundRobin
