SPECIFICATION FairSpec
CONSTANTS
    Proc = {p1, p2, p3}
    RATE_LIMIT_MAX = 2
    Window = 3
    MaxFaults = 2
INVARIANTS
    TypeOK
    WindowOpenedOnce
    RateBounded
PROPERTY
    RefusalEndsInTime
