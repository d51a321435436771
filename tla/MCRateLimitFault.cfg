SPECIFICATION FairSpec
CONSTANTS
    Proc = {p1, p2}
    RATE_LIMIT_MAX = 2
    Window = 2
    MaxFaults = 1
PROPERTY
    RefusalEnds
