SPECIFICATION FairSpec
CONSTANTS
    Proc = {p1, p2, p3}
    LOCKOUT_MAX = 3
    Window = 2
    MaxFaults = 2
INVARIANTS
    TypeOK
    CountBounded
    LockHolds
PROPERTIES
    LockLastsWindow
    LockIsLifted
