SPECIFICATION Spec
CONSTANTS
    Uid = {u1, u2}
    Pair = {k1, k2, k3}
    Proc = {p1, p2}
    None = None
    ACCESS_TTL = 1
    REFRESH_TTL = 3
    Leeway = 1
    MaxTime = 4
INVARIANTS
    TypeOK
    AccessEndsWithSessions
    SessionLastsUntilExp
SYMMETRY Symmetry
