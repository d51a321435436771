SPECIFICATION Spec
CONSTANTS
    None = None
    Jti = {j1, j2}
    Uid = {u1, u2}
    Proc = {p1, p2}
    Email = {e1}
    Password = {w1}
    Reset = {r1, r2}
    RefreshTtl = 1
    Faults = TRUE
SYMMETRY Symmetry
INVARIANTS
    TypeOK
    ResetEndsOldLogins
PROPERTIES
    ResetOneShotSpec
    DeletedStaysDeleted
