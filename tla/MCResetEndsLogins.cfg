SPECIFICATION Spec
CONSTANTS
    None = None
    Jti = {j1, j2}
    Uid = {u1}
    Proc = {p1, p2}
    Email = {e1}
    Password = {w1, w2}
    Reset = {r1}
    RefreshTtl = 3
    Faults = FALSE
INVARIANT
    ResetEndsLogins
