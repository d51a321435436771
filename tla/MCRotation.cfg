SPECIFICATION Spec
CONSTANTS
    None = None
    Jti = {j1, j2, j3}
    Uid = {u1}
    Proc = {p1, p2}
    Email = {e1}
    Password = {w1}
    Reset = {}
    RefreshTtl = 1
    Faults = TRUE
SYMMETRY Symmetry
INVARIANT
    OneSessionPerLogin
PROPERTY
    TokenStoreSpec
