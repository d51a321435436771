SPECIFICATION Spec
CONSTANTS
    None = None
    Jti = {j1, j2}
    Uid = {u1}
    Proc = {p1, p2}
    RefreshTtl = 5
    Faults = FALSE
SYMMETRY Symmetry
INVARIANT
    RevokeAllRevokesAll
