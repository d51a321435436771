SPECIFICATION FairSpec
CONSTANTS
    None = None
    Jti = {j1, j2}
    Uid = {u1, u2}
    Proc = {p1, p2}
    RefreshTtl = 2
    Faults = TRUE
INVARIANTS
    TypeOK
    IndexIsByOwner
    IndexCoversSessions
    IndexOutlivesSessions
    StoredIndexHasTtl
    RevokeAllCoversIndexed
    IInv
PROPERTIES
    OneShotTokensSpec
    SessionsEnd
    IndexesEnd
