SPECIFICATION FairSpec
CONSTANTS
    None = None
    Invalid = Invalid
    Proc = {p1, p2}
    Password = {w1, w2}
    RATE_LIMIT_MAX = 1
    RATE_LIMIT_WINDOW = 1
    LOCKOUT_MAX = 2
    LOCKOUT_WINDOW = 2
    MaxFaults = 1
INVARIANT
    TypeOK
PROPERTIES
    AnswerIsCurrent
    OwnerGetsIn

