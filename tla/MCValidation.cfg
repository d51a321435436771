SPECIFICATION Spec
CONSTANTS
    AtSign = AtSign
    Dot = Dot
    Letter = Letter
    Wide = Wide
    WIDE_BYTES = 2
    MAX_EMAIL = 7
    MAX_LOCAL = 2
    MIN_PASSWORD = 3
    MAX_PASSWORD = 6
    MaxLen = 8
INVARIANTS
    EmailIsAddress
    SetPasswordLogsIn
