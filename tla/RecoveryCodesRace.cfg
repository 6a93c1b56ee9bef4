SPECIFICATION MfaSpec
CONSTANTS
    w1 = w1
    w2 = w2
    Worker = {w1, w2}
    Code = {10}
    NoCodes = NoCodes
    NoRequest = NoRequest
    Apart <- Nothing
    Period = 2
    Tolerance = 0
    MaxRows = 4
    MaxClock = 2
SYMMETRY Symmetric
INVARIANT RecoveryCodeOnce
CHECK_DEADLOCK FALSE
