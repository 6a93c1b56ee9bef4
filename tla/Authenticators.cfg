SPECIFICATION MfaSpec
CONSTANTS
    w1 = w1
    w2 = w2
    Worker = {w1, w2}
    Code = {10}
    NoCodes = NoCodes
    NoRequest = NoRequest
    Apart <- RacingPairs
    Period = 2
    Tolerance = 0
    MaxRows = 4
    MaxClock = 2
SYMMETRY Symmetric
INVARIANTS TotpOnce RecoveryCodeOnce AsAsked NoDanglingCodes
CHECK_DEADLOCK FALSE
