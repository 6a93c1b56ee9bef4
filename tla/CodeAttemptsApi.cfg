SPECIFICATION Spec
CONSTANTS
    a = a
    b = b
    w1 = w1
    w2 = w2
    Setting <- PhoneOfLogin
    Address = {a, b}
    Worker = {w1, w2}
    NoProcess = NoProcess
    MaxResends = 1
    MaxChanges = 1
    MaxCodes = 3
    MaxStarts = 2
SYMMETRY Symmetric
INVARIANT AttemptsBounded
CHECK_DEADLOCK FALSE
