SPECIFICATION Spec
CONSTANTS
    u1 = u1
    u2 = u2
    w1 = w1
    w2 = w2
    None = None
    User = {u1, u2}
    k1 = k1
    k2 = k2
    Client = {k1, k2}
    c1 = c1
    c2 = c2
    device = device
    Code = {c1, c2}
    Device = {device}
    Wish <- Wishes
    Target <- Targets
    Setting <- OneFlow
    Worker = {w1, w2}
    MaxTokens = 2
    MaxRefreshes = 1
    MaxCrashes = 1
SYMMETRY Symmetric
CHECK_DEADLOCK FALSE
INVARIANTS WithinGrant SilentWithinConsent SpentStaysSpent OneRefreshToken
PROPERTY AnswerFinal
