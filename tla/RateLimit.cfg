SPECIFICATION Spec
CONSTANTS
    ip = ip
    subject = subject
    Nobody = Nobody
    w1 = w1
    w2 = w2
    Proc = {w1, w2}
    Key = {ip, subject}
    RateOf <- TwoRates
    RuleList <- TwoRules
    LockTimeout = 2
    PromptHolders = TRUE
    MaxTime = 4
    MaxCrashes = 1
INVARIANTS WindowBound HistoryExact MutualExclusion
PROPERTIES ImplementsWindow Answered
CHECK_DEADLOCK FALSE
