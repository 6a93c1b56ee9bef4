SPECIFICATION Spec
CONSTANTS
    u1 = u1
    u2 = u2
    w1 = w1
    w2 = w2
    Users = {u1, u2}
    Workers = {w1, w2}
    Nobody = Nobody
    None = None
    Settings <- AllSettings
    Apart <- RacingPairs
    Timeout = 1
    MaxKeys = 3
    MaxTokens = 3
    MaxPasswords = 3
    MaxLogins = 3
    MaxLinks = 2
    MaxNow = 2
CHECK_DEADLOCK FALSE
INVARIANTS EndedIsGone Listable TokensExact RunsForAsker
PROPERTIES ReplacedForGood
