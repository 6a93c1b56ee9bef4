SPECIFICATION AddressSpec
CONSTANTS
    u1 = u1
    u2 = u2
    e1 = e1
    e2 = e2
    e3 = e3
    w1 = w1
    w2 = w2
    User = {u1, u2}
    Email = {e1, e2, e3}
    Home <- OwnHome
    Mode <- EachMode
    Server = {w1, w2}
    None = None
    MaxRows = 4
    MaxPosted = 2
    MaxCrashes = 1
SYMMETRY Symmetric
INVARIANTS MailIsPrimary
PROPERTIES LastAddressStays PrimaryWorthy
CHECK_DEADLOCK FALSE
