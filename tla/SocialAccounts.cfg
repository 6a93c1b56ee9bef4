SPECIFICATION Spec
CONSTANTS
    u1 = u1
    u2 = u2
    e1 = e1
    e2 = e2
    p1 = p1
    p2 = p2
    b1 = b1
    b2 = b2
    None = None
    User = {u1, u2}
    Home <- OneHome
    Uid = {p1}
    Email = {e1, e2}
    Profile <- Profiles
    Browser = {b1, b2}
    Setting <- EachMode
    MaxStates = 1
    MaxVersion = 2
INVARIANTS ConnectedByAsker WayIn
PROPERTY AccountStays
SYMMETRY Symmetric
CHECK_DEADLOCK FALSE
