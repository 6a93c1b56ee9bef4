SPECIFICATION Spec
CONSTANTS
    Choice <- AnyProvider
    Setting <- AnySetting
    Tab = {t1, t2}
    People = {p1, p2}
    None = None
    MaxStates = 1
    MaxSerial = 2
    MaxRestarts = 1
SYMMETRY Symmetric
CHECK_DEADLOCK FALSE
INVARIANTS UidsArePeople Vouched OwnAnswer
PROPERTY LoginStays
