SPECIFICATION ServiceSpec
CONSTANTS
    Callers = {c1, c2}
    Messages = {m1, m2, m3}
    Capacity = 1
    None = None
    MaxRequests = 1
INVARIANTS
    NothingVanishes
    NothingIsCutOff
PROPERTIES
    AcceptedIsHandled
    ShutdownReturns
CHECK_DEADLOCK FALSE
