SPECIFICATION Spec
CONSTANTS
    Requests = {r1, r2, r3}
    Orders = {o1, o2}
    None = None
    MaxSessions = 2
    MaxRequests = 4
CHECK_DEADLOCK FALSE
SYMMETRY Symmetry
INVARIANTS
    TypeOK
    OneSession
    OwnSession
    OneCreator
