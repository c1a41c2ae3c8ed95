SPECIFICATION Spec
CONSTANTS
    Workers = {w1, w2}
    Payments = {p1, p2}
    Invoices = {i1}
    Known = TRUE
    None = None
    MaxEvents = 3
    MaxSecond = 2
    MaxTries = 2
SYMMETRY Symmetry
CHECK_DEADLOCK FALSE
INVARIANTS
    TypeOK
    RefundSticks
    OwnIsTold
    BystandersKeep
