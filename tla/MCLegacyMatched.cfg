SPECIFICATION Spec
CONSTANTS
    Orgs = {o1, o2}
    FirstOrg = o1
    None = None
    Workers = {w1, w2}
    MaxAttempts = 2
    MaxStalls = 0
    MaxPeriod = 1
    MaxJobs = 2
    MaxManual = 1
SYMMETRY Symmetry
CHECK_DEADLOCK FALSE
INVARIANTS
    Matched
