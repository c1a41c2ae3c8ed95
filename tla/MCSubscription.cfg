SPECIFICATION Spec
CONSTANTS
    Workers = {w1, w2}
    MaxChanges = 2
    MaxPeriod = 2
    MaxRetries = 2
    MaxForeign = 2
    MaxDeletes = 1
CHECK_DEADLOCK FALSE
SYMMETRY Symmetry
INVARIANTS
    TypeOK
    AppliedWasTold
    LatestWins
