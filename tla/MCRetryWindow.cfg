SPECIFICATION Spec
CONSTANTS
    MaxAttempts = 8
    Backoff = 1
    StaleAfter = 60
    StallDelays = {6, 9, 12}
    MaxStalls = 1
    Lateness = {0, 3}
CHECK_DEADLOCK FALSE
INVARIANTS
    TypeOK
    NeverBusyToTheEnd
