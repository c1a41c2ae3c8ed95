SPECIFICATION Spec
CONSTANTS
    Events = {e1}
    Handlers = {h1, h2}
    Workers = {w1, w2}
    RetryTags = {}
    ManualTags = {"manual1"}
    None = None
    MaxAttempts = 2
    MaxStalls = 0
    MaxDeliveries = 2
    MaxReplays = 1
SYMMETRY Symmetry
CHECK_DEADLOCK FALSE
INVARIANTS
    TypeOK
    AckedNotLost
    ExclusiveClaim
    ProcessedIsCurrent
