SPECIFICATION FairSpec
CONSTANTS
    Events = {e1}
    Handlers = {h1}
    Workers = {w1, w2}
    RetryTags = {"retry1"}
    ManualTags = {}
    None = None
    MaxAttempts = 2
    MaxStalls = 1
    MaxDeliveries = 2
    MaxReplays = 0
CHECK_DEADLOCK FALSE
INVARIANTS
    CompletedWasFulfilled
PROPERTIES
    AckedIsSettled
    ImplementsInbox
