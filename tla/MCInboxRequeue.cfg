SPECIFICATION Spec
CONSTANTS
    Events = {e1}
    Handlers = {h1}
    Workers = {w1}
    RetryTags = {"retry1"}
    ManualTags = {"manual1"}
    None = None
    MaxAttempts = 2
    MaxStalls = 1
    MaxDeliveries = 2
    MaxReplays = 1
CHECK_DEADLOCK FALSE
PROPERTIES
    DeliveryEnqueues
