SPECIFICATION WFairSpec
CONSTANTS
    Key = {"chain"}
    Payload = {p1}
    NumPartitions = 1
    KeyHash <- MCKeyHash
    BufSizes = {1}
    MaxSubs = 1
    MaxEvents = 3
    MaxHooks = 2
    Attempts = 2
INVARIANTS
    HooksInOrder
    NoSilentSkip
    RemovedGetsNoLaterEvent
PROPERTIES
    HookServed
    ShutdownStops
CHECK_DEADLOCK FALSE
