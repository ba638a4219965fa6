SPECIFICATION FairSpec
CONSTANTS
    Key <- MCKey
    Payload = {p1}
    NumPartitions = 2
    KeyHash <- MCKeyHash
    BufSizes = {0, 2}
    MaxSubs = 2
    MaxEvents = 4
INVARIANTS
    MapHoldsOpenChannels
    GapFree
    KeyOrder
PROPERTIES
    EvictOnlyBehind
    EventuallyServed
CHECK_DEADLOCK FALSE
