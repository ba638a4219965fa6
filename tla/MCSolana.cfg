SPECIFICATION GatewaySpec
CONSTANTS
    Node = {a, b}
    Lookback = 1
    MaxSlot = 2
INVARIANTS
    GatewayTypeOK
    StillAnswered
PROPERTIES
    ImplementsSource
    NothingLeftRunning
CHECK_DEADLOCK FALSE
