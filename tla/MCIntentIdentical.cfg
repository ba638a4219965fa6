SPECIFICATION IntentSpec
CONSTANTS
    Call = {i1, i2}
    alice = alice
    bob = bob
    ka = ka
    Account = {alice, bob}
    KeyId = {ka}
    Owner <- MCOwner
    Requests = {}
    Chain = 1
    Creation = Creation
    NoKey = NoKey
    Values = {1}
    GasUse = {20, 100}
    GasLimits = {100}
    Funds <- OthersFunds
    Lag = 1
    MaxBlocks = 1
    Chains = {1}
    AllowTo = {}
    MaxValue = 1
    MaxGasLimit = 100
    MaxGasPrice = 1
    MaxMessage = 0
    MaxSkew = 0
    AuditCap = 1
    MaxTime = 1
SYMMETRY CallSymmetry
CHECK_DEADLOCK FALSE
INVARIANT IdenticalTransaction
