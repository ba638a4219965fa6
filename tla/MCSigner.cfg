SPECIFICATION Spec
CONSTANTS
    Call = {c1, c2, c3, c4}
    KeyId = {alice}
    alice = alice
    mallory = mallory
    Requests <- MCRequests
    Chains = {1}
    AllowTo = {"bob"}
    MaxValue = 2
    MaxGasLimit = 2
    MaxGasPrice = 2
    MaxMessage = 1
    MaxSkew = 1
    AuditCap = 2
    MaxTime = 2
SYMMETRY CallSymmetry
CHECK_DEADLOCK FALSE
INVARIANTS
    AuditIsRecent
    AuditInTimeOrder
    AnsweredIffRecorded
    SignedByTheRules
