SPECIFICATION Spec
CONSTANTS
    GroupBits = 2
    Width = 7
    MaxRaw = 100
    Fixed64Len = 2
    Fixed32Len = 1
    Requests <- MCRequests
    Responses <- MCResponses
    Statuses = {3, 9}
    Newer <- MCNewer
    AddrLen = 1
    WordLen = 2
    LenBytes = 3
    MaxMessage = 45
INVARIANTS
    RequestArrives
    NoWrongResult
    WholeResultReturned
CHECK_DEADLOCK FALSE
