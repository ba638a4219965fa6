SPECIFICATION FairSpec
CONSTANTS
    Node = {n1, n2}
    Window = 2
    Depths = {1, 2}
    MaxHeight = 4
    MaxSalt = 1
INVARIANTS
    OneBranch
    ReplayIsBranch
PROPERTIES
    ImplementsFeed
    Converges
