SPECIFICATION EdgeSpec
CONSTANTS
    Handler = {h1, h2}
    Key = {k1}
    Unit = 3
    Rate = 2
    Burst = 2
    MaxTime = 3
    Cap = 1
    TTL = 1
    Hashes = {x1, x2}
    MaxBatch = 2
SYMMETRY HandlerSymmetry
INVARIANTS
    WithinRate
    DeniesOnlyAtLimit
    ServedWithinRate
    CachedReplyFits
