SPECIFICATION Spec
CONSTANTS
    Entry = {e1, e2, e3}
    Val = {v1, v2}
    Cap = 2
    TTL = 2
    MaxTime = 3
    MaxUse = 5
INVARIANTS
    Coherent
    HitIsLastStore
    EvictsLeastRecent
    MissesOnlyWhenFull
