SPECIFICATION FairSpec
CONSTANTS
    Caller = {c1, c2}
    N = 2
    Threshold = 2
    Cooldown = 3
    Timeout = 2
INVARIANTS
    SingleProbe
PROPERTIES
    NoUpstreamIsExhaustive
    ProbedAgain
    ProbeDecides
    NeverTwice
