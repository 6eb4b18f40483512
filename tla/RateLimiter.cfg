SPECIFICATION LimiterSpec
CONSTANTS
    Key = {k1, k2, k3}
    MaxHits = 2
    MaxKeys = 2
    Span = 2
    MaxTime = 6
SYMMETRY Symmetry
CHECK_DEADLOCK FALSE
INVARIANTS
    WindowBound
PROPERTIES
    RejectOnlyAtLimit
    NewcomerCounts
