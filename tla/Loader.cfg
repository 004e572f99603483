SPECIFICATION MCSpec
CONSTANTS
    c1 = c1
    c2 = c2
    c3 = c3
    k1 = k1
    k2 = k2
    k3 = k3
    Calls = {c1, c2, c3}
    Keys = {k1, k2, k3}
    Existing = {k1, k2}
    MaxBatch = 2
    MaxAsk = 2
    Caching = TRUE
    Owner = {"enable_cache", "enable_all_cache", "feed", "clear"}
    MaxVersion = 2
INVARIANTS
    TimerArmed
    BatchBound
    CompleteAnswer
    FreshLoad
    Inv
PROPERTY EveryCallEnds
CHECK_DEADLOCK FALSE
