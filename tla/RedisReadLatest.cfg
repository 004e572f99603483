SPECIFICATION Spec
CONSTANTS
    Starts = {0, 2, Latest}
    Latest = Latest
    Count = 2
    MaxEntries = 4
    MaxLosses = 1
INVARIANT CatchesUp
CHECK_DEADLOCK FALSE
