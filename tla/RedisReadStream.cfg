SPECIFICATION FairSpec
CONSTANTS
    Starts = {0, 2, Latest}
    Latest = Latest
    Count = 2
    MaxEntries = 6
    MaxLosses = 2
INVARIANTS
    NoGapNoRepeat
    Inv
PROPERTY EveryEntryYielded
CHECK_DEADLOCK FALSE
