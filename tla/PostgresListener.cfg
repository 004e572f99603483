SPECIFICATION FairSpec
CONSTANTS
    Subscribers = {s1, s2}
    Channels = {c1, c2}
    Nobody = Nobody
    Driver = Driver
    MaxCalls = 4
    MaxLosses = 2
INVARIANTS
    Inv
    AttachedIsListening
    FailureMeansReconnecting
PROPERTY ComesBackOrStuck
CHECK_DEADLOCK FALSE
