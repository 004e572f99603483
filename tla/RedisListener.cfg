SPECIFICATION FairSpec
CONSTANTS
    Subscribers = {s1, s2}
    Channels = {c1, c2}
    MaxCalls = 3
    MaxLosses = 2
INVARIANTS
    Inv
    ReconnectKeepsSubscriptions
PROPERTIES
    ReceiversKeepEntry
    SubscribeReturns
    StaleStreamEnds
    ListenerComesBack
CHECK_DEADLOCK FALSE
