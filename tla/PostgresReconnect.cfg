SPECIFICATION FairSpec
CONSTANTS
    Subscribers = {s1}
    Channels = {c1}
    Nobody = Nobody
    Driver = Driver
    MaxCalls = 2
    MaxLosses = 1
PROPERTY ListenerComesBack
CHECK_DEADLOCK FALSE
