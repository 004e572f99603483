SPECIFICATION Spec
CONSTANTS
    Subscribers = {s1, s2}
    Channels = {c1}
    MaxCalls = 3
    MaxLosses = 0
INVARIANT StaleSenderHasNoReceivers
CHECK_DEADLOCK FALSE
