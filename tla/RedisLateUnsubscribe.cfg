SPECIFICATION Spec
CONSTANTS
    Subscribers = {s1, s2}
    Channels = {c1}
    MaxCalls = 3
    MaxLosses = 0
INVARIANT AttachedIsServed
CHECK_DEADLOCK FALSE
