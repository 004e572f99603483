SPECIFICATION MCSpec
CONSTANTS
    a1 = a1
    a2 = a2
    b1 = b1
    Tasks <- MCTasks
    Requests <- MCRequests
    IOs <- MCIOs
    Keys <- MCKeys
    Owner <- MCOwner
    Deduped = {"shared", "both"}
    Cached = {"cached", "both", "failing"}
    Persist = TRUE
    MaxCalls = 3
    MaxVersion = 2
    Down <- MCDown
INVARIANTS
    SingleExecution
    Inv
    OneUpstreamRead
    NoOlderThanItsRequest
    OneValuePerRequest
PROPERTIES
    ImplementsSingleFlight
    EveryFieldEnds
CHECK_DEADLOCK FALSE
