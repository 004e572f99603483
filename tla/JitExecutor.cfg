SPECIFICATION MCSpec
CONSTANTS
    NHttp = 3
    NPositions = 2
    Tasks <- MCTasks
    Keys <- HttpRequests
    Persist = FALSE
    MaxCalls = 6
    Operations <- MCOperations
    ConstOps <- MCConst
    ProtectedOps <- MCProtected
    DedupeOps <- MCDedupe
INVARIANTS
    OwnAnswer
    NoLostWakeup
    FreshResult
PROPERTIES
    EveryRequestAnswered
CHECK_DEADLOCK FALSE
