SPECIFICATION JitSpec
CONSTANTS
    NHttp = 1
    NPositions = 2
    Tasks <- MCTasks
    Keys <- TwoSharedInBatch
    Persist = FALSE
    MaxCalls = 6
    Operations <- MCOperations
    ConstOps <- MCConst
    ProtectedOps <- MCProtected
    DedupeOps <- MCDedupe
INVARIANT BatchAnsweredApart
CHECK_DEADLOCK FALSE
