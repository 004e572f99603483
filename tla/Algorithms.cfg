SPECIFICATION MCSpec
CONSTANTS
    Camel <- Camels
INVARIANTS
    SqlIsOwn
    FieldIsServed
    ChunksDoNotMatter
    SharedAreSame
    BatchedIsAlone
    PlanServesQuery
    ResultsFindTheirPlace
    EveryProneFieldFound
    RequestIsAnswered
    ConfigurationsMerge
CHECK_DEADLOCK FALSE
