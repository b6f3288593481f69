CONSTANTS
    a = a
    b = b
    Call = {a, b}
    RequestId = {a, b}
    Assignments <- AnyIds
    Refusable = {a, b}
    Gated = FALSE
    StepMayFail = TRUE
    MaxOutputs = 2
SPECIFICATION FairSpec
INVARIANTS
    TypeOK
    StreamsMatchEngine
    StreamsEndOnce
    DeadEngineClosesStreams
PROPERTIES
    EveryCallEnds
CHECK_DEADLOCK FALSE
