CONSTANTS
    a = a
    b = b
    Call = {a, b}
    RequestId = {a, b}
    Assignments <- Distinct
    Refusable = {}
    Gated = TRUE
    StepMayFail = FALSE
    MaxOutputs = 2
SPECIFICATION Spec
INVARIANTS
    SleepsOnlyWhenIdle
CHECK_DEADLOCK FALSE
