CONSTANTS
    Variants <- AllVariants
    Req = {r1, r2}
    ChunkSize = 2
    SpawnMayFail = FALSE
    ForwardMayFail = TRUE
    Kinds <- AllKinds
    Warmup = TRUE
    Poison = {}
    Group = {g1, g2, g3}
    Wide = {g1}
    MaxSeqs = 2
    Levels = 2
    Rival = {q1, q2, q3}
    Slots = 1
    Starv = 4
    Period = 2
SPECIFICATION VariantsSpec
INVARIANTS
    VariantsTypeOK
    StageAssertHolds
    QueuesAgree
    OneLoop
    NoLostWakeup
PROPERTIES
    DrainBeforeRanked
    NobodyWithheld
    ExecutesInOrder
    EventuallyRuns
CHECK_DEADLOCK FALSE
