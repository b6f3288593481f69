CONSTANTS
    Parts <- AllParts
    Req = {r1, r2, r3}
    ChunkSize = 2
    SpawnMayFail = TRUE
    ForwardMayFail = TRUE
    Conv = {c1, c2}
    Word = {1, 2}
    PageSize = 2
    Openings <- TwoOpenings
    MaxWords = 4
    GpuSizes = {3}
    CpuPages = 2
    Block <- FirstBlocks
    Table = {t1, t2}
    Token = {1, 2}
    PerBlock = 2
    Reserve = 0
    Prompts <- SmallPrompts
    MaxTokens = 4
    Lookahead <- LookaheadSlots
SPECIFICATION PartsSpec
SYMMETRY Symmetry
INVARIANTS
    PartsTypeOK
    InFlightExact
    NoDuplicateWork
    ShutdownIsFinal
    PoolsMatch
    KVOfOwnWords
    CountsAndPoolsExact
    SharedBlocksAgree
    WorstCaseSuffices
PROPERTIES
    ImplementsScoreService
CHECK_DEADLOCK FALSE
