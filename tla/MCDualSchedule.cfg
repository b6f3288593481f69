CONSTANTS
    Halves <- BothHalves
    Req = {r1, r2}
    ChunkSize = 2
    SpawnMayFail = TRUE
    ForwardMayFail = FALSE
    Warmup = TRUE
    Groups = {g1, g2, g3}
    Seqs = {s1, s2, s3}
    NumGpu = 5
    NumCpu = 3
    GpuBlocks <- Gpu
    CpuBlocks <- Cpu
    Window = 0
    Watermark = 0
    Kinds <- GreedyAndParallel
    BlockSize = 1
    PromptLens = {1, 3}
    MaxLen = 3
    TokenBudget = 3
    MaxSeqs = 2
SPECIFICATION TickSpec
SYMMETRY Symmetry
INVARIANTS
    DualTypeOK
    SchedulableIsScored
    NoDoubleDispatch
    NothingForgotten
    GeneralTypeOK
    PoolExact
    TickAsserts
    EstimatesSuffice
    KVIntact
    NoEmptyTick
CHECK_DEADLOCK FALSE
