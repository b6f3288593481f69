CONSTANTS
    Halves <- Scheduling
    Req = {r1, r2}
    ChunkSize = 2
    SpawnMayFail = FALSE
    ForwardMayFail = FALSE
    Warmup = TRUE
    Groups = {g1, g2, g3, g4, g5}
    Seqs = {s1, s2, s3, s4, s5}
    NumGpu = 6
    NumCpu = 3
    GpuBlocks <- Gpu
    CpuBlocks <- Cpu
    Window = 0
    Watermark = 0
    Kinds <- GreedyAndParallel
    BlockSize = 1
    PromptLens = {1, 6}
    MaxLen = 6
    TokenBudget = 3
    MaxSeqs = 2
SPECIFICATION RoomSpec
INVARIANTS
    RoomForSwappedIn
CHECK_DEADLOCK FALSE
