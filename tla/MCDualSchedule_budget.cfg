CONSTANTS
    Halves <- Scheduling
    Req = {r1, r2}
    ChunkSize = 2
    SpawnMayFail = FALSE
    ForwardMayFail = FALSE
    Warmup = TRUE
    Groups = {g1, g2, g3}
    Seqs = {s1, s2, s3}
    NumGpu = 6
    NumCpu = 3
    GpuBlocks <- Gpu
    CpuBlocks <- Cpu
    Window = 0
    Watermark = 0
    Kinds <- GreedyAndParallel
    BlockSize = 1
    PromptLens = {1, 3}
    MaxLen = 3
    TokenBudget = 2
    MaxSeqs = 2
SPECIFICATION TickSpec
SYMMETRY Symmetry
INVARIANTS
    BatchWithinBudget
CHECK_DEADLOCK FALSE
