CONSTANTS
    Groups = {g1, g2, g3}
    Seqs = {s1, s2, s3}
    NumGpu = 4
    NumCpu = 1
    GpuBlocks <- Gpu
    CpuBlocks <- Cpu
    Window = 0
    Watermark = 0
    Kinds <- OnlyGreedy
    BlockSize = 2
    PromptLens = {2, 4}
    MaxLen = 6
    TokenBudget = 3
    MaxNumSeqs = 3
SPECIFICATION ScheduleSpec
SYMMETRY Symmetry
INVARIANT ChunkSizeAtLeastOne
CHECK_DEADLOCK FALSE
