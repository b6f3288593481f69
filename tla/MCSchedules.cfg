CONSTANTS
    Groups = {g1, g2, g3}
    Seqs = {s1, s2, s3, s4}
    NumGpu = 4
    NumCpu = 3
    GpuBlocks <- Gpu
    CpuBlocks <- Cpu
    Window = 0
    Watermark = 1
    Kinds <- GreedyAndBeam
    BlockSize = 2
    PromptLens = {2, 7}
    MaxLen = 7
    TokenBudget = 3
    MaxNumSeqs = 3
SPECIFICATION ScheduleSpec
SYMMETRY Symmetry
INVARIANTS
    ChunkedTypeOK
    PoolExact
    ChecksSuffice
    WritesArePrivate
    ComputedIsHeld
CHECK_DEADLOCK FALSE
