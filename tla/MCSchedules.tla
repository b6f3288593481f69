---------------------------- MODULE MCSchedules ----------------------------
(* The schedules on small instances: blocks are numbered, the GPU's first.   *)
EXTENDS ChunkedSchedule, TLC

CONSTANTS NumGpu, NumCpu

Gpu == 1 .. NumGpu
Cpu == 101 .. 100 + NumCpu

Greedy == [bestOf |-> 1, beam |-> FALSE]
Beam == [bestOf |-> 2, beam |-> TRUE]

OnlyGreedy == {Greedy}
GreedyAndBeam == {Greedy, Beam}

Symmetry == Permutations(Seqs) \cup Permutations(Groups)
=============================================================================
