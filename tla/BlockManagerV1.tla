--------------------------- MODULE BlockManagerV1 ---------------------------
(* The KV block manager, vllm/core/block_manager_v1.py, with the allocators   *)
(* that do not cache: block tables, reference counts and the free lists of    *)
(* the two devices.  The operators are the manager's methods; the scheduler's *)
(* modules call them.  Which free block an allocator hands out is data, so a  *)
(* free list is the set of its blocks.  A method that raises leaves the       *)
(* engine dead: `raised` records why, and nothing else is followed.           *)
EXTENDS Integers, Sequences, FiniteSets, Functions

CONSTANTS
    Seqs,       \* sequence ids
    GpuBlocks,  \* physical blocks of the GPU allocator
    CpuBlocks,  \* physical blocks of the CPU allocator
    Window,     \* block_sliding_window, 0 when the model has none
    Watermark   \* watermark_blocks

ASSUME DevicesAssumption ==
    /\ IsFiniteSet(GpuBlocks) /\ IsFiniteSet(CpuBlocks) /\ IsFiniteSet(Seqs)
    /\ GpuBlocks \cap CpuBlocks = {}
ASSUME WindowAssumption == Window \in Nat /\ Watermark \in Nat

VARIABLES
    table,  \* block_tables, <<>> where a sequence has no entry
    ref,    \* PhysicalTokenBlock.ref_count
    free,   \* the blocks in the free lists of both allocators
    raised  \* "no", or the exception a method raised

blockVars == <<table, ref, free, raised>>

Blocks == GpuBlocks \cup CpuBlocks
FreeGpu == free \cap GpuBlocks
FreeCpu == free \cap CpuBlocks
Tabled(S) == UNION {Range(table[s]) : s \in S}

(* The blocks a table uses: past the window, those of its last Window         *)
(* entries, the ones _free_block_table frees.                                 *)
InUse(t) ==
    IF Window > 0 /\ Len(t) > Window
    THEN Range(SubSeq(t, Len(t) - Window + 1, Len(t)))
    ELSE Range(t)
Holders(b) == {s \in Seqs : b \in InUse(table[s])}

BlockInit ==
    /\ table = [s \in Seqs |-> <<>>]
    /\ ref = [b \in Blocks |-> 0]
    /\ free = Blocks
    /\ raised = "no"

-----------------------------------------------------------------------------
Raise(why) == raised' = why /\ UNCHANGED <<table, ref, free>>

(* The allocator's half of a method: the blocks of `taken` leave the free     *)
(* list, gain[b] is what b's count is set to or raised by, loss[b] how often  *)
(* b is freed.  Freeing a block whose count is 0 raises.                      *)
Account(taken, gain, loss, newTable) ==
    LET before == [b \in Blocks |->
                     (IF b \in taken THEN 0 ELSE ref[b]) + gain[b]]
    IN  IF \E b \in Blocks : loss[b] > before[b]
        THEN Raise("DoubleFree")
        ELSE /\ ref' = [b \in Blocks |-> before[b] - loss[b]]
             /\ free' = (free \ taken)
                        \cup {b \in Blocks : loss[b] > 0 /\ loss[b] = before[b]}
             /\ table' = newTable
             /\ UNCHANGED raised

None == [b \in Blocks |-> 0]

-----------------------------------------------------------------------------
(* A prompt of n logical blocks.  With a window, logical block i >= Window    *)
(* reuses the physical block of i % Window.                                   *)
InWindow(n) == IF Window > 0 /\ n > Window THEN Window ELSE n

CanAllocate(n) ==
    CASE Cardinality(GpuBlocks) - InWindow(n) < Watermark -> "NEVER"
      [] Cardinality(FreeGpu) - InWindow(n) >= Watermark  -> "OK"
      [] OTHER                                            -> "LATER"

(* allocate: one table for all waiting sequences S; every count becomes       *)
(* num_seqs, the size of the group whatever the status of its sequences.      *)
Allocate(S, n, numSeqs) ==
    LET new == 1 .. InWindow(n)
    IN  IF Cardinality(FreeGpu) < InWindow(n)
        THEN Raise("OutOfMemory")
        ELSE LET pick == CHOOSE f \in Injection(new, FreeGpu) : TRUE
                 t == [i \in 1 .. n |-> pick[((i - 1) % InWindow(n)) + 1]]
             IN  Account(Range(pick),
                         [b \in Blocks |-> IF b \in Range(pick)
                                           THEN numSeqs ELSE 0],
                         None,
                         [s \in Seqs |-> IF s \in S THEN t ELSE table[s]])

\* Mutant of CanAppendSlots: one free block is enough for all sequences.
CanAppendSlotsAny(S) == S = {} \/ FreeGpu # {}

CanAppendSlots(S) == Cardinality(S) <= Cardinality(FreeGpu)

\* Mutants of AppendSlots: a shared block is written in place; the block that
\* was copied is not released.
AppendSlotsInPlace(s, n) ==
    LET old == table[s]
        grows == Len(old) < n
        reuses == grows /\ Window > 0 /\ Len(old) >= Window
        takes == grows /\ ~reuses
        t == IF reuses THEN Append(old, old[(Len(old) % Window) + 1]) ELSE old
        last == t[Len(t)]
        inPlace == ~takes
        new == CHOOSE b \in FreeGpu : TRUE
        one(block) == [b \in Blocks |-> IF b = block THEN 1 ELSE 0]
    IN  CASE grows /\ Len(old) # n - 1        -> Raise("AssertionError")
          [] ~takes /\ last \notin GpuBlocks  -> Raise("AssertionError")
          [] inPlace /\ last \in GpuBlocks    ->
                /\ table' = [table EXCEPT ![s] = t]
                /\ UNCHANGED <<ref, free, raised>>
          [] ~inPlace /\ FreeGpu = {}         -> Raise("OutOfMemory")
          [] takes /\ FreeGpu # {}            ->
                Account({new}, one(new), None,
                        [table EXCEPT ![s] = Append(old, new)])
          [] OTHER                            ->
                Account({new}, one(new), one(last),
                        [table EXCEPT ![s] = [t EXCEPT ![Len(t)] = new]])

AppendSlotsKeep(s, n) ==
    LET old == table[s]
        grows == Len(old) < n
        reuses == grows /\ Window > 0 /\ Len(old) >= Window
        takes == grows /\ ~reuses
        t == IF reuses THEN Append(old, old[(Len(old) % Window) + 1]) ELSE old
        last == t[Len(t)]
        inPlace == ~takes /\ ref[last] = 1
        new == CHOOSE b \in FreeGpu : TRUE
        one(block) == [b \in Blocks |-> IF b = block THEN 1 ELSE 0]
    IN  CASE grows /\ Len(old) # n - 1        -> Raise("AssertionError")
          [] ~takes /\ last \notin GpuBlocks  -> Raise("AssertionError")
          [] inPlace /\ last \in GpuBlocks    ->
                /\ table' = [table EXCEPT ![s] = t]
                /\ UNCHANGED <<ref, free, raised>>
          [] ~inPlace /\ FreeGpu = {}         -> Raise("OutOfMemory")
          [] takes /\ FreeGpu # {}            ->
                Account({new}, one(new), None,
                        [table EXCEPT ![s] = Append(old, new)])
          [] OTHER                            ->
                Account({new}, one(new), None,
                        [table EXCEPT ![s] = [t EXCEPT ![Len(t)] = new]])

(* append_slots: a slot for the newest token of s, whose tokens now fill n    *)
(* logical blocks.  A new logical block takes a new physical one, or, past    *)
(* the window, the block of its residue; a last block that others hold too is *)
(* copied on write.                                                           *)
AppendSlots(s, n) ==
    LET old == table[s]
        grows == Len(old) < n
        reuses == grows /\ Window > 0 /\ Len(old) >= Window
        takes == grows /\ ~reuses
        t == IF reuses THEN Append(old, old[(Len(old) % Window) + 1]) ELSE old
        last == t[Len(t)]
        inPlace == ~takes /\ ref[last] = 1
        new == CHOOSE b \in FreeGpu : TRUE
        one(block) == [b \in Blocks |-> IF b = block THEN 1 ELSE 0]
    IN  CASE grows /\ Len(old) # n - 1        -> Raise("AssertionError")
          [] ~takes /\ last \notin GpuBlocks  -> Raise("AssertionError")
          [] inPlace /\ last \in GpuBlocks    ->
                /\ table' = [table EXCEPT ![s] = t]
                /\ UNCHANGED <<ref, free, raised>>
          [] ~inPlace /\ FreeGpu = {}         -> Raise("OutOfMemory")
          [] takes /\ FreeGpu # {}            ->
                Account({new}, one(new), None,
                        [table EXCEPT ![s] = Append(old, new)])
          [] OTHER                            ->
                Account({new}, one(new), one(last),
                        [table EXCEPT ![s] = [t EXCEPT ![Len(t)] = new]])

-----------------------------------------------------------------------------
(* fork copies the parent's table to each child and counts each distinct      *)
(* block once more; then free drops the tables of the sequences in F, each    *)
(* block they use once.                                                       *)
ForkAndFree(parentOf, F) ==
    Account({},
        [b \in Blocks |-> Cardinality({c \in DOMAIN parentOf :
                                         b \in Range(table[parentOf[c]])})],
        [b \in Blocks |-> Cardinality({s \in F : b \in InUse(table[s])})],
        [s \in Seqs |-> CASE s \in DOMAIN parentOf -> table[parentOf[s]]
                          [] s \in F               -> <<>>
                          [] OTHER                 -> table[s]])

NoForks == [c \in {} |-> c]
Free(S) == ForkAndFree(NoForks, S)

-----------------------------------------------------------------------------
CanSwapIn(S) ==
    Cardinality(FreeGpu) - (Cardinality(Tabled(S)) + Cardinality(S)) >= Watermark
CanSwapOut(S) == Cardinality(Tabled(S)) <= Cardinality(FreeCpu)

\* Mutant of Move: a block met again is not counted again.
MoveOnce(S, freeThere) ==
    LET old == Tabled(S)
        occurs(b) == Cardinality(
            {o \in UNION {{s} \X DOMAIN table[s] : s \in S} : table[o[1]][o[2]] = b})
    IN  IF Cardinality(old) > Cardinality(freeThere)
        THEN Raise("OutOfMemory")
        ELSE LET to == CHOOSE f \in Injection(old, freeThere) : TRUE
             IN  Account(Range(to),
                    [b \in Blocks |-> IF b \in Range(to)
                        THEN 1 ELSE 0],
                    [b \in Blocks |-> IF b \in old THEN occurs(b) ELSE 0],
                    [s \in Seqs |-> IF s \in S
                        THEN [i \in DOMAIN table[s] |-> to[table[s][i]]]
                        ELSE table[s]])

(* swap_in and swap_out: every distinct block of the tables of S gets one     *)
(* block of the other device; each occurrence in a table counts the new block *)
(* once and frees the old one once.                                           *)
Move(S, freeThere) ==
    LET old == Tabled(S)
        occurs(b) == Cardinality(
            {o \in UNION {{s} \X DOMAIN table[s] : s \in S} : table[o[1]][o[2]] = b})
    IN  IF Cardinality(old) > Cardinality(freeThere)
        THEN Raise("OutOfMemory")
        ELSE LET to == CHOOSE f \in Injection(old, freeThere) : TRUE
             IN  Account(Range(to),
                    [b \in Blocks |-> IF b \in Range(to)
                        THEN occurs(CHOOSE a \in old : to[a] = b) ELSE 0],
                    [b \in Blocks |-> IF b \in old THEN occurs(b) ELSE 0],
                    [s \in Seqs |-> IF s \in S
                        THEN [i \in DOMAIN table[s] |-> to[table[s][i]]]
                        ELSE table[s]])

SwapOut(S) == Move(S, FreeCpu)
SwapIn(S) == Move(S, FreeGpu)
=============================================================================
