--------------------------- MODULE ScheduleProofs ---------------------------
(* The default and the chunked-prefill schedule keep the block manager's      *)
(* pools exact, never run out of what they have checked, never write to a     *)
(* shared block, and hold what they have computed: theorems for every number  *)
(* of groups, sequences and blocks, every block size and budget, in models    *)
(* without a sliding window and for requests that are greedy (best_of 1) or   *)
(* use beam search.                                                           *)
EXTENDS ChunkedSchedule, BlockLemmas, ListLemmas

(* With a window a table may hold a block twice, and best_of > 1 without beam *)
(* search leaves finished sequences in a group that is computed again, which  *)
(* allocate counts as holders: there the pools are not exact.                 *)
GreedyOrBeam ==
    /\ Window = 0
    /\ \A k \in Kinds : k.beam \/ k.bestOf = 1

-----------------------------------------------------------------------------
\* The sequences of a group that have got the slot of their newest token.
Written(g) ==
    {s \in live[g] : \/ phase[g] \in {"prefilling", "decoding"}
                     \/ phase[g] \in {"appending", "returning"} /\ s \notin pending}

\* The invariant of one group: what its phase says of its sequences, where
\* their tables are, how long they are and which of their blocks are private.
GroupInv(g) ==
    /\ ended[g] = 0 /\ Cardinality(live[g]) <= kind[g].bestOf
    /\ phase[g] = "idle" <=> live[g] = {}
    /\ phase[g] # "idle" => tokens[g] >= 1
    /\ phase[g] \in {"waiting", "prefilling"} => Cardinality(live[g]) = 1
    /\ phase[g] = "waiting" => \A s \in live[g] : table[s] = <<>>
    /\ phase[g] = "swapped" => \A s \in live[g] : table[s] \in Seq(CpuBlocks)
    /\ phase[g] \notin {"idle", "waiting"} => \A s \in live[g] :
          Len(table[s]) \in {BlocksFor(tokens[g] - 1), BlocksFor(tokens[g])}
    /\ phase[g] \notin {"idle", "waiting", "swapped"} => \A s \in live[g] :
          table[s] \in Seq(GpuBlocks)
    /\ \A s \in Written(g) :
          /\ Len(table[s]) = BlocksFor(tokens[g])
          /\ HoldersIn(table, table[s][BlocksFor(tokens[g])]) = {s}
    /\ phase[g] \in {"appending", "returning"} => pending \subseteq live[g]

\* One group at a time is appended to, and the free blocks are enough for it.
PendingInv ==
    /\ \A g, h \in In("appending") \cup In("returning") : g = h
    /\ In("appending") # {} => pending # {}
    /\ pending # {} => In("appending") \cup In("returning") # {}
    /\ Cardinality(pending) <= Cardinality(FreeGpu)
    /\ stage = "process" => pending = {}

\* The invariant that both schedules share.
BaseInv ==
    /\ BlocksTypeOK
    /\ ManagerInv
    /\ \A g, h \in Groups : g # h => live[g] \cap live[h] = {}
    /\ \A s \in Fresh : table[s] = <<>>
    /\ \A g \in Groups : GroupInv(g)
    /\ PendingInv
    /\ ChecksSuffice

\* What a chunked tick adds: how much of a group is computed and scheduled.
ChunkInv(g) ==
    /\ phase[g] \in {"idle", "waiting"} => computed[g] = 0 /\ g \notin decode
    /\ phase[g] # "idle" => computed[g] < tokens[g]
    /\ g \in decode => computed[g] = tokens[g] - 1
    /\ g \notin decode => Cardinality(live[g]) <= 1
    /\ g \in Scheduled => computed[g] + chunk[g] <= tokens[g]
    /\ phase[g] = "returning" => stage # "process"
    /\ g \in Executing /\ stage = "process" /\ raised = "no" => chunk[g] >= 0

\* And the queues, which hold each group once, where its phase says.
QueuesInv ==
    /\ \A g \in Groups : phase[g] # "idle" <=> g \in Range(arrived)
    /\ \A g \in Range(queue) : phase[g] = "waiting"
    /\ Cardinality(Places(Scheduled \cup In("ready"))) <= MaxNumSeqs

ScheduleInv ==
    /\ BaseInv
    /\ ChunkedTypeOK
    /\ chunked => QueuesInv /\ \A g \in Groups : ChunkInv(g)

-----------------------------------------------------------------------------
\* A step that leaves the group h alone: nobody takes a block h holds.
LeavesAlone(h) ==
    /\ phase'[h] = phase[h] /\ tokens'[h] = tokens[h] /\ live'[h] = live[h]
    /\ ended'[h] = ended[h] /\ kind'[h] = kind[h]
    /\ \A s \in live[h] : table'[s] = table[s]
    /\ \A q \in Seqs \ live[h] : \A b \in Range(table'[q]) :
          b \in free \/ \E p \in Seqs \ live[h] : b \in Range(table[p])
    /\ phase[h] \in {"appending", "returning"} => pending' = pending

\* Such a group keeps its invariant.
LEMMA LeftAloneKeepsGroup ==
    ASSUME GreedyOrBeam, BaseInv, NEW h \in Groups, LeavesAlone(h)
    PROVE  GroupInv(h)'
<1> DEFINE B == BlocksFor(tokens[h])
<1>1. GroupInv(h) /\ live[h] \subseteq Seqs /\ Window = 0
  BY DEF BaseInv, BlocksTypeOK, GroupsTypeOK, GreedyOrBeam
<1>2. Written(h)' = Written(h) /\ Written(h) \subseteq live[h]
  BY DEF LeavesAlone, Written
<1>3. BlocksFor(tokens[h])' = B
  BY DEF LeavesAlone, BlocksFor
<1>4. ASSUME NEW s \in Written(h)
      PROVE  /\ Len(table'[s]) = B
             /\ HoldersIn(table', table'[s][B]) = {s}
  <2>1. /\ s \in live[h] /\ table'[s] = table[s] /\ Len(table[s]) = B
        /\ HoldersIn(table, table[s][B]) = {s}
    BY <1>1, <1>2 DEF GroupInv, LeavesAlone
  <2> DEFINE b == table[s][B]
  <2>2. b \notin free
    <3>1. table[s] \in Seq(Blocks) /\ b \in Range(table[s])
      BY <1>1, <2>1 DEF BaseInv, BlocksTypeOK, HoldersIn
    <3>2. b \in Blocks
      BY <3>1, RangeOfSeq
    <3> QED
      BY <1>1, <2>1, <3>2, FreeIsUnheld DEF BaseInv
  <2> HIDE DEF b
  <2>3. ASSUME NEW q \in Seqs, q # s PROVE b \notin Range(table'[q])
    <3>1. \A p \in Seqs : p # s => b \notin Range(table[p])
      BY <2>1 DEF HoldersIn, b
    <3>2. CASE q \in live[h]
      BY <2>3, <3>1, <3>2 DEF LeavesAlone
    <3>3. CASE q \notin live[h]
      BY <2>1, <2>2, <3>1, <3>3 DEF LeavesAlone
    <3> QED
      BY <3>2, <3>3
  <2>4. s \in Seqs /\ b \in Range(table'[s])
    BY <1>1, <2>1 DEF HoldersIn, b
  <2>5. HoldersIn(table', b) = {s}
    BY <2>3, <2>4 DEF HoldersIn
  <2> QED
    BY <2>1, <2>5 DEF b
<1> QED
  BY <1>1, <1>2, <1>3, <1>4 DEF GroupInv, LeavesAlone, BlocksFor

\* A step that concerns the group g: it changes no other group, g's sequences
\* were g's or nobody's, and they get free blocks or blocks that g held.
Concerns(g) ==
    /\ GroupsTypeOK(Phases)' /\ pending' \subseteq Seqs
    /\ stage' \in {"schedule", "squeezed", "process"} /\ raised' = raised
    /\ \A h \in Groups \ {g} :
          /\ phase'[h] = phase[h] /\ tokens'[h] = tokens[h] /\ live'[h] = live[h]
          /\ ended'[h] = ended[h] /\ kind'[h] = kind[h]
          /\ phase[h] \in {"appending", "returning"} => pending' = pending
    /\ live'[g] \subseteq live[g] \cup Fresh
    /\ \A s \in Seqs \ (live[g] \cup live'[g]) : table'[s] = table[s]
    /\ \A s \in live[g] \ live'[g] : table'[s] = <<>>
    /\ \A s \in live[g] \cup live'[g] : \A b \in Range(table'[s]) :
          b \in free \/ \E p \in live[g] : b \in Range(table[p])

LEMMA ConcernsKeepsBase ==
    ASSUME GreedyOrBeam, BaseInv, NEW g \in Groups, Concerns(g),
           ManagerInv', GroupInv(g)', PendingInv'
    PROVE  BaseInv'
<1>1. /\ live \in [Groups -> SUBSET Seqs] /\ live' \in [Groups -> SUBSET Seqs]
      /\ \A h, k \in Groups : h # k => live[h] \cap live[k] = {}
      /\ \A s \in Fresh : table[s] = <<>>
  BY DEF BaseInv, BlocksTypeOK, GroupsTypeOK, Concerns
<1>2. \A s : s \in Fresh <=> s \in Seqs /\ \A h \in Groups : s \notin live[h]
  BY DEF Fresh
<1>3. \A h, k \in Groups : h # k => live'[h] \cap live'[k] = {}
  <2>1. \A h \in Groups \ {g} : live'[h] = live[h] /\ live'[h] \cap live'[g] = {}
    BY <1>1, <1>2 DEF Concerns
  <2> QED
    BY <1>1, <2>1
<1>4. ASSUME NEW s \in Fresh' PROVE table'[s] = <<>>
  <2>1. s \in Seqs /\ \A h \in Groups : s \notin live'[h]
    BY DEF Fresh
  <2>2. CASE s \in live[g]
    BY <2>1, <2>2 DEF Concerns
  <2>3. CASE s \notin live[g]
    <3>1. s \in Fresh
      BY <1>2, <2>1, <2>3 DEF Concerns
    <3> QED
      BY <1>1, <2>1, <2>3, <3>1 DEF Concerns
  <2> QED
    BY <2>2, <2>3
<1>5. ASSUME NEW h \in Groups \ {g} PROVE GroupInv(h)'
  <2>1. live[g] \cap live[h] = {} /\ live'[g] \cap live[h] = {}
        /\ live[g] \subseteq Seqs
    BY <1>1, <1>2 DEF Concerns
  <2>2. \A q \in Seqs \ live[h] : \A b \in Range(table'[q]) :
           b \in free \/ \E p \in Seqs \ live[h] : b \in Range(table[p])
    BY <2>1 DEF Concerns
  <2>3. \A s \in live[h] : table'[s] = table[s]
    BY <1>1, <2>1 DEF Concerns
  <2>4. LeavesAlone(h)
    BY <2>2, <2>3 DEF LeavesAlone, Concerns
  <2> QED
    BY <2>4, LeftAloneKeepsGroup
<1>6. BlocksTypeOK'
  BY DEF BaseInv, BlocksTypeOK, Concerns, ManagerInv
<1>7. ChecksSuffice'
  BY DEF BaseInv, ChecksSuffice, Concerns
<1>8. (\A h, k \in Groups : h # k => live[h] \cap live[k] = {})'
  BY <1>3
<1>9. (\A s \in Fresh : table[s] = <<>>)'
  BY <1>4
<1>10. (\A h \in Groups : GroupInv(h))'
  BY <1>5
<1> QED
  BY <1>6, <1>7, <1>8, <1>9, <1>10 DEF BaseInv

\* A step that changes no group and no block keeps the invariant, if it does
\* not raise what the checks are there to prevent.
LEMMA StutterKeepsBase ==
    ASSUME GreedyOrBeam, BaseInv,
           UNCHANGED <<table, ref, free, groupVars, pending>>,
           stage' \in {"schedule", "squeezed", "process"},
           stage' = "process" => pending = {},
           raised' \in Raised, ChecksSuffice'
    PROVE  BaseInv'
<1>1. BlocksTypeOK'
  BY DEF BaseInv, BlocksTypeOK, GroupsTypeOK, groupVars
<1>2. ManagerInv'
  BY DEF BaseInv, ManagerInv, PoolExact, RefCountsExact, FreeListExact, Holders
<1>3. \A g \in Groups : GroupInv(g)'
  BY DEF BaseInv, GroupInv, Written, BlocksFor, groupVars
<1>4. PendingInv'
  BY DEF BaseInv, PendingInv, In, FreeGpu, groupVars
<1>5. (\A s \in Fresh : table[s] = <<>>)'
  BY DEF BaseInv, Fresh, groupVars
<1>6. (\A g, h \in Groups : g # h => live[g] \cap live[h] = {})'
  BY DEF BaseInv, groupVars
<1> QED
  BY <1>1, <1>2, <1>3, <1>4, <1>5, <1>6 DEF BaseInv

\* While nobody is appended to, a step that starts no append leaves it so.
LEMMA NobodyAppends ==
    ASSUME BaseInv, NEW g \in Groups, pending = {}, pending' = {},
           \A h \in Groups \ {g} : phase'[h] = phase[h],
           phase'[g] \notin {"appending", "returning"}
    PROVE  PendingInv'
<1>1. In("appending") = {}
  BY DEF BaseInv, PendingInv
<1>2. In("appending")' = {}
  BY <1>1 DEF In
<1>3. \A h, k \in In("returning")' : h = k
  BY DEF BaseInv, PendingInv, In
<1>4. Cardinality(pending') <= Cardinality(FreeGpu')
  <2>1. FreeGpu' \in SUBSET GpuBlocks
    BY DEF FreeGpu
  <2>2. Cardinality(FreeGpu') \in Nat
    BY <2>1, DevicesAssumption, FS_Subset, FS_CardinalityType
  <2> QED
    BY <2>2, FS_EmptySet
<1> QED
  BY <1>2, <1>3, <1>4 DEF PendingInv

\* The facts about one group that the steps start from.
LEMMA GroupFacts ==
    ASSUME BaseInv, NEW g \in Groups
    PROVE  /\ GroupInv(g)
           /\ live[g] \subseteq Seqs /\ IsFiniteSet(live[g])
           /\ Cardinality(live[g]) \in Nat
           /\ Cardinality(live[g]) = 0 <=> live[g] = {}
           /\ tokens[g] \in Nat /\ tokens[g] \in 0 .. MaxLen /\ MaxLen \in Nat
           /\ kind[g] \in Kinds /\ kind[g].bestOf \in Nat \ {0} /\ kind[g].beam \in BOOLEAN
           /\ phase[g] \in Phases
<1>1. /\ GroupInv(g) /\ live[g] \subseteq Seqs /\ tokens[g] \in 0 .. MaxLen
      /\ kind[g] \in Kinds /\ phase[g] \in Phases
  BY DEF BaseInv, BlocksTypeOK, GroupsTypeOK
<1>2. IsFiniteSet(live[g])
  BY <1>1, DevicesAssumption, FS_Subset
<1>3. kind[g].bestOf \in Nat \ {0} /\ kind[g].beam \in BOOLEAN
  BY <1>1, GroupsAssumption
<1> QED
  BY <1>1, <1>2, <1>3, FS_CardinalityType, FS_EmptySet, GroupsAssumption

\* A request arrives: one fresh sequence, which has no table.
LEMMA ArriveKeepsBase ==
    ASSUME GreedyOrBeam, BaseInv, NEW g \in Groups, pending = {},
           Arrive(g), UNCHANGED <<pending, stage>>
    PROVE  BaseInv'
<1>1. PICK s \in Fresh, n \in PromptLens, k \in Kinds :
         /\ live' = [live EXCEPT ![g] = {s}]
         /\ tokens' = [tokens EXCEPT ![g] = n]
         /\ kind' = [kind EXCEPT ![g] = k]
  BY DEF Arrive
<1>2. /\ phase' = [phase EXCEPT ![g] = "waiting"] /\ ended' = ended
      /\ table' = table /\ ref' = ref /\ free' = free /\ raised' = raised
      /\ pending' = pending /\ stage' = stage /\ phase[g] = "idle"
  BY DEF Arrive, blockVars
<1>3. s \in Seqs /\ n \in 1 .. MaxLen /\ table[s] = <<>>
  BY GroupsAssumption DEF BaseInv, Fresh
<1>4. /\ phase'[g] = "waiting" /\ live'[g] = {s} /\ tokens'[g] = n /\ kind'[g] = k
      /\ ended'[g] = ended[g] /\ live[g] = {}
  BY <1>1, <1>2, GroupFacts DEF BaseInv, BlocksTypeOK, GroupsTypeOK, GroupInv
<1>5. GroupsTypeOK(Phases)'
  BY <1>1, <1>2, <1>3, GroupsAssumption DEF BaseInv, BlocksTypeOK, GroupsTypeOK, Phases
<1>6. Concerns(g)
  <2>1. \A q \in live'[g] : Range(table'[q]) = {}
    BY <1>2, <1>3, <1>4 DEF Range
  <2>2. \A h \in Groups \ {g} :
          /\ phase'[h] = phase[h] /\ tokens'[h] = tokens[h] /\ live'[h] = live[h]
          /\ ended'[h] = ended[h] /\ kind'[h] = kind[h]
    BY <1>1, <1>2 DEF BaseInv, BlocksTypeOK, GroupsTypeOK
  <2> QED
    BY <1>2, <1>4, <1>5, <2>1, <2>2 DEF Concerns, BaseInv, BlocksTypeOK
<1>7. GroupInv(g)'
  <2>1. k.bestOf \in Nat /\ k.bestOf >= 1
    BY GroupsAssumption
  <2>2. Cardinality(live'[g]) = 1
    BY <1>4, FS_Singleton
  <2>3. ended'[g] = 0
    BY <1>4, GroupFacts DEF GroupInv
  <2>4. Written(g)' = {}
    BY <1>4 DEF Written
  <2> QED
    BY <1>2, <1>3, <1>4, <2>1, <2>2, <2>3, <2>4 DEF GroupInv
<1>8. ManagerInv'
  BY <1>2 DEF BaseInv, ManagerInv, PoolExact, RefCountsExact, FreeListExact, Holders
<1>9. PendingInv'
  BY <1>2, <1>4, <1>6, NobodyAppends DEF Concerns
<1> QED
  BY <1>6, <1>7, <1>8, <1>9, ConcernsKeepsBase

\* A group that goes, refused or aborted, leaves no table behind.
LEMMA FinishKeepsBase ==
    ASSUME GreedyOrBeam, BaseInv, NEW g \in Groups, pending = {},
           Retire(g), UNCHANGED <<pending, stage>>, raised' = raised, ManagerInv',
           \A s \in live[g] : table'[s] = <<>>,
           \A s \in Seqs \ live[g] : table'[s] = table[s]
    PROVE  BaseInv'
<1>1. AnyKind \in Kinds
  BY GroupsAssumption DEF AnyKind
<1>2. GroupsTypeOK(Phases)'
  BY <1>1, GroupFacts DEF Retire, BaseInv, BlocksTypeOK, GroupsTypeOK, Phases
<1>3. /\ phase'[g] = "idle" /\ live'[g] = {} /\ ended'[g] = 0 /\ kind'[g] = AnyKind
      /\ \A h \in Groups \ {g} :
          /\ phase'[h] = phase[h] /\ tokens'[h] = tokens[h] /\ live'[h] = live[h]
          /\ ended'[h] = ended[h] /\ kind'[h] = kind[h]
  BY DEF Retire, BaseInv, BlocksTypeOK, GroupsTypeOK
<1>4. Concerns(g)
  BY <1>2, <1>3 DEF Concerns, BaseInv, BlocksTypeOK, Range
<1>5. GroupInv(g)'
  <2>1. AnyKind.bestOf \in Nat
    BY <1>1, GroupsAssumption
  <2>2. Cardinality(live'[g]) = 0
    BY <1>3, FS_EmptySet
  <2>3. Written(g)' = {}
    BY <1>3 DEF Written
  <2> QED
    BY <1>3, <2>1, <2>2, <2>3 DEF GroupInv
<1>6. PendingInv'
  BY <1>3, NobodyAppends
<1> QED
  BY <1>4, <1>5, <1>6, ConcernsKeepsBase

LEMMA LeaveKeepsBase ==
    ASSUME GreedyOrBeam, BaseInv, NEW g \in Groups, pending = {},
           Leave(g), UNCHANGED <<pending, stage>>
    PROVE  BaseInv'
<1>1. /\ ManagerInv' /\ raised' = raised
      /\ \A s \in Seqs : table'[s] = IF s \in live[g] THEN <<>> ELSE table[s]
  BY GroupFacts, FreeExact DEF Leave, BaseInv, GreedyOrBeam
<1>2. live[g] \subseteq Seqs
  BY GroupFacts
<1> QED
  BY <1>1, <1>2, FinishKeepsBase DEF Leave

LEMMA IgnoreKeepsBase ==
    ASSUME GreedyOrBeam, BaseInv, NEW g \in Groups, pending = {}, phase[g] = "waiting",
           Retire(g), UNCHANGED <<blockVars, pending, stage>>
    PROVE  BaseInv'
<1>1. ManagerInv' /\ raised' = raised /\ table' = table
  BY DEF blockVars, BaseInv, ManagerInv, PoolExact, RefCountsExact, FreeListExact, Holders
<1>2. \A s \in live[g] : table[s] = <<>>
  BY GroupFacts DEF GroupInv
<1> QED
  BY <1>1, <1>2, FinishKeepsBase

-----------------------------------------------------------------------------
\* What SetPhase leaves: every group has the sequences and tokens it had.
LEMMA SetPhaseFacts ==
    ASSUME BaseInv, NEW g \in Groups, NEW p \in Phases, SetPhase(g, p)
    PROVE  /\ GroupsTypeOK(Phases)' /\ phase'[g] = p
           /\ tokens' = tokens /\ live' = live /\ ended' = ended /\ kind' = kind
           /\ \A h \in Groups \ {g} : phase'[h] = phase[h]
BY DEF SetPhase, BaseInv, BlocksTypeOK, GroupsTypeOK

\* An admitted prompt: its blocks were free, so they are all its own.
LEMMA AllocateKeepsBase ==
    ASSUME GreedyOrBeam, BaseInv, NEW g \in Groups, pending = {}, phase[g] = "waiting",
           CanAllocate(LogicalBlocks(g)) = "OK",
           Allocate(live[g], LogicalBlocks(g), NumSeqs(g)),
           SetPhase(g, "prefilling"), UNCHANGED <<pending, stage>>
    PROVE  BaseInv'
<1> DEFINE n == LogicalBlocks(g)
<1>1. /\ GroupInv(g) /\ live[g] \subseteq Seqs /\ live[g] # {} /\ ended[g] = 0
      /\ Cardinality(live[g]) = 1 /\ \A s \in live[g] : table[s] = <<>>
      /\ tokens[g] \in Nat /\ tokens[g] >= 1 /\ Window = 0 /\ ManagerInv
  <2>1. Window = 0 /\ ManagerInv
    BY DEF GreedyOrBeam, BaseInv
  <2> QED
    BY <2>1, GroupFacts DEF GroupInv
<1>2. n \in Nat \ {0} /\ n = BlocksFor(tokens[g])
  BY <1>1, BlocksForStep DEF LogicalBlocks
<1>3. n <= Cardinality(FreeGpu)
  <2>1. InWindow(n) = n
    BY <1>1 DEF InWindow
  <2>2. Cardinality(FreeGpu) \in Nat /\ Cardinality(GpuBlocks) \in Nat /\ Watermark \in Nat
    BY <1>1, FreePools, DevicesAssumption, FS_CardinalityType, WindowAssumption
  <2>3. CanAllocate(n) = "OK"
    OBVIOUS
  <2> HIDE DEF n
  <2>4. Cardinality(FreeGpu) - n >= Watermark
    BY <2>1, <2>3 DEF CanAllocate
  <2> QED
    BY <1>2, <2>2, <2>4
<1>4. Allocatable(live[g], n, NumSeqs(g))
  BY <1>1, <1>2, <1>3 DEF Allocatable, NumSeqs
<1>5. /\ ManagerInv' /\ raised' = raised
      /\ \A s \in live[g] : /\ table'[s] \in Seq(GpuBlocks) /\ Len(table'[s]) = n
                            /\ Range(table'[s]) \subseteq FreeGpu
      /\ \A s \in Seqs \ live[g] : table'[s] = table[s]
  BY <1>1, <1>4, AllocateExact
<1>6. /\ GroupsTypeOK(Phases)' /\ phase'[g] = "prefilling"
      /\ tokens' = tokens /\ live' = live /\ ended' = ended /\ kind' = kind
      /\ \A h \in Groups \ {g} : phase'[h] = phase[h]
  BY SetPhaseFacts DEF Phases
<1>7. Concerns(g)
  BY <1>5, <1>6, FreePools DEF Concerns, BaseInv, BlocksTypeOK
<1>8. GroupInv(g)'
  <2>1. \A s \in live[g] : HoldersIn(table', table'[s][n]) = {s}
    <3> TAKE s \in live[g]
    <3> DEFINE b == table'[s][n]
    <3>1. live[g] = {s}
      BY <1>1, GroupFacts, FS_Singleton
    <3>2. b \in Range(table'[s])
      BY <1>2, <1>5 DEF Range
    <3> HIDE DEF b
    <3>3. b \in FreeGpu /\ b \in Blocks /\ HoldersIn(table, b) = {}
      BY <1>1, <1>5, <3>2, FreePools, FreeIsUnheld
    <3>4. \A q \in Seqs : q # s => b \notin Range(table'[q])
      BY <1>5, <3>1, <3>3 DEF HoldersIn
    <3>5. HoldersIn(table', b) = {s}
      BY <1>1, <3>2, <3>4 DEF HoldersIn
    <3> QED
      BY <3>5 DEF b
  <2>2. BlocksFor(tokens[g])' = n /\ Written(g)' = live[g]
    BY <1>2, <1>6 DEF BlocksFor, Written
  <2> HIDE DEF n
  <2> QED
    BY <1>1, <1>5, <1>6, <2>1, <2>2 DEF GroupInv
<1>9. PendingInv'
  BY <1>6, NobodyAppends
<1> QED
  BY <1>5, <1>7, <1>8, <1>9, ConcernsKeepsBase

-----------------------------------------------------------------------------
\* A group is appended to: the free blocks are enough for its sequences.
LEMMA StartAppendKeepsBase ==
    ASSUME GreedyOrBeam, BaseInv, NEW g \in Groups, Scheduling, phase[g] = "ready",
           CanAppendSlots(live[g]), StartAppend(g, "appending"),
           UNCHANGED <<blockVars, stage>>
    PROVE  BaseInv'
<1>1. /\ GroupsTypeOK(Phases)' /\ phase'[g] = "appending"
      /\ tokens' = tokens /\ live' = live /\ ended' = ended /\ kind' = kind
      /\ \A h \in Groups \ {g} : phase'[h] = phase[h]
      /\ pending' = live[g]
  BY SetPhaseFacts DEF StartAppend, Phases
<1>2. /\ ManagerInv' /\ raised' = raised /\ table' = table /\ stage' = stage
      /\ ref' = ref /\ free' = free
  BY DEF blockVars, BaseInv, ManagerInv, PoolExact, RefCountsExact, FreeListExact, Holders
<1>3. GroupInv(g) /\ live[g] \subseteq Seqs /\ live[g] # {}
  BY GroupFacts DEF GroupInv
<1>4. \A h \in Groups : phase[h] \notin {"appending", "returning"}
  BY DEF Scheduling, BaseInv, PendingInv, In
<1>5. Concerns(g)
  BY <1>1, <1>2, <1>3, <1>4 DEF Concerns, BaseInv, BlocksTypeOK
<1>6. GroupInv(g)'
  <2>1. Written(g)' = {} /\ BlocksFor(tokens[g])' = BlocksFor(tokens[g])
        /\ BlocksFor(tokens[g] - 1)' = BlocksFor(tokens[g] - 1)
    BY <1>1 DEF Written, BlocksFor
  <2> QED
    BY <1>1, <1>2, <1>3, <2>1 DEF GroupInv
<1>7. PendingInv'
  <2>1. FreeGpu' = FreeGpu
    BY <1>2 DEF FreeGpu
  <2>2. In("appending")' = {g} /\ In("returning")' = {}
    BY <1>1, <1>4 DEF In
  <2> QED
    BY <1>1, <1>2, <1>3, <2>1, <2>2 DEF PendingInv, CanAppendSlots, Scheduling
<1> QED
  BY <1>2, <1>5, <1>6, <1>7, ConcernsKeepsBase

\* A sequence gets the slot of its newest token; the others keep theirs.
LEMMA AppendSlotKeepsBase ==
    ASSUME GreedyOrBeam, BaseInv, NEW s, AppendSlot(s)
    PROVE  BaseInv'
<1>1. PICK g \in In("appending") \cup In("returning") :
         /\ AppendSlots(s, LogicalBlocks(g))
         /\ IF pending = {s} /\ phase[g] = "appending"
            THEN SetPhase(g, "decoding") ELSE UNCHANGED groupVars
  BY DEF AppendSlot
<1>2. s \in pending /\ pending' = pending \ {s} /\ stage' = stage
  BY DEF AppendSlot
<1> DEFINE n == LogicalBlocks(g)
<1>3. /\ g \in Groups /\ phase[g] \in {"appending", "returning"}
      /\ \A h \in Groups \ {g} : phase[h] \notin {"appending", "returning"}
  BY DEF In, BaseInv, PendingInv
<1>4. /\ GroupInv(g) /\ live[g] \subseteq Seqs /\ pending \subseteq live[g]
      /\ s \in live[g] /\ s \in Seqs /\ tokens[g] \in Nat /\ tokens[g] >= 1
      /\ Window = 0 /\ ManagerInv
  <2>1. Window = 0 /\ ManagerInv
    BY DEF GreedyOrBeam, BaseInv
  <2> QED
    BY <1>2, <1>3, <2>1, GroupFacts DEF GroupInv
<1>5. n \in Nat \ {0} /\ n = BlocksFor(tokens[g])
  BY <1>4, BlocksForStep DEF LogicalBlocks
<1>6. BlocksFor(tokens[g] - 1) \in {n - 1, n}
  <2>1. tokens[g] - 1 \in Nat /\ (tokens[g] - 1) + 1 = tokens[g]
    BY <1>4
  <2> QED
    BY <1>5, <2>1, BlocksForStep
<1>7. /\ IsFiniteSet(pending) /\ Cardinality(pending) \in Nat
      /\ Cardinality(pending) >= 1 /\ Cardinality(pending') = Cardinality(pending) - 1
  <2>1. IsFiniteSet(pending)
    BY <1>4, DevicesAssumption, FS_Subset
  <2> QED
    BY <1>2, <2>1, FS_CardinalityType, FS_EmptySet, FS_RemoveElement
<1>8. /\ Cardinality(FreeGpu) \in Nat /\ Cardinality(pending) <= Cardinality(FreeGpu)
      /\ FreeGpu # {}
  <2>1. Cardinality(FreeGpu) \in Nat /\ Cardinality(pending) <= Cardinality(FreeGpu)
    BY <1>4, FreePools DEF BaseInv, PendingInv
  <2> QED
    BY <1>7, <2>1, FS_EmptySet
<1> HIDE DEF n
<1>9. Appendable(s, n)
  BY <1>3, <1>4, <1>5, <1>6, <1>8 DEF Appendable, GroupInv
<1>10. /\ ManagerInv' /\ raised' = raised
       /\ table'[s] \in Seq(GpuBlocks) /\ Len(table'[s]) = n
       /\ HoldersIn(table', table'[s][n]) = {s}
       /\ Range(table'[s]) \subseteq Range(table[s]) \cup FreeGpu
       /\ \A q \in Seqs \ {s} : table'[q] = table[q]
       /\ Cardinality(FreeGpu') >= Cardinality(FreeGpu) - 1
  BY <1>1, <1>4, <1>9, AppendSlotsExact DEF n
<1>11. /\ GroupsTypeOK(Phases)'
       /\ phase'[g] = IF pending = {s} /\ phase[g] = "appending" THEN "decoding" ELSE phase[g]
       /\ tokens' = tokens /\ live' = live /\ ended' = ended /\ kind' = kind
       /\ \A h \in Groups \ {g} : phase'[h] = phase[h]
  <2>1. CASE pending = {s} /\ phase[g] = "appending"
    BY <1>1, <1>3, <2>1, SetPhaseFacts DEF Phases
  <2>2. CASE ~(pending = {s} /\ phase[g] = "appending")
    BY <1>1, <2>2 DEF groupVars, BaseInv, BlocksTypeOK, GroupsTypeOK
  <2> QED
    BY <2>1, <2>2
<1>12. Concerns(g)
  <2>1. \A q \in live[g] : \A b \in Range(table'[q]) :
           b \in free \/ \E p \in live[g] : b \in Range(table[p])
    BY <1>4, <1>10, FreePools
  <2> QED
    BY <1>2, <1>3, <1>4, <1>10, <1>11, <2>1 DEF Concerns, BaseInv, BlocksTypeOK
<1>13. GroupInv(g)'
  <2>1. Written(g)' \subseteq Written(g) \cup {s}
    BY <1>2, <1>3, <1>11 DEF Written
  <2>2. \A q \in Written(g) \ {s} : /\ Len(table'[q]) = n
                                    /\ HoldersIn(table', table'[q][n]) = {q}
    <3> TAKE q \in Written(g) \ {s}
    <3> DEFINE b == table[q][n]
    <3>1. /\ q \in live[g] /\ q \in Seqs /\ table'[q] = table[q] /\ Len(table[q]) = n
          /\ HoldersIn(table, b) = {q}
      BY <1>4, <1>5, <1>10 DEF GroupInv, Written
    <3>2. b \in Range(table[q])
      BY <3>1 DEF HoldersIn
    <3> HIDE DEF b
    <3>3. b \notin FreeGpu
      BY <1>4, <3>1, FreePools, FreeIsUnheld
    <3>4. \A p \in Seqs : p # q => b \notin Range(table'[p])
      BY <1>4, <1>10, <3>1, <3>3 DEF HoldersIn
    <3>5. HoldersIn(table', b) = {q}
      BY <3>1, <3>2, <3>4 DEF HoldersIn
    <3> QED
      BY <3>1, <3>5 DEF b
  <2>3. \A q \in Written(g)' : Len(table'[q]) = n /\ HoldersIn(table', table'[q][n]) = {q}
    BY <1>10, <2>1, <2>2
  <2>4. BlocksFor(tokens[g])' = n /\ BlocksFor(tokens[g] - 1)' = BlocksFor(tokens[g] - 1)
    BY <1>5, <1>11 DEF BlocksFor
  <2>5. \A q \in live[g] : /\ Len(table'[q]) \in {BlocksFor(tokens[g] - 1), n}
                           /\ table'[q] \in Seq(GpuBlocks)
    BY <1>3, <1>4, <1>5, <1>10 DEF GroupInv
  <2> QED
    BY <1>2, <1>3, <1>4, <1>11, <2>3, <2>4, <2>5 DEF GroupInv
<1>14. PendingInv'
  <2>1. FreeGpu' \in SUBSET GpuBlocks
    BY DEF FreeGpu
  <2>2. Cardinality(FreeGpu') \in Nat
    BY <2>1, DevicesAssumption, FS_Subset, FS_CardinalityType
  <2>3. Cardinality(pending') <= Cardinality(FreeGpu')
    BY <1>7, <1>8, <1>10, <2>2
  <2>4. \A h \in Groups : phase'[h] \in {"appending", "returning"} => h = g
    BY <1>3, <1>11
  <2>5. In("appending")' # {} => pending' # {}
    BY <1>2, <1>11, <2>4 DEF In
  <2>6. pending' # {} => g \in In("appending")' \cup In("returning")'
    BY <1>2, <1>3, <1>11 DEF In
  <2>7. stage' # "process"
    BY <1>2 DEF BaseInv, PendingInv
  <2> QED
    BY <2>3, <2>4, <2>5, <2>6, <2>7 DEF PendingInv, In
<1> QED
  BY <1>3, <1>10, <1>12, <1>13, <1>14, ConcernsKeepsBase

-----------------------------------------------------------------------------
\* A group has room for best_of running sequences, before and after.
LEMMA RunningSeqs ==
    ASSUME GreedyOrBeam, BaseInv, NEW g \in Groups
    PROVE  MaxRunningSeqs(g) = kind[g].bestOf /\ NumSeqs(g) = Cardinality(live[g])
<1>1. /\ Cardinality(live[g]) \in Nat /\ Cardinality(live[g]) <= kind[g].bestOf
      /\ ended[g] = 0 /\ kind[g].bestOf \in Nat \ {0}
  BY GroupFacts DEF GroupInv
<1>2. kind[g].beam \/ kind[g].bestOf = 1
  BY GroupFacts DEF GreedyOrBeam
<1> QED
  BY <1>1, <1>2 DEF MaxRunningSeqs, NumSeqs

\* Preemption: a group of one sequence is recomputed, any other swapped out.
LEMMA PreemptKeepsBase ==
    ASSUME GreedyOrBeam, BaseInv, NEW g \in Groups, Scheduling, phase[g] = "ready",
           Preempt(g), pending' = pending, stage' = "squeezed"
    PROVE  BaseInv'
<1>1. /\ GroupInv(g) /\ live[g] \subseteq Seqs /\ live[g] # {}
      /\ Cardinality(live[g]) \in Nat /\ Cardinality(live[g]) # 0
  BY GroupFacts DEF GroupInv
<1>2. pending = {} /\ pending' = {} /\ ManagerInv /\ Window = 0
  BY DEF Scheduling, BaseInv, GreedyOrBeam
<1>3. CASE MaxRunningSeqs(g) = 1
  <2>1. Cardinality(live[g]) = 1
    <3>1. Cardinality(live[g]) <= kind[g].bestOf /\ kind[g].bestOf = 1
      BY <1>1, <1>3, RunningSeqs DEF GroupInv
    <3> QED
      BY <1>1, <3>1
  <2>2. Free(live[g]) /\ SetPhase(g, "waiting")
    BY <1>3, <2>1 DEF Preempt
  <2>3. /\ ManagerInv' /\ raised' = raised
        /\ \A s \in Seqs : table'[s] = IF s \in live[g] THEN <<>> ELSE table[s]
    BY <1>1, <1>2, <2>2, FreeExact
  <2>4. /\ GroupsTypeOK(Phases)' /\ phase'[g] = "waiting"
        /\ tokens' = tokens /\ live' = live /\ ended' = ended /\ kind' = kind
        /\ \A h \in Groups \ {g} : phase'[h] = phase[h]
    BY <2>2, SetPhaseFacts DEF Phases
  <2>5. \A s \in live[g] : table'[s] = <<>> /\ Range(table'[s]) = {}
    BY <1>1, <2>3 DEF Range
  <2>6. Concerns(g)
    BY <1>2, <2>3, <2>4, <2>5 DEF Concerns, BaseInv, BlocksTypeOK
  <2>7. GroupInv(g)'
    <3>1. Written(g)' = {}
      BY <2>4 DEF Written
    <3> QED
      BY <1>1, <2>1, <2>4, <2>5, <3>1 DEF GroupInv
  <2>8. PendingInv'
    BY <1>2, <2>4, NobodyAppends
  <2> QED
    BY <2>3, <2>6, <2>7, <2>8, ConcernsKeepsBase
<1>4. CASE MaxRunningSeqs(g) # 1 /\ CanSwapOut(live[g])
  <2>1. Move(live[g], FreeCpu) /\ SetPhase(g, "swapped")
    BY <1>4 DEF Preempt, SwapOut
  <2>2. Movable(live[g], FreeCpu)
    BY <1>1, <1>4 DEF Movable, CanSwapOut
  <2>3. /\ ManagerInv' /\ raised' = raised
        /\ \A s \in live[g] : Len(table'[s]) = Len(table[s]) /\ table'[s] \in Seq(FreeCpu)
        /\ \A s \in Seqs \ live[g] : table'[s] = table[s]
    BY <1>2, <2>1, <2>2, MoveExact
  <2>4. /\ GroupsTypeOK(Phases)' /\ phase'[g] = "swapped"
        /\ tokens' = tokens /\ live' = live /\ ended' = ended /\ kind' = kind
        /\ \A h \in Groups \ {g} : phase'[h] = phase[h]
    BY <2>1, SetPhaseFacts DEF Phases
  <2>5. \A s \in live[g] : table'[s] \in Seq(CpuBlocks) /\ Range(table'[s]) \subseteq free
    <3>1. FreeCpu \subseteq CpuBlocks /\ FreeCpu \subseteq free
      BY DEF FreeCpu
    <3> QED
      BY <2>3, <3>1, SeqMonotonic, RangeOfSeq
  <2>6. Concerns(g)
    BY <1>2, <2>3, <2>4, <2>5 DEF Concerns, BaseInv, BlocksTypeOK
  <2>7. GroupInv(g)'
    <3>1. Written(g)' = {}
      BY <2>4 DEF Written
    <3>2. BlocksFor(tokens[g])' = BlocksFor(tokens[g])
          /\ BlocksFor(tokens[g] - 1)' = BlocksFor(tokens[g] - 1)
      BY <2>4 DEF BlocksFor
    <3> QED
      BY <1>1, <2>3, <2>4, <2>5, <3>1, <3>2 DEF GroupInv
  <2>8. PendingInv'
    BY <1>2, <2>4, NobodyAppends
  <2> QED
    BY <2>3, <2>6, <2>7, <2>8, ConcernsKeepsBase
<1>5. CASE MaxRunningSeqs(g) # 1 /\ ~CanSwapOut(live[g])
  <2>1. Raise("NoSwapSpace") /\ UNCHANGED groupVars
    BY <1>5 DEF Preempt
  <2>2. ChecksSuffice'
    BY <2>1 DEF Raise, ChecksSuffice
  <2>3. /\ UNCHANGED <<table, ref, free, groupVars, pending>>
        /\ raised' \in Raised /\ stage' = "squeezed"
    BY <2>1 DEF Raise, Raised
  <2> QED
    BY <2>2, <2>3, StutterKeepsBase
<1> QED
  BY <1>3, <1>4, <1>5

\* A group comes back from the CPU: the free blocks are enough for its tables
\* and then for one more block of each sequence.
LEMMA SwapInKeepsBase ==
    ASSUME GreedyOrBeam, BaseInv, NEW g \in Groups, Scheduling, phase[g] = "swapped",
           CanSwapIn(live[g]), SwapIn(live[g]), StartAppend(g, "returning"),
           UNCHANGED stage
    PROVE  BaseInv'
<1>1. /\ GroupInv(g) /\ live[g] \subseteq Seqs /\ live[g] # {}
      /\ Cardinality(live[g]) \in Nat
  BY GroupFacts DEF GroupInv
<1>2. ManagerInv /\ Window = 0
  BY DEF BaseInv, GreedyOrBeam
<1>3. /\ Cardinality(FreeGpu) \in Nat /\ Cardinality(Tabled(live[g])) \in Nat
      /\ Watermark \in Nat
  BY <1>1, <1>2, FreePools, TabledFinite, WindowAssumption
<1>4. Movable(live[g], FreeGpu)
  BY <1>1, <1>3 DEF Movable, CanSwapIn
<1>5. /\ ManagerInv' /\ raised' = raised
      /\ \A s \in live[g] : Len(table'[s]) = Len(table[s]) /\ table'[s] \in Seq(FreeGpu)
      /\ \A s \in Seqs \ live[g] : table'[s] = table[s]
      /\ Cardinality(FreeGpu') >= Cardinality(FreeGpu) - Cardinality(Tabled(live[g]))
  BY <1>2, <1>4, MoveExact DEF SwapIn
<1>6. /\ GroupsTypeOK(Phases)' /\ phase'[g] = "returning"
      /\ tokens' = tokens /\ live' = live /\ ended' = ended /\ kind' = kind
      /\ \A h \in Groups \ {g} : phase'[h] = phase[h]
      /\ pending' = live[g]
  BY SetPhaseFacts DEF StartAppend, Phases
<1>7. \A s \in live[g] : table'[s] \in Seq(GpuBlocks) /\ Range(table'[s]) \subseteq free
  <2>1. FreeGpu \subseteq GpuBlocks /\ FreeGpu \subseteq free
    BY DEF FreeGpu
  <2> QED
    BY <1>5, <2>1, SeqMonotonic, RangeOfSeq
<1>8. \A h \in Groups : phase[h] \notin {"appending", "returning"}
  BY DEF Scheduling, BaseInv, PendingInv, In
<1>9. Concerns(g)
  BY <1>1, <1>5, <1>6, <1>7, <1>8 DEF Concerns, BaseInv, BlocksTypeOK
<1>10. GroupInv(g)'
  <2>1. Written(g)' = {} /\ BlocksFor(tokens[g])' = BlocksFor(tokens[g])
        /\ BlocksFor(tokens[g] - 1)' = BlocksFor(tokens[g] - 1)
    BY <1>6 DEF Written, BlocksFor
  <2> QED
    BY <1>1, <1>5, <1>6, <1>7, <2>1 DEF GroupInv
<1>11. PendingInv'
  <2>1. FreeGpu' \in SUBSET GpuBlocks
    BY DEF FreeGpu
  <2>2. Cardinality(FreeGpu') \in Nat
    BY <2>1, DevicesAssumption, FS_Subset, FS_CardinalityType
  <2>3. Cardinality(pending') <= Cardinality(FreeGpu')
    BY <1>1, <1>3, <1>5, <1>6, <2>2 DEF CanSwapIn
  <2>4. In("returning")' = {g} /\ In("appending")' = {}
    BY <1>6, <1>8 DEF In
  <2> QED
    BY <1>1, <1>6, <2>3, <2>4 DEF PendingInv, Scheduling
<1> QED
  BY <1>5, <1>9, <1>10, <1>11, ConcernsKeepsBase

\* A group that has come back decodes, or is found to have too many tokens.
LEMMA ReturnedKeepsBase ==
    ASSUME GreedyOrBeam, BaseInv, NEW g \in Groups, Returned(g)
    PROVE  BaseInv'
<1>1. /\ GroupInv(g) /\ live[g] \subseteq Seqs /\ live[g] # {}
      /\ phase[g] = "returning" /\ pending = {} /\ pending' = {} /\ stage' = stage
  BY GroupFacts DEF GroupInv, Returned
<1>2. CASE Cardinality(live[g]) = 1
  <2>1. SetPhase(g, "decoding") /\ UNCHANGED blockVars
    BY <1>2 DEF Returned
  <2>2. /\ ManagerInv' /\ raised' = raised /\ table' = table
    BY <2>1 DEF blockVars, BaseInv, ManagerInv, PoolExact, RefCountsExact, FreeListExact, Holders
  <2>3. /\ GroupsTypeOK(Phases)' /\ phase'[g] = "decoding"
        /\ tokens' = tokens /\ live' = live /\ ended' = ended /\ kind' = kind
        /\ \A h \in Groups \ {g} : phase'[h] = phase[h]
    BY <2>1, SetPhaseFacts DEF Phases
  <2>4. Concerns(g)
    BY <1>1, <2>2, <2>3 DEF Concerns, BaseInv, BlocksTypeOK
  <2>5. GroupInv(g)'
    <3>1. Written(g)' = live[g] /\ Written(g) = live[g]
          /\ BlocksFor(tokens[g])' = BlocksFor(tokens[g])
          /\ BlocksFor(tokens[g] - 1)' = BlocksFor(tokens[g] - 1)
      BY <1>1, <2>3 DEF Written, BlocksFor
    <3>2. /\ ended'[g] = 0 /\ live'[g] = live[g] /\ kind'[g] = kind[g]
          /\ tokens'[g] = tokens[g] /\ phase'[g] = "decoding"
      BY <1>1, <2>3 DEF GroupInv
    <3>3. /\ tokens[g] >= 1 /\ Cardinality(live[g]) <= kind[g].bestOf
          /\ \A s \in live[g] :
                /\ Len(table[s]) \in {BlocksFor(tokens[g] - 1), BlocksFor(tokens[g])}
                /\ table[s] \in Seq(GpuBlocks)
      BY <1>1 DEF GroupInv
    <3>4. \A s \in live[g] : /\ Len(table[s]) = BlocksFor(tokens[g])
                            /\ HoldersIn(table, table[s][BlocksFor(tokens[g])]) = {s}
      BY <1>1, <3>1 DEF GroupInv
    <3> QED
      BY <1>1, <2>2, <3>1, <3>2, <3>3, <3>4 DEF GroupInv
  <2>6. PendingInv'
    BY <1>1, <2>3, NobodyAppends
  <2> QED
    BY <2>2, <2>4, <2>5, <2>6, ConcernsKeepsBase
<1>3. CASE Cardinality(live[g]) # 1
  <2>1. Raise("NotOneToken") /\ UNCHANGED groupVars
    BY <1>3 DEF Returned
  <2>2. ChecksSuffice'
    BY <2>1 DEF Raise, ChecksSuffice
  <2>3. /\ UNCHANGED <<table, ref, free, groupVars, pending>>
        /\ raised' \in Raised /\ stage' \in {"schedule", "squeezed", "process"}
    BY <1>1, <2>1 DEF Raise, Raised, BaseInv, BlocksTypeOK
  <2> QED
    BY <1>1, <2>2, <2>3, StutterKeepsBase
<1> QED
  BY <1>2, <1>3

-----------------------------------------------------------------------------
\* The output processor: children share the tables of their parents, what is
\* left of the group has one token more, and its blocks are those it wrote.
LEMMA SampleKeepsBase ==
    ASSUME GreedyOrBeam, BaseInv, NEW g \in Executing, NEW first \in BOOLEAN,
           stage = "process", SampleAndStop(g, first), pending' = pending,
           stage' \in {"schedule", "process"}
    PROVE  BaseInv'
<1>1. PICK children \in SUBSET Fresh, stopped \in SUBSET live[g] :
        /\ Sampled(g, first, children, stopped)
        /\ \E parentOf \in [children -> live[g]] : ForkAndFree(parentOf, stopped)
        /\ LET running == children \cup (live[g] \ stopped)
           IN  /\ live' = [live EXCEPT ![g] = running]
               /\ tokens' = [tokens EXCEPT ![g] = IF running = {} THEN 0 ELSE @ + 1]
               /\ phase' = [phase EXCEPT ![g] =
                     IF running = {} THEN "idle" ELSE "ready"]
               /\ kind' = [kind EXCEPT ![g] = IF running = {} THEN AnyKind ELSE @]
  BY DEF SampleAndStop
<1> DEFINE kept == live[g] \ stopped
           running == children \cup kept
<1>2. /\ g \in Groups /\ phase[g] \in {"prefilling", "decoding"}
      /\ pending = {} /\ pending' = {} /\ Window = 0 /\ ManagerInv
  BY DEF Executing, In, BaseInv, PendingInv, GreedyOrBeam
<1>3. /\ GroupInv(g) /\ live[g] \subseteq Seqs /\ IsFiniteSet(live[g]) /\ live[g] # {}
      /\ Cardinality(live[g]) \in Nat /\ Cardinality(live[g]) <= kind[g].bestOf
      /\ tokens[g] \in Nat /\ tokens[g] \in 0 .. MaxLen /\ MaxLen \in Nat
      /\ kind[g] \in Kinds /\ kind[g].bestOf \in Nat \ {0} /\ ended[g] = 0
  BY <1>2, GroupFacts DEF GroupInv
<1>4. /\ children \subseteq Seqs /\ IsFiniteSet(children) /\ IsFiniteSet(kept)
      /\ children \cap live[g] = {} /\ children \cap kept = {}
      /\ \A c \in children : table[c] = <<>>
  <2>1. children \subseteq Seqs /\ children \cap live[g] = {}
    BY <1>1, <1>2 DEF Fresh
  <2>2. \A c \in children : table[c] = <<>>
    BY <1>1 DEF BaseInv
  <2> QED
    BY <1>3, <2>1, <2>2, DevicesAssumption, FS_Subset
<1>5. /\ IsFiniteSet(running)
      /\ Cardinality(running) = Cardinality(children) + Cardinality(kept)
      /\ Cardinality(children) \in Nat /\ Cardinality(kept) \in Nat
      /\ Cardinality(running) = 0 <=> running = {}
  BY <1>4, DisjointUnion, FS_EmptySet
<1>6. /\ tokens[g] >= MaxLen => running = {}
      /\ Cardinality(running) <= kind[g].bestOf
      /\ ended' = [ended EXCEPT ![g] = 0]
  <2> DEFINE extra == IF first THEN kind[g].bestOf - 1 ELSE 0
  <2>1. /\ IF kind[g].beam THEN Cardinality(running) <= kind[g].bestOf
                           ELSE Cardinality(children) <= extra
        /\ tokens[g] >= MaxLen => Cardinality(running) = 0
        /\ ended' = [ended EXCEPT ![g] =
              IF Cardinality(running) = 0 THEN 0
              ELSE IF kind[g].beam THEN ended[g]
              ELSE ended[g] + extra - Cardinality(children) + Cardinality(stopped)]
    BY <1>1, <1>5 DEF Sampled
  <2>2. CASE kind[g].beam
    BY <1>3, <1>5, <2>1, <2>2
  <2>3. CASE ~kind[g].beam
    <3>1. kind[g].bestOf = 1 /\ extra = 0
      BY <1>3, <2>3 DEF GreedyOrBeam
    <3>2. children = {} /\ Cardinality(children) = 0
      BY <1>4, <1>5, <2>1, <2>3, <3>1, FS_EmptySet
    <3>3. Cardinality(kept) <= Cardinality(live[g])
      BY <1>3, FS_Subset
    <3>4. ASSUME running # {} PROVE Cardinality(stopped) = 0
      <4>1. PICK s \in live[g] : s \notin stopped
        BY <3>2, <3>4
      <4>2. live[g] = {s}
        <5>1. Cardinality(live[g]) = 1
          BY <1>3, <3>1, FS_EmptySet
        <5> QED
          BY <1>3, <4>1, <5>1, FS_Singleton
      <4> QED
        BY <4>1, <4>2, FS_EmptySet
    <3>5. Cardinality(running) <= kind[g].bestOf
      BY <1>3, <1>5, <3>1, <3>2, <3>3
    <3>6. (IF Cardinality(running) = 0 THEN 0
           ELSE IF kind[g].beam THEN ended[g]
           ELSE ended[g] + extra - Cardinality(children) + Cardinality(stopped)) = 0
      <4>1. running # {} =>
               ended[g] + extra - Cardinality(children) + Cardinality(stopped) = 0
        <5> HIDE DEF extra, running
        <5> QED
          BY <1>3, <3>1, <3>2, <3>4
      <4> HIDE DEF extra, running
      <4> QED
        BY <1>5, <2>3, <4>1
    <3>7. ended' = [ended EXCEPT ![g] = 0]
      BY <2>1, <3>6, Zenon
    <3> QED
      BY <1>5, <2>1, <3>5, <3>7
  <2> QED
    BY <2>2, <2>3
<1>7. PICK parentOf \in [children -> live[g]] : ForkAndFree(parentOf, stopped)
  BY <1>1
<1>8. /\ ManagerInv' /\ raised' = raised
      /\ \A c \in children : table'[c] = table[parentOf[c]] /\ parentOf[c] \in live[g]
      /\ \A s \in stopped : table'[s] = <<>>
      /\ \A s \in Seqs \ (children \cup stopped) : table'[s] = table[s]
  <2>1. Forkable(parentOf, stopped)
    BY <1>3, <1>4, <1>7 DEF Forkable
  <2>2. /\ ManagerInv' /\ raised' = raised
        /\ \A s \in Seqs : table'[s] = CASE s \in children -> table[parentOf[s]]
                                         [] s \in stopped -> <<>>
                                         [] OTHER -> table[s]
    BY <1>2, <1>7, <2>1, ForkAndFreeExact
  <2> QED
    BY <1>3, <1>4, <1>7, <2>2
<1> HIDE DEF running
<1>9. /\ live' = [live EXCEPT ![g] = running]
      /\ tokens' = [tokens EXCEPT ![g] = IF running = {} THEN 0 ELSE @ + 1]
      /\ phase' = [phase EXCEPT ![g] = IF running = {} THEN "idle" ELSE "ready"]
      /\ kind' = [kind EXCEPT ![g] = IF running = {} THEN AnyKind ELSE @]
  BY <1>1 DEF running
<1>10. running \subseteq Seqs /\ running \subseteq live[g] \cup Fresh
       /\ live[g] \ running = stopped
  BY <1>1, <1>3, <1>4 DEF running
<1>11. /\ live'[g] = running /\ ended'[g] = 0
       /\ tokens'[g] = (IF running = {} THEN 0 ELSE tokens[g] + 1)
       /\ phase'[g] = (IF running = {} THEN "idle" ELSE "ready")
       /\ kind'[g] = (IF running = {} THEN AnyKind ELSE kind[g])
       /\ \A h \in Groups \ {g} :
          /\ phase'[h] = phase[h] /\ tokens'[h] = tokens[h] /\ live'[h] = live[h]
          /\ ended'[h] = ended[h] /\ kind'[h] = kind[h]
  BY <1>2, <1>6, <1>9 DEF BaseInv, BlocksTypeOK, GroupsTypeOK
<1>12. GroupsTypeOK(Phases)'
  <2>1. (IF running = {} THEN 0 ELSE tokens[g] + 1) \in 0 .. MaxLen
    BY <1>3, <1>6
  <2>2. (IF running = {} THEN AnyKind ELSE kind[g]) \in Kinds
    BY <1>3 DEF AnyKind
  <2>3. (IF running = {} THEN "idle" ELSE "ready") \in Phases
    BY DEF Phases
  <2> QED
    BY <1>2, <1>6, <1>9, <1>10, <2>1, <2>2, <2>3 DEF BaseInv, BlocksTypeOK, GroupsTypeOK
<1>13. \A s \in running : \E p \in live[g] : table'[s] = table[p]
  <2>1. \A s \in kept : s \in Seqs \ (children \cup stopped) /\ s \in live[g]
    BY <1>3, <1>4
  <2> QED
    BY <1>8, <2>1 DEF running
<1>14. Concerns(g)
  <2>1. \A s \in live[g] \cup running : \A b \in Range(table'[s]) :
           \E p \in live[g] : b \in Range(table[p])
    <3>1. \A s \in stopped : Range(table'[s]) = {}
      BY <1>8 DEF Range
    <3> QED
      BY <1>10, <1>13, <3>1
  <2>2. \A s \in Seqs \ (live[g] \cup running) : table'[s] = table[s]
    BY <1>1, <1>8 DEF running
  <2>3. \A s \in live[g] \ running : table'[s] = <<>>
    BY <1>8, <1>10
  <2> QED
    BY <1>2, <1>8, <1>10, <1>11, <1>12, <2>1, <2>2, <2>3 DEF Concerns, BaseInv, BlocksTypeOK
<1>15. GroupInv(g)'
  <2>1. Written(g)' = {}
    BY <1>11 DEF Written
  <2>2. CASE running = {}
    <3>1. AnyKind \in Kinds
      BY GroupsAssumption DEF AnyKind
    <3>2. AnyKind.bestOf \in Nat /\ Cardinality(running) = 0
      BY <1>5, <2>2, <3>1, GroupsAssumption DEF running
    <3> QED
      BY <1>11, <2>1, <2>2, <3>2 DEF GroupInv
  <2>3. CASE running # {}
    <3>1. \A s \in live[g] : /\ Len(table[s]) = BlocksFor(tokens[g])
                            /\ table[s] \in Seq(GpuBlocks)
      BY <1>2, <1>3 DEF GroupInv, Written
    <3>2. \A s \in running : /\ Len(table'[s]) = BlocksFor(tokens[g])
                            /\ table'[s] \in Seq(GpuBlocks)
      BY <1>13, <3>1
    <3>3. tokens'[g] = tokens[g] + 1 /\ tokens'[g] - 1 = tokens[g] /\ tokens'[g] >= 1
      BY <1>3, <1>11, <2>3
    <3>4. BlocksFor(tokens[g] - 1)' = BlocksFor(tokens[g])
      BY <3>3 DEF BlocksFor
    <3>5. Cardinality(live'[g]) <= kind'[g].bestOf
      BY <1>6, <1>11, <2>3
    <3>6. phase'[g] = "ready" /\ live'[g] = running /\ ended'[g] = 0
      BY <1>11, <2>3
    <3> QED
      BY <2>1, <2>3, <3>2, <3>3, <3>4, <3>5, <3>6 DEF GroupInv
  <2> QED
    BY <2>2, <2>3
<1>16. PendingInv'
  BY <1>2, <1>11, NobodyAppends
<1> QED
  BY <1>2, <1>8, <1>14, <1>15, <1>16, ConcernsKeepsBase

\* A group of which only a chunk was computed is scheduled again.
LEMMA PartialKeepsBase ==
    ASSUME GreedyOrBeam, BaseInv, NEW g \in Executing, stage = "process",
           SetPhase(g, "ready"), UNCHANGED blockVars, pending' = pending,
           stage' \in {"schedule", "process"}
    PROVE  BaseInv'
<1>1. /\ g \in Groups /\ phase[g] \in {"prefilling", "decoding"}
      /\ pending = {} /\ pending' = {}
  BY DEF Executing, In, BaseInv, PendingInv
<1>2. GroupInv(g) /\ live[g] \subseteq Seqs /\ live[g] # {}
  BY <1>1, GroupFacts DEF GroupInv
<1>3. /\ ManagerInv' /\ raised' = raised /\ table' = table
  BY DEF blockVars, BaseInv, ManagerInv, PoolExact, RefCountsExact, FreeListExact, Holders
<1>4. /\ GroupsTypeOK(Phases)' /\ phase'[g] = "ready"
      /\ tokens' = tokens /\ live' = live /\ ended' = ended /\ kind' = kind
      /\ \A h \in Groups \ {g} : phase'[h] = phase[h]
  BY <1>1, SetPhaseFacts DEF Phases
<1>5. Concerns(g)
  BY <1>1, <1>2, <1>3, <1>4 DEF Concerns, BaseInv, BlocksTypeOK
<1>6. GroupInv(g)'
  <2>1. Written(g)' = {}
        /\ BlocksFor(tokens[g])' = BlocksFor(tokens[g])
        /\ BlocksFor(tokens[g] - 1)' = BlocksFor(tokens[g] - 1)
    BY <1>4 DEF Written, BlocksFor
  <2> QED
    BY <1>1, <1>2, <1>3, <1>4, <2>1 DEF GroupInv
<1>7. PendingInv'
  BY <1>1, <1>4, NobodyAppends
<1> QED
  BY <1>1, <1>3, <1>5, <1>6, <1>7, ConcernsKeepsBase

-----------------------------------------------------------------------------
\* Every step of the default schedule keeps the shared invariant.
LEMMA DefaultStep ==
    ASSUME GreedyOrBeam, BaseInv, [Next]_vars
    PROVE  BaseInv'
<1>1. Scheduling => pending = {} /\ raised = "no"
  BY DEF Scheduling
<1>2. ASSUME NEW g \in Groups, AddRequest(g) PROVE BaseInv'
  BY <1>1, <1>2, ArriveKeepsBase DEF AddRequest, BetweenTicks
<1>3. ASSUME NEW g \in Groups, AbortRequest(g) PROVE BaseInv'
  BY <1>1, <1>3, LeaveKeepsBase DEF AbortRequest, BetweenTicks
<1>4. ASSUME NEW g \in Groups, SchedulePrefill(g) PROVE BaseInv'
  BY <1>1, <1>4, AllocateKeepsBase DEF SchedulePrefill, PrefillPass
<1>5. ASSUME NEW g \in Groups, IgnorePrompt(g) PROVE BaseInv'
  BY <1>1, <1>5, IgnoreKeepsBase DEF IgnorePrompt, PrefillPass
<1>6. ASSUME NEW g \in Groups, ScheduleRunning(g) PROVE BaseInv'
  BY <1>6, StartAppendKeepsBase DEF ScheduleRunning, RunningPass
<1>7. ASSUME NEW g \in Groups, PreemptVictim(g) PROVE BaseInv'
  BY <1>7, PreemptKeepsBase DEF PreemptVictim, Victim, RunningPass
<1>8. ASSUME NEW g \in Groups, ScheduleSwapped(g) PROVE BaseInv'
  BY <1>8, SwapInKeepsBase DEF ScheduleSwapped, RunningPass
<1>9. ASSUME NEW g \in Groups, Returned(g) PROVE BaseInv'
  BY <1>9, ReturnedKeepsBase
<1>10. ASSUME NEW g \in Groups, ProcessOutput(g) PROVE BaseInv'
  BY <1>10, SampleKeepsBase DEF ProcessOutput
<1>11. ASSUME NEW s \in Seqs, AppendSlot(s) PROVE BaseInv'
  BY <1>11, AppendSlotKeepsBase
<1>12. ASSUME ExecuteModel PROVE BaseInv'
  <2>1. /\ UNCHANGED <<table, ref, free, groupVars, pending>> /\ raised' = raised
        /\ stage' \in {"schedule", "process"} /\ pending = {}
    BY <1>1, <1>12 DEF ExecuteModel, blockVars
  <2>2. raised \in Raised /\ ChecksSuffice
    BY DEF BaseInv, BlocksTypeOK
  <2>3. ChecksSuffice'
    BY <2>1, <2>2 DEF ChecksSuffice
  <2> QED
    BY <2>1, <2>2, <2>3, StutterKeepsBase
<1>13. ASSUME UNCHANGED vars PROVE BaseInv'
  <2>1. /\ UNCHANGED <<table, ref, free, groupVars, pending>> /\ raised' = raised
        /\ stage' = stage
    BY <1>13 DEF vars, blockVars
  <2>2. /\ raised \in Raised /\ ChecksSuffice
        /\ stage \in {"schedule", "squeezed", "process"}
        /\ stage = "process" => pending = {}
    BY DEF BaseInv, BlocksTypeOK, PendingInv
  <2>3. ChecksSuffice'
    BY <2>1, <2>2 DEF ChecksSuffice
  <2> QED
    BY <2>1, <2>2, <2>3, StutterKeepsBase
<1> QED
  BY <1>2, <1>3, <1>4, <1>5, <1>6, <1>7, <1>8, <1>9, <1>10, <1>11, <1>12, <1>13
     DEF Next

-----------------------------------------------------------------------------
\* The chunked schedule: the groups it has on the GPU, and their places.
Running == Scheduled \cup In("ready")
PlacesOf(k, G) == UNION {{g} \X (1 .. k[g].bestOf) : g \in G}

LEMMA RunningIs ==
    /\ Running \subseteq Groups /\ Scheduled \subseteq Running
    /\ \A g \in Groups : BaseInv =>
          (g \in Running <=> phase[g] \notin {"idle", "waiting", "swapped"})
<1>1. Running \subseteq Groups /\ Scheduled \subseteq Running
  BY DEF Running, Scheduled, In
<1>2. ASSUME NEW g \in Groups, BaseInv
      PROVE  g \in Running <=> phase[g] \notin {"idle", "waiting", "swapped"}
  <2>1. phase[g] \in Phases
    BY <1>2, GroupFacts
  <2> QED
    BY <2>1 DEF Running, Scheduled, In, Phases
<1> QED
  BY <1>1, <1>2

LEMMA PlacesFinite ==
    ASSUME NEW k \in [Groups -> Kinds], NEW G \in SUBSET Groups
    PROVE  /\ IsFiniteSet(PlacesOf(k, G)) /\ Cardinality(PlacesOf(k, G)) \in Nat
           /\ \A g \in G : /\ IsFiniteSet({g} \X (1 .. k[g].bestOf))
                          /\ Cardinality({g} \X (1 .. k[g].bestOf)) = k[g].bestOf
<1> DEFINE row == [g \in G |-> {g} \X (1 .. k[g].bestOf)]
           rows == {row[g] : g \in G}
<1>1. ASSUME NEW g \in G
      PROVE  /\ IsFiniteSet({g} \X (1 .. k[g].bestOf))
             /\ Cardinality({g} \X (1 .. k[g].bestOf)) = k[g].bestOf
  <2> DEFINE n == k[g].bestOf
  <2>1. n \in Nat \ {0}
    BY GroupsAssumption
  <2> HIDE DEF n
  <2>2. IsFiniteSet(1 .. n) /\ Cardinality(1 .. n) = n
    BY <2>1, FS_Interval
  <2>3. IsFiniteSet({g}) /\ Cardinality({g}) = 1
    BY FS_Singleton
  <2>4. IsFiniteSet({g} \X (1 .. n)) /\ Cardinality({g} \X (1 .. n)) = 1 * n
    <3> DEFINE A == {g}
               B == 1 .. n
    <3>1. IsFiniteSet(A) /\ IsFiniteSet(B) /\ Cardinality(A) = 1 /\ Cardinality(B) = n
      BY <2>2, <2>3
    <3> HIDE DEF A, B
    <3>2. IsFiniteSet(A \X B) /\ Cardinality(A \X B) = Cardinality(A) * Cardinality(B)
      BY <3>1, FS_Product, Zenon
    <3>3. IsFiniteSet(A \X B) /\ Cardinality(A \X B) = 1 * n
      BY <3>1, <3>2, Zenon
    <3> QED
      BY <3>3, Zenon DEF A, B
  <2>5. 1 * n = n
    BY <2>1
  <2>6. IsFiniteSet({g} \X (1 .. n)) /\ Cardinality({g} \X (1 .. n)) = n
    BY <2>4, <2>5, Zenon
  <2> QED
    BY <2>6, Zenon DEF n
<1>2. IsFiniteSet(G)
  BY GroupsAssumption, FS_Subset
<1>3. row \in Surjection(G, rows)
  BY DEF Surjection
<1>4. IsFiniteSet(rows)
  BY <1>2, <1>3, FS_Surjection
<1>5. \A T \in rows : IsFiniteSet(T)
  BY <1>1
<1>6. IsFiniteSet(UNION rows)
  BY <1>4, <1>5, FS_UNION
<1>7. UNION rows = PlacesOf(k, G)
  BY DEF PlacesOf
<1> QED
  BY <1>1, <1>6, <1>7, FS_CardinalityType

\* A group's places are its best_of, in this state and in the next.
LEMMA PlacesAre ==
    /\ GreedyOrBeam /\ BaseInv => Places(Running) = PlacesOf(kind, Running)
                                  /\ Seats = Cardinality(PlacesOf(kind, Scheduled))
    /\ GreedyOrBeam /\ BaseInv' => Places(Running)' = PlacesOf(kind', Running')
<1>1. ASSUME GreedyOrBeam, BaseInv
      PROVE  /\ Places(Running) = PlacesOf(kind, Running)
             /\ Seats = Cardinality(PlacesOf(kind, Scheduled))
  <2>1. \A g \in Groups : MaxRunningSeqs(g) = kind[g].bestOf
    BY <1>1, RunningSeqs
  <2> QED
    BY <2>1, RunningIs DEF Places, PlacesOf, Seats
<1>2. ASSUME GreedyOrBeam, BaseInv'
      PROVE  Places(Running)' = PlacesOf(kind', Running')
  <2>1. ASSUME NEW g \in Groups PROVE MaxRunningSeqs(g)' = kind'[g].bestOf
    <3>1. /\ GroupInv(g)' /\ live'[g] \subseteq Seqs /\ kind'[g] \in Kinds
      BY <1>2 DEF BaseInv, BlocksTypeOK, GroupsTypeOK
    <3>2. IsFiniteSet(live'[g]) /\ Cardinality(live'[g]) \in Nat
      BY <3>1, DevicesAssumption, FS_Subset, FS_CardinalityType
    <3>3. ended'[g] = 0 /\ Cardinality(live'[g]) <= kind'[g].bestOf
      BY <3>1 DEF GroupInv
    <3>4. kind'[g].bestOf \in Nat \ {0} /\ (kind'[g].beam \/ kind'[g].bestOf = 1)
      BY <1>2, <3>1, GroupsAssumption DEF GreedyOrBeam
    <3> QED
      BY <3>2, <3>3, <3>4 DEF MaxRunningSeqs, NumSeqs
  <2>2. Running' \subseteq Groups
    BY DEF Running, Scheduled, In
  <2> QED
    BY <2>1, <2>2 DEF Places, PlacesOf
<1> QED
  BY <1>1, <1>2

\* The groups on the GPU fit max_num_seqs after a step that takes none there,
\* and after one that takes a group there for which the budget had places.
RoomFor == Cardinality(Places(Running)) <= MaxNumSeqs

LEMMA RoomStays ==
    ASSUME GreedyOrBeam, BaseInv, BaseInv', RoomFor,
           \A h \in Running' : h \in Running /\ kind'[h] = kind[h]
    PROVE  RoomFor'
<1>1. Running \subseteq Groups /\ kind \in [Groups -> Kinds]
  BY RunningIs DEF BaseInv, BlocksTypeOK, GroupsTypeOK
<1>2. PlacesOf(kind', Running') \subseteq PlacesOf(kind, Running)
  BY DEF PlacesOf
<1>3. IsFiniteSet(PlacesOf(kind, Running)) /\ Cardinality(PlacesOf(kind, Running)) \in Nat
  BY <1>1, PlacesFinite
<1>4. /\ Cardinality(PlacesOf(kind', Running')) <= Cardinality(PlacesOf(kind, Running))
      /\ Cardinality(PlacesOf(kind', Running')) \in Nat
  BY <1>2, <1>3, FS_Subset, FS_CardinalityType
<1>5. Cardinality(PlacesOf(kind, Running)) <= MaxNumSeqs
  BY PlacesAre DEF RoomFor
<1>6. Places(Running)' = PlacesOf(kind', Running')
  BY PlacesAre
<1>7. MaxNumSeqs \in Nat
  BY BudgetAssumption
<1>8. Cardinality(PlacesOf(kind', Running')) <= MaxNumSeqs
  BY <1>3, <1>4, <1>5, <1>7
<1> QED
  BY <1>6, <1>8 DEF RoomFor

LEMMA RoomTaken ==
    ASSUME GreedyOrBeam, BaseInv, BaseInv', In("ready") = {},
           NEW g \in Groups, NEW n, CanSchedule(g, n), g \notin Running, kind' = kind,
           \A h \in Running' : h \in Running \/ h = g
    PROVE  RoomFor'
<1> DEFINE P == PlacesOf(kind, Scheduled)
           Q == {g} \X (1 .. kind[g].bestOf)
<1>1. /\ Running = Scheduled /\ Scheduled \subseteq Groups
      /\ kind \in [Groups -> Kinds]
  BY RunningIs DEF Running, BaseInv, BlocksTypeOK, GroupsTypeOK
<1>2. PlacesOf(kind', Running') \subseteq P \cup Q
  BY <1>1 DEF PlacesOf
<1>3. P \cap Q = {}
  BY <1>1 DEF PlacesOf
<1>4. IsFiniteSet(P) /\ IsFiniteSet(Q) /\ Cardinality(Q) = kind[g].bestOf
  BY <1>1, PlacesFinite
<1>5. Cardinality(P) + kind[g].bestOf <= MaxNumSeqs
  BY RunningSeqs, PlacesAre DEF CanSchedule
<1>6. Places(Running)' = PlacesOf(kind', Running')
  BY PlacesAre
<1> HIDE DEF P, Q
<1>7. IsFiniteSet(P \cup Q) /\ Cardinality(P \cup Q) <= MaxNumSeqs
      /\ Cardinality(P \cup Q) \in Nat
  BY <1>3, <1>4, <1>5, DisjointUnion, FS_CardinalityType
<1>8. /\ Cardinality(PlacesOf(kind', Running')) <= Cardinality(P \cup Q)
      /\ Cardinality(PlacesOf(kind', Running')) \in Nat
  BY <1>2, <1>7, FS_Subset, FS_CardinalityType
<1>9. MaxNumSeqs \in Nat
  BY BudgetAssumption
<1>10. Cardinality(PlacesOf(kind', Running')) <= MaxNumSeqs
  BY <1>7, <1>8, <1>9
<1> QED
  BY <1>6, <1>10 DEF RoomFor

-----------------------------------------------------------------------------
\* What the chunked schedule adds to the shared invariant.
Tidy == ChunkedTypeOK /\ QueuesInv /\ \A g \in Groups : ChunkInv(g)

\* A step of the chunked schedule that touches the group g only: what it is
\* left with is consistent, and so are its entries in the queues.
Touches(g) ==
    /\ chunked' = chunked
    /\ \A h \in Groups \ {g} :
          /\ phase'[h] = phase[h] /\ tokens'[h] = tokens[h]
          /\ live'[h] = live[h] /\ kind'[h] = kind[h]
          /\ computed'[h] = computed[h] /\ chunk'[h] = chunk[h]
          /\ h \in decode' <=> h \in decode
    /\ stage' = "process" => stage = "process"
    /\ raised' = "no" => raised = "no"
    /\ computed' \in [Groups -> 0 .. MaxLen] /\ decode' \subseteq Groups
    /\ chunk' \in [Groups -> Int] /\ spent' \in Int

QueuesTouched(g) ==
    /\ arrived' \in Seq(Groups) /\ IsInjective(arrived')
    /\ Range(arrived') \ {g} = Range(arrived) \ {g}
    /\ phase'[g] # "idle" <=> g \in Range(arrived')
    /\ queue' \in Seq(Groups) /\ IsInjective(queue')
    /\ Range(queue') \ {g} \subseteq Range(queue)
    /\ g \in Range(queue') => phase'[g] = "waiting"

LEMMA TouchesKeepsTidy ==
    ASSUME BaseInv', Tidy, NEW g \in Groups, Touches(g), QueuesTouched(g),
           RoomFor', ChunkInv(g)'
    PROVE  Tidy'
<1>1. ChunkedTypeOK'
  BY DEF BaseInv, Tidy, ChunkedTypeOK, Touches, QueuesTouched
<1>2. ASSUME NEW h \in Groups PROVE ChunkInv(h)'
  <2>1. CASE h = g
    BY <2>1
  <2>2. CASE h # g
    <3>1. ChunkInv(h)
      BY DEF Tidy
    <3>2. /\ phase'[h] = phase[h] /\ tokens'[h] = tokens[h] /\ live'[h] = live[h]
          /\ computed'[h] = computed[h] /\ chunk'[h] = chunk[h]
          /\ h \in decode' <=> h \in decode
          /\ stage' = "process" => stage = "process"
          /\ raised' = "no" => raised = "no"
      BY <2>2 DEF Touches
    <3>3. /\ h \in Scheduled' <=> h \in Scheduled
          /\ h \in Executing' <=> h \in Executing
      BY <3>2 DEF Scheduled, Executing, In
    <3> QED
      BY <3>1, <3>2, <3>3 DEF ChunkInv
  <2> QED
    BY <2>1, <2>2
<1>3. QueuesInv'
  <2>1. \A h \in Groups : phase'[h] # "idle" <=> h \in Range(arrived')
    BY DEF Tidy, QueuesInv, Touches, QueuesTouched
  <2>2. Range(queue') \subseteq Groups
    BY RangeOfSeq DEF QueuesTouched
  <2>3. \A h \in Range(queue') : phase'[h] = "waiting"
    BY <2>2 DEF Tidy, QueuesInv, Touches, QueuesTouched
  <2> QED
    BY <2>1, <2>3 DEF QueuesInv, RoomFor, Running
<1> QED
  BY <1>1, <1>2, <1>3 DEF Tidy

\* The queues a step leaves as they are, and those it drops the group from.
LEMMA QueuesStay ==
    ASSUME Tidy, NEW g \in Groups, UNCHANGED orderVars,
           phase[g] # "idle", phase'[g] # "idle",
           phase[g] # "waiting" \/ phase'[g] = "waiting"
    PROVE  QueuesTouched(g)
BY DEF Tidy, ChunkedTypeOK, QueuesInv, QueuesTouched, orderVars

LEMMA RangeIsToSet == ASSUME NEW f PROVE Range(f) = ToSet(f)
BY DEF Range, ToSet

LEMMA DropTouches ==
    ASSUME Tidy, NEW g \in Groups, Drop(g), phase'[g] = "idle"
    PROVE  /\ QueuesTouched(g)
           /\ computed' = [computed EXCEPT ![g] = 0] /\ decode' = decode \ {g}
<1>1. arrived \in Seq(Groups) /\ queue \in Seq(Groups)
  BY DEF Tidy, ChunkedTypeOK
<1>2. /\ arrived' \in Seq(Groups) /\ IsInjective(arrived')
      /\ ToSet(arrived') = ToSet(arrived) \cap (Groups \ {g})
  BY <1>1, FilteredFacts DEF Drop
<1>3. /\ queue' \in Seq(Groups) /\ IsInjective(queue')
      /\ ToSet(queue') = ToSet(queue) \cap (Groups \ {g})
  BY <1>1, FilteredFacts DEF Drop
<1>4. ToSet(arrived) \subseteq Groups /\ ToSet(queue) \subseteq Groups
  BY <1>1, RangeOfSeq, RangeIsToSet
<1>5. /\ Range(arrived) = ToSet(arrived) /\ Range(queue) = ToSet(queue)
      /\ Range(arrived') = ToSet(arrived') /\ Range(queue') = ToSet(queue')
  BY RangeIsToSet
<1> QED
  BY <1>2, <1>3, <1>4, <1>5 DEF QueuesTouched, Drop

-----------------------------------------------------------------------------
\* What a chunk is charged with: at most what the group has not computed yet.
LEMMA ChunkFacts ==
    ASSUME BaseInv, Tidy, NEW g \in Groups
    PROVE  /\ ChunkInv(g) /\ computed[g] \in Nat /\ computed[g] \in 0 .. MaxLen
           /\ chunk[g] \in Int /\ spent \in Int /\ NewTokens(g) \in Int
           /\ \A n \in Int : Cut(n) \in Int /\ Cut(n) <= n
           /\ g \notin decode => NewTokens(g) = tokens[g] - computed[g]
           /\ NewChunk(g) \in Int
           /\ g \notin decode /\ phase[g] # "idle" =>
                  NewChunk(g) <= tokens[g] - computed[g]
<1>1. /\ ChunkInv(g) /\ computed[g] \in Nat /\ computed[g] \in 0 .. MaxLen
      /\ chunk[g] \in Int /\ spent \in Int /\ TokenBudget \in Int
  <2>1. computed[g] \in 0 .. MaxLen /\ chunk[g] \in Int /\ spent \in Int
    BY DEF Tidy, ChunkedTypeOK
  <2> QED
    BY <2>1, GroupFacts, BudgetAssumption DEF Tidy
<1>2. /\ tokens[g] \in Nat /\ Cardinality(live[g]) \in Nat
      /\ Cardinality(live[g]) = 0 <=> live[g] = {}
      /\ phase[g] = "idle" <=> live[g] = {}
  BY GroupFacts DEF GroupInv
<1>3. \A n \in Int : Cut(n) \in Int /\ Cut(n) <= n
  BY <1>1 DEF Cut
<1>4. NewTokens(g) \in Int
  BY <1>1, <1>2 DEF NewTokens
<1>5. g \notin decode => NewTokens(g) = tokens[g] - computed[g]
  BY DEF NewTokens
<1>6. NewChunk(g) \in Int /\ (Cardinality(live[g]) = 1 => NewChunk(g) <= NewTokens(g))
  BY <1>3, <1>4 DEF NewChunk
<1>7. g \notin decode /\ phase[g] # "idle" => Cardinality(live[g]) = 1
  BY <1>1, <1>2 DEF ChunkInv
<1> QED
  BY <1>1, <1>3, <1>4, <1>5, <1>6, <1>7

LEMMA ChargeFacts ==
    ASSUME BaseInv, Tidy, NEW g \in Groups, NEW n \in Int, Charge(g, n),
           phase[g] # "idle", g \notin decode => n <= tokens[g] - computed[g]
    PROVE  /\ chunk' \in [Groups -> Int] /\ spent' \in Int
           /\ \A h \in Groups \ {g} : chunk'[h] = chunk[h]
           /\ computed[g] + chunk'[g] <= tokens[g]
<1>1. /\ ChunkInv(g) /\ computed[g] \in Nat /\ spent \in Int /\ tokens[g] \in Nat
      /\ chunk \in [Groups -> Int]
  BY ChunkFacts, GroupFacts DEF Tidy, ChunkedTypeOK
<1>2. chunk'[g] = (IF g \in decode THEN 1 ELSE n)
  BY <1>1 DEF Charge
<1>3. computed[g] + chunk'[g] <= tokens[g]
  BY <1>1, <1>2 DEF ChunkInv
<1> QED
  BY <1>1, <1>3 DEF Charge

\* A group that stays off `waiting` keeps its count; the model does not run.
LEMMA GoesOn ==
    ASSUME Tidy, NEW g \in Groups, phase[g] # "idle", phase'[g] \notin {"idle", "waiting"},
           tokens'[g] = tokens[g], live'[g] = live[g], UNCHANGED <<computed, decode>>,
           g \in Scheduled' => computed[g] + chunk'[g] <= tokens[g],
           stage' # "process"
    PROVE  ChunkInv(g)'
BY DEF Tidy, ChunkInv

LEMMA ArriveKeepsTidy ==
    ASSUME GreedyOrBeam, BaseInv, BaseInv', Tidy, NEW g \in Groups, ArriveChunked(g),
           chunked' = chunked
    PROVE  Tidy'
<1>1. PICK s \in Fresh, n \in PromptLens, k \in Kinds :
         /\ live' = [live EXCEPT ![g] = {s}]
         /\ tokens' = [tokens EXCEPT ![g] = n]
         /\ kind' = [kind EXCEPT ![g] = k]
  BY DEF ArriveChunked, AddRequest, Arrive
<1>2. /\ phase[g] = "idle" /\ phase' = [phase EXCEPT ![g] = "waiting"]
      /\ raised' = raised /\ stage' = stage /\ stage # "process"
      /\ UNCHANGED chunkVars
      /\ arrived' = Append(arrived, g) /\ queue' = Append(queue, g)
  BY DEF ArriveChunked, AddRequest, Arrive, blockVars, BetweenTicks
<1>3. /\ phase'[g] = "waiting" /\ tokens'[g] = n /\ live'[g] = {s}
      /\ \A h \in Groups \ {g} :
          /\ phase'[h] = phase[h] /\ tokens'[h] = tokens[h]
          /\ live'[h] = live[h] /\ kind'[h] = kind[h]
  BY <1>1, <1>2 DEF BaseInv, BlocksTypeOK, GroupsTypeOK
<1>4. Touches(g)
  BY <1>2, <1>3 DEF Touches, Tidy, ChunkedTypeOK, chunkVars
<1>5. QueuesTouched(g)
  <2>1. /\ arrived \in Seq(Groups) /\ IsInjective(arrived) /\ g \notin ToSet(arrived)
        /\ queue \in Seq(Groups) /\ IsInjective(queue) /\ g \notin ToSet(queue)
    BY <1>2, RangeIsToSet DEF Tidy, ChunkedTypeOK, QueuesInv
  <2>2. ASSUME NEW q \in Seq(Groups), IsInjective(q), g \notin ToSet(q)
        PROVE  /\ Append(q, g) \in Seq(Groups) /\ IsInjective(Append(q, g))
               /\ ToSet(Append(q, g)) = ToSet(q) \cup {g}
    <3>1. <<g>> \in Seq(Groups) /\ ToSet(<<g>>) = {g} /\ IsInjective(<<g>>)
      BY DEF ToSet, IsInjective
    <3>2. Append(q, g) = q \o <<g>>
      BY AppendIsConcat
    <3>3. IsInjective(q \o <<g>>)
      <4> DEFINE t == <<g>>
      <4>1. t \in Seq(Groups) /\ IsInjective(t) /\ ToSet(q) \cap ToSet(t) = {}
        BY <2>2, <3>1
      <4> HIDE DEF t
      <4>2. IsInjective(q \o t)
        BY <2>2, <4>1, ConcatInjective
      <4> QED
        BY <4>2 DEF t
    <3>4. Append(q, g) \in Seq(Groups) /\ ToSet(Append(q, g)) = ToSet(q) \cup {g}
      BY AppendElems
    <3> QED
      BY <3>2, <3>3, <3>4, Zenon
  <2>3. /\ arrived' \in Seq(Groups) /\ IsInjective(arrived')
        /\ Range(arrived') = Range(arrived) \cup {g}
        /\ queue' \in Seq(Groups) /\ IsInjective(queue')
        /\ Range(queue') = Range(queue) \cup {g}
    BY <1>2, <2>1, <2>2, RangeIsToSet
  <2> QED
    BY <1>3, <2>3 DEF QueuesTouched
<1>6. RoomFor'
  <2>1. RoomFor
    BY DEF Tidy, QueuesInv, RoomFor, Running
  <2>2. \A h \in Running' : h \in Running /\ kind'[h] = kind[h]
    BY <1>3 DEF Running, Scheduled, In
  <2> QED
    BY <2>1, <2>2, RoomStays
<1>7. ChunkInv(g)'
  <2>1. /\ computed[g] = 0 /\ g \notin decode /\ UNCHANGED <<computed, decode>>
        /\ n >= 1 /\ Cardinality({s}) = 1
    <3>1. computed[g] = 0 /\ g \notin decode
      BY <1>2 DEF Tidy, ChunkInv
    <3>2. n >= 1 /\ Cardinality({s}) = 1
      <4>1. n \in 1 .. MaxLen
        BY GroupsAssumption, Zenon
      <4>2. n >= 1
        BY <4>1, GroupsAssumption
      <4> QED
        BY <4>2, FS_Singleton
    <3> QED
      BY <1>2, <3>1, <3>2 DEF chunkVars
  <2>2. g \notin Scheduled' /\ g \notin Executing'
    BY <1>3 DEF Scheduled, Executing, In
  <2> QED
    BY <1>3, <2>1, <2>2, GroupsAssumption DEF ChunkInv
<1> QED
  BY <1>4, <1>5, <1>6, <1>7, TouchesKeepsTidy

\* A group that goes, aborted or refused.
LEMMA FinishKeepsTidy ==
    ASSUME GreedyOrBeam, BaseInv, BaseInv', Tidy, NEW g \in Groups, Retire(g), Drop(g),
           UNCHANGED <<chunked, chunk, spent, stage, raised>>
    PROVE  Tidy'
<1>1. /\ phase'[g] = "idle" /\ live'[g] = {}
      /\ \A h \in Groups \ {g} :
          /\ phase'[h] = phase[h] /\ tokens'[h] = tokens[h]
          /\ live'[h] = live[h] /\ kind'[h] = kind[h]
  BY DEF Retire, BaseInv, BlocksTypeOK, GroupsTypeOK
<1>2. /\ QueuesTouched(g)
      /\ computed' = [computed EXCEPT ![g] = 0] /\ decode' = decode \ {g}
  BY <1>1, DropTouches
<1>3. /\ computed' \in [Groups -> 0 .. MaxLen] /\ computed'[g] = 0
      /\ \A h \in Groups \ {g} : computed'[h] = computed[h]
  <2>1. computed \in [Groups -> 0 .. MaxLen] /\ 0 \in 0 .. MaxLen
    BY GroupsAssumption DEF Tidy, ChunkedTypeOK
  <2> QED
    BY <1>2, <2>1
<1>4. Touches(g)
  BY <1>1, <1>2, <1>3 DEF Touches, Tidy, ChunkedTypeOK
<1>5. RoomFor'
  <2>1. RoomFor
    BY DEF Tidy, QueuesInv, RoomFor, Running
  <2>2. \A h \in Running' : h \in Running /\ kind'[h] = kind[h]
    BY <1>1 DEF Running, Scheduled, In
  <2> QED
    BY <2>1, <2>2, RoomStays
<1>6. ChunkInv(g)'
  <2>1. g \notin Scheduled' /\ g \notin Executing' /\ Cardinality(live'[g]) = 0
    BY <1>1, FS_EmptySet DEF Scheduled, Executing, In
  <2> QED
    BY <1>1, <1>2, <1>3, <2>1 DEF ChunkInv
<1> QED
  BY <1>2, <1>4, <1>5, <1>6, TouchesKeepsTidy

\* A step that leaves groups and queues alone, though it may raise.
LEMMA SameKeepsTidy ==
    ASSUME GreedyOrBeam, BaseInv, BaseInv', Tidy,
           UNCHANGED <<chunked, groupVars, orderVars, computed, decode, chunk>>,
           spent' \in Int, stage' = "process" => stage = "process",
           raised' = "no" => raised = "no"
    PROVE  Tidy'
<1>1. ChunkedTypeOK'
  BY DEF BaseInv, Tidy, ChunkedTypeOK, orderVars
<1>2. /\ In("prefilling")' = In("prefilling") /\ In("appending")' = In("appending")
      /\ In("returning")' = In("returning") /\ In("decoding")' = In("decoding")
      /\ In("ready")' = In("ready")
  BY DEF In, groupVars
<1>3. ASSUME NEW g \in Groups PROVE ChunkInv(g)'
  <2>1. ChunkInv(g)
    BY DEF Tidy
  <2> QED
    BY <1>2, <2>1 DEF ChunkInv, Scheduled, Executing, groupVars
<1>4. QueuesInv'
  <2>1. \A h \in Running' : h \in Running /\ kind'[h] = kind[h]
    BY <1>2 DEF Running, Scheduled, groupVars
  <2>2. RoomFor'
    BY <2>1, RoomStays DEF Tidy, QueuesInv, RoomFor, Running
  <2> QED
    BY <2>2 DEF Tidy, QueuesInv, RoomFor, Running, groupVars, orderVars
<1> QED
  BY <1>1, <1>3, <1>4 DEF Tidy

\* A step that moves one group between its phases off `waiting`.
LEMMA MovesKeepsTidy ==
    ASSUME GreedyOrBeam, BaseInv, BaseInv', Tidy, NEW g \in Groups,
           NEW p \in Phases \ {"idle", "waiting"}, SetPhase(g, p),
           phase[g] \notin {"idle", "waiting"},
           UNCHANGED <<chunked, orderVars, computed, decode>>,
           chunk' \in [Groups -> Int], spent' \in Int,
           \A h \in Groups \ {g} : chunk'[h] = chunk[h],
           p \notin {"ready", "swapped"} => computed[g] + chunk'[g] <= tokens[g],
           stage' # "process", raised = "no", RoomFor'
    PROVE  Tidy'
<1>1. /\ phase'[g] = p
      /\ tokens' = tokens /\ live' = live /\ ended' = ended /\ kind' = kind
      /\ \A h \in Groups \ {g} : phase'[h] = phase[h]
  BY SetPhaseFacts
<1>2. Touches(g)
  BY <1>1 DEF Touches, Tidy, ChunkedTypeOK
<1>3. QueuesTouched(g)
  BY <1>1, QueuesStay
<1>4. ChunkInv(g)'
  <2>1. g \in Scheduled' => p \notin {"ready", "swapped"}
    BY <1>1 DEF Scheduled, In
  <2> QED
    BY <1>1, <2>1, GoesOn
<1> QED
  BY <1>2, <1>3, <1>4, TouchesKeepsTidy

LEMMA RoomWhileMoving ==
    ASSUME GreedyOrBeam, BaseInv, BaseInv', Tidy, NEW g \in Groups,
           phase[g] \notin {"idle", "waiting", "swapped"},
           \A h \in Groups \ {g} : phase'[h] = phase[h] /\ kind'[h] = kind[h],
           phase'[g] \notin {"idle", "waiting", "swapped"} => kind'[g] = kind[g]
    PROVE  RoomFor'
<1>1. g \in Running
  BY RunningIs
<1>2. \A h \in Running' : h \in Running /\ kind'[h] = kind[h]
  BY <1>1 DEF Running, Scheduled, In
<1> QED
  BY <1>2, RoomStays DEF Tidy, QueuesInv, RoomFor, Running

LEMMA RunKeepsTidy ==
    ASSUME GreedyOrBeam, BaseInv, BaseInv', Tidy, NEW g \in Groups, RunChunk(g),
           chunked' = chunked
    PROVE  Tidy'
<1>1. /\ phase[g] = "ready" /\ stage # "process" /\ raised = "no" /\ stage' = stage
      /\ UNCHANGED <<orderVars, computed, decode>>
  BY DEF RunChunk, Visited, RunningPass, Scheduling, IsFirst, In
<1>2. CASE NewChunk(g) = 0
  <2>1. /\ UNCHANGED <<groupVars, chunk, spent>> /\ spent \in Int
    BY <1>2 DEF RunChunk, Tidy, ChunkedTypeOK
  <2> QED
    BY <1>1, <2>1, SameKeepsTidy
<1>3. CASE NewChunk(g) # 0
  <2>1. /\ SetPhase(g, "appending") /\ Charge(g, NewChunk(g))
    BY <1>3 DEF RunChunk, StartAppend
  <2>2. /\ chunk' \in [Groups -> Int] /\ spent' \in Int
        /\ \A h \in Groups \ {g} : chunk'[h] = chunk[h]
        /\ computed[g] + chunk'[g] <= tokens[g]
    BY <1>1, <2>1, ChunkFacts, ChargeFacts
  <2>3. RoomFor'
    BY <1>1, <2>1, SetPhaseFacts, RoomWhileMoving DEF Phases
  <2>4. "appending" \in Phases \ {"idle", "waiting"}
    BY DEF Phases
  <2> QED
    BY <1>1, <2>1, <2>2, <2>3, <2>4, MovesKeepsTidy
<1> QED
  BY <1>2, <1>3

LEMMA AppendKeepsTidy ==
    ASSUME GreedyOrBeam, BaseInv, BaseInv', Tidy, NEW s, AppendChunked(s),
           chunked' = chunked
    PROVE  Tidy'
<1>1. /\ UNCHANGED <<orderVars, computed, decode, chunk, spent>> /\ stage' = stage
      /\ stage # "process" /\ raised = "no" /\ spent \in Int
      /\ chunk \in [Groups -> Int]
  BY DEF AppendChunked, AppendSlot, chunkVars, BaseInv, PendingInv, Tidy, ChunkedTypeOK
<1>2. PICK g \in In("appending") \cup In("returning") :
         IF pending = {s} /\ phase[g] = "appending"
         THEN SetPhase(g, "decoding") ELSE UNCHANGED groupVars
  BY DEF AppendChunked, AppendSlot
<1>3. g \in Groups /\ phase[g] \in {"appending", "returning"} /\ g \in Scheduled
  BY DEF In, Scheduled
<1>4. CASE pending = {s} /\ phase[g] = "appending"
  <2>1. SetPhase(g, "decoding")
    BY <1>2, <1>4
  <2>2. RoomFor'
    BY <1>3, <2>1, SetPhaseFacts, RoomWhileMoving DEF Phases
  <2>3. "decoding" \in Phases \ {"idle", "waiting"}
    BY DEF Phases
  <2>4. computed[g] + chunk'[g] <= tokens[g]
    BY <1>1, <1>3 DEF Tidy, ChunkInv
  <2> QED
    BY <1>1, <1>3, <2>1, <2>2, <2>3, <2>4, MovesKeepsTidy
<1>5. CASE ~(pending = {s} /\ phase[g] = "appending")
  <2>1. UNCHANGED groupVars
    BY <1>2, <1>5
  <2> QED
    BY <1>1, <2>1, SameKeepsTidy
<1> QED
  BY <1>4, <1>5

\* A victim is recomputed, and its count forgotten, or swapped out.
LEMMA SqueezeKeepsTidy ==
    ASSUME GreedyOrBeam, BaseInv, BaseInv', Tidy, NEW g \in Groups, Squeeze(g),
           chunked' = chunked
    PROVE  Tidy'
<1> DEFINE again == {h \in {g} : phase'[h] = "waiting"}
<1>1. /\ Preempt(g) /\ phase[g] = "ready" /\ raised = "no"
      /\ computed' = [h \in Groups |-> IF h \in again THEN 0 ELSE computed[h]]
      /\ decode' = decode \ again
      /\ stage' = "squeezed" /\ UNCHANGED <<orderVars, chunk, spent>>
  BY DEF Squeeze, IsLast, In, Visited, RunningPass, Scheduling
<1>2. /\ computed \in [Groups -> 0 .. MaxLen] /\ decode \subseteq Groups
      /\ chunk \in [Groups -> Int] /\ spent \in Int /\ 0 \in 0 .. MaxLen
  BY GroupsAssumption DEF Tidy, ChunkedTypeOK
<1>3. ASSUME again = {} PROVE UNCHANGED <<computed, decode>>
  BY <1>1, <1>2, <1>3
<1>4. CASE UNCHANGED groupVars
  <2>1. again = {}
    BY <1>1, <1>4 DEF groupVars
  <2> QED
    BY <1>1, <1>2, <1>3, <1>4, <2>1, SameKeepsTidy
<1>5. CASE SetPhase(g, "swapped")
  <2>1. /\ phase'[g] = "swapped"
        /\ \A h \in Groups \ {g} : phase'[h] = phase[h] /\ kind'[h] = kind[h]
    BY <1>5, SetPhaseFacts DEF Phases
  <2>2. again = {}
    BY <2>1
  <2>3. RoomFor'
    BY <1>1, <2>1, RoomWhileMoving
  <2>4. "swapped" \in Phases \ {"idle", "waiting"}
    BY DEF Phases
  <2> QED
    BY <1>1, <1>2, <1>3, <1>5, <2>2, <2>3, <2>4, MovesKeepsTidy
<1>6. CASE SetPhase(g, "waiting") /\ Cardinality(live[g]) = 1
  <2>1. /\ phase'[g] = "waiting"
        /\ tokens' = tokens /\ live' = live /\ kind' = kind
        /\ \A h \in Groups \ {g} : phase'[h] = phase[h]
    BY <1>6, SetPhaseFacts DEF Phases
  <2>2. again = {g}
    BY <2>1
  <2>3. /\ computed'[g] = 0 /\ g \notin decode'
        /\ computed' \in [Groups -> 0 .. MaxLen]
        /\ \A h \in Groups \ {g} : computed'[h] = computed[h] /\ (h \in decode' <=> h \in decode)
    BY <1>1, <1>2, <2>2
  <2>4. Touches(g)
    BY <1>1, <1>2, <2>1, <2>3 DEF Touches
  <2>5. QueuesTouched(g)
    BY <1>1, <2>1, QueuesStay
  <2>6. RoomFor'
    BY <1>1, <2>1, RoomWhileMoving
  <2>7. ChunkInv(g)'
    <3>1. g \notin Scheduled' /\ g \notin Executing'
      BY <2>1 DEF Scheduled, Executing, In
    <3>2. tokens[g] \in Nat /\ tokens[g] >= 1
      BY <1>1, GroupFacts DEF GroupInv
    <3> QED
      BY <1>6, <2>1, <2>3, <3>1, <3>2 DEF ChunkInv
  <2> QED
    BY <2>4, <2>5, <2>6, <2>7, TouchesKeepsTidy
<1> QED
  BY <1>1, <1>4, <1>5, <1>6 DEF Preempt

LEMMA SwapInKeepsTidy ==
    ASSUME GreedyOrBeam, BaseInv, BaseInv', Tidy, NEW g \in Groups, SwapInChunked(g),
           chunked' = chunked
    PROVE  Tidy'
<1>1. /\ phase[g] = "swapped" /\ stage = "schedule" /\ stage' = stage /\ raised = "no"
      /\ In("ready") = {} /\ CanSchedule(g, NewTokens(g)) /\ Charge(g, NewTokens(g))
      /\ SetPhase(g, "returning") /\ UNCHANGED <<orderVars, computed, decode>>
  BY DEF SwapInChunked, SwappedGoesOn, ScheduleSwapped, StartAppend, RunningPass, Scheduling
<1>2. /\ chunk' \in [Groups -> Int] /\ spent' \in Int
      /\ \A h \in Groups \ {g} : chunk'[h] = chunk[h]
      /\ computed[g] + chunk'[g] <= tokens[g]
  <2>1. /\ NewTokens(g) \in Int
        /\ g \notin decode => NewTokens(g) <= tokens[g] - computed[g]
    <3>1. tokens[g] - computed[g] \in Int
      BY ChunkFacts, GroupFacts
    <3> QED
      BY <3>1, ChunkFacts
  <2> QED
    BY <1>1, <2>1, ChargeFacts
<1>3. /\ phase'[g] = "returning" /\ kind' = kind
      /\ \A h \in Groups \ {g} : phase'[h] = phase[h]
  BY <1>1, SetPhaseFacts DEF Phases
<1>4. RoomFor'
  <2>1. g \notin Running
    BY <1>1, RunningIs
  <2>2. \A h \in Running' : h \in Running \/ h = g
    BY <1>3 DEF Running, Scheduled, In
  <2> QED
    BY <1>1, <1>3, <2>1, <2>2, RoomTaken
<1>5. "returning" \in Phases \ {"idle", "waiting"}
  BY DEF Phases
<1> QED
  BY <1>1, <1>2, <1>4, <1>5, MovesKeepsTidy

LEMMA ReturnedKeepsTidy ==
    ASSUME GreedyOrBeam, BaseInv, BaseInv', Tidy, NEW g \in Groups, ReturnedChunked(g),
           chunked' = chunked
    PROVE  Tidy'
<1>1. /\ phase[g] = "returning" /\ raised = "no" /\ stage' = stage
      /\ UNCHANGED <<orderVars, computed, decode, chunk, spent>>
      /\ SetPhase(g, "decoding") \/ UNCHANGED groupVars
  BY DEF ReturnedChunked, Returned, chunkVars
<1>2. /\ stage # "process" /\ chunk \in [Groups -> Int] /\ spent \in Int
      /\ computed[g] + chunk[g] <= tokens[g]
  <2>1. g \in Scheduled
    BY <1>1 DEF Scheduled, In
  <2> QED
    BY <1>1, <2>1 DEF Tidy, ChunkInv, ChunkedTypeOK
<1>3. CASE SetPhase(g, "decoding")
  <2>1. RoomFor'
    BY <1>1, <1>3, SetPhaseFacts, RoomWhileMoving DEF Phases
  <2>2. "decoding" \in Phases \ {"idle", "waiting"}
    BY DEF Phases
  <2> QED
    BY <1>1, <1>2, <1>3, <2>1, <2>2, MovesKeepsTidy
<1>4. CASE UNCHANGED groupVars
  BY <1>1, <1>2, <1>4, SameKeepsTidy
<1> QED
  BY <1>1, <1>3, <1>4

\* The prompt at the head of the queue had computed nothing.
LEMMA AdmitKeepsTidy ==
    ASSUME GreedyOrBeam, BaseInv, BaseInv', Tidy, NEW g \in Groups, AdmitPrompt(g),
           chunked' = chunked
    PROVE  Tidy'
<1>1. /\ queue # <<>> /\ g = Head(queue) /\ queue' = Tail(queue) /\ arrived' = arrived
      /\ stage # "process" /\ stage' = stage /\ raised = "no" /\ In("ready") = {}
      /\ CanSchedule(g, Cut(tokens[g])) /\ Charge(g, Cut(tokens[g]))
      /\ SetPhase(g, "prefilling") /\ UNCHANGED <<computed, decode>>
  BY DEF AdmitPrompt, Prompt, Admissible, Scheduling
<1>2. /\ queue \in Seq(Groups) /\ IsInjective(queue)
      /\ arrived \in Seq(Groups) /\ IsInjective(arrived)
  BY DEF Tidy, ChunkedTypeOK
<1>3. /\ Tail(queue) \in Seq(Groups) /\ IsInjective(Tail(queue))
      /\ Range(queue) = {g} \cup Range(Tail(queue)) /\ g \notin Range(Tail(queue))
  BY <1>1, <1>2, HeadTailElems, RangeIsToSet
<1>4. phase[g] = "waiting" /\ g \in Range(arrived)
  BY <1>3 DEF Tidy, QueuesInv
<1>5. /\ phase'[g] = "prefilling" /\ tokens' = tokens /\ live' = live /\ kind' = kind
      /\ \A h \in Groups \ {g} : phase'[h] = phase[h]
  BY <1>1, SetPhaseFacts DEF Phases
<1>6. /\ chunk' \in [Groups -> Int] /\ spent' \in Int
      /\ \A h \in Groups \ {g} : chunk'[h] = chunk[h]
      /\ computed[g] + chunk'[g] <= tokens[g]
  <2>1. /\ Cut(tokens[g]) \in Int /\ tokens[g] \in Nat
        /\ Cut(tokens[g]) <= tokens[g] - computed[g]
    <3>1. tokens[g] \in Nat
      BY GroupFacts
    <3>2. computed[g] = 0
      BY <1>4 DEF Tidy, ChunkInv
    <3>3. Cut(tokens[g]) \in Int /\ Cut(tokens[g]) <= tokens[g]
      BY <3>1, ChunkFacts
    <3> QED
      BY <3>1, <3>2, <3>3
  <2> QED
    BY <1>1, <1>4, <2>1, ChargeFacts
<1>7. Touches(g)
  BY <1>1, <1>5, <1>6 DEF Touches, Tidy, ChunkedTypeOK
<1>8. QueuesTouched(g)
  BY <1>1, <1>2, <1>3, <1>4, <1>5 DEF QueuesTouched
<1>9. RoomFor'
  <2>1. g \notin Running
    BY <1>4, RunningIs
  <2>2. \A h \in Running' : h \in Running \/ h = g
    BY <1>5 DEF Running, Scheduled, In
  <2> QED
    BY <1>1, <1>5, <2>1, <2>2, RoomTaken
<1>10. ChunkInv(g)'
  BY <1>1, <1>4, <1>5, <1>6, GoesOn
<1> QED
  BY <1>7, <1>8, <1>9, <1>10, TouchesKeepsTidy

LEMMA SampleFacts ==
    ASSUME BaseInv, NEW g \in Groups, NEW first, SampleAndStop(g, first)
    PROVE  /\ phase'[g] \in {"idle", "ready"}
           /\ phase'[g] = "idle" => live'[g] = {}
           /\ phase'[g] = "ready" => tokens'[g] = tokens[g] + 1 /\ kind'[g] = kind[g]
           /\ \A h \in Groups \ {g} :
                 /\ phase'[h] = phase[h] /\ tokens'[h] = tokens[h]
                 /\ live'[h] = live[h] /\ kind'[h] = kind[h]
<1>1. PICK children \in SUBSET Fresh, stopped \in SUBSET live[g] :
         LET running == children \cup (live[g] \ stopped)
         IN  /\ live' = [live EXCEPT ![g] = running]
             /\ tokens' = [tokens EXCEPT ![g] = IF running = {} THEN 0 ELSE @ + 1]
             /\ phase' = [phase EXCEPT ![g] = IF running = {} THEN "idle" ELSE "ready"]
             /\ kind' = [kind EXCEPT ![g] = IF running = {} THEN AnyKind ELSE @]
  BY DEF SampleAndStop
<1> QED
  BY <1>1 DEF BaseInv, BlocksTypeOK, GroupsTypeOK

\* What was executed is computed now; who has computed all has sampled.
LEMMA ProcessKeepsTidy ==
    ASSUME GreedyOrBeam, BaseInv, BaseInv', Tidy, NEW g \in Groups, ProcessChunk(g),
           chunked' = chunked
    PROVE  Tidy'
<1> DEFINE sum == computed[g] + chunk[g]
<1>1. /\ raised = "no" /\ stage = "process" /\ g \in Executing /\ g \in Scheduled
      /\ phase[g] \notin {"idle", "waiting", "swapped"}
      /\ spent' = spent
  BY DEF ProcessChunk, Executing, Scheduled, In
<1>2. /\ chunk' \in [Groups -> Int] /\ spent \in Int /\ chunk'[g] = 0
      /\ \A h \in Groups \ {g} : chunk'[h] = chunk[h]
      /\ computed \in [Groups -> 0 .. MaxLen] /\ decode \subseteq Groups
  BY DEF ProcessChunk, Tidy, ChunkedTypeOK
<1>3. /\ ChunkInv(g) /\ computed[g] \in Nat /\ chunk[g] \in Int
      /\ tokens[g] \in Nat /\ tokens[g] <= MaxLen /\ MaxLen \in Nat
  <2>1. tokens[g] \in 0 .. MaxLen /\ MaxLen \in Nat
    BY GroupFacts
  <2> QED
    BY <2>1, ChunkFacts
<1>4. sum \in 0 .. MaxLen /\ sum <= tokens[g]
  BY <1>1, <1>3 DEF ChunkInv
<1>5. CASE sum # tokens[g]
  <2>1. /\ SetPhase(g, "ready") /\ computed' = [computed EXCEPT ![g] = sum]
        /\ UNCHANGED <<arrived, queue, decode>> /\ sum < tokens[g]
    <3>1. sum < tokens[g]
      BY <1>3, <1>4, <1>5
    <3> QED
      BY <1>5, <3>1 DEF ProcessChunk
  <2>2. /\ phase'[g] = "ready" /\ tokens' = tokens /\ live' = live /\ kind' = kind
        /\ \A h \in Groups \ {g} : phase'[h] = phase[h]
    BY <2>1, SetPhaseFacts DEF Phases
  <2>3. /\ computed' \in [Groups -> 0 .. MaxLen] /\ computed'[g] = sum
        /\ \A h \in Groups \ {g} : computed'[h] = computed[h]
    BY <1>2, <1>4, <2>1
  <2>4. Touches(g)
    BY <1>1, <1>2, <2>1, <2>2, <2>3 DEF Touches
  <2>5. QueuesTouched(g)
    BY <1>1, <2>1, <2>2, QueuesStay DEF orderVars
  <2>6. RoomFor'
    BY <1>1, <2>2, RoomWhileMoving
  <2>7. ChunkInv(g)'
    <3>1. g \notin Scheduled' /\ g \notin Executing'
      BY <2>2 DEF Scheduled, Executing, In
    <3>2. g \in decode => sum = tokens[g] - 1
      BY <1>1, <1>3, <2>1 DEF ChunkInv
    <3>3. g \notin decode => Cardinality(live[g]) <= 1
      BY <1>3 DEF ChunkInv
    <3> QED
      BY <2>1, <2>2, <2>3, <3>1, <3>2, <3>3 DEF ChunkInv
  <2> QED
    BY <2>4, <2>5, <2>6, <2>7, TouchesKeepsTidy
<1>6. CASE sum = tokens[g]
  <2>1. /\ SampleAndStop(g, g \notin decode)
        /\ IF phase'[g] = "idle" THEN Drop(g)
           ELSE /\ computed' = [computed EXCEPT ![g] = sum]
                /\ decode' = decode \cup {g}
                /\ UNCHANGED <<arrived, queue>>
    BY <1>6 DEF ProcessChunk
  <2>2. /\ phase'[g] \in {"idle", "ready"}
        /\ phase'[g] = "idle" => live'[g] = {}
        /\ phase'[g] = "ready" => tokens'[g] = tokens[g] + 1 /\ kind'[g] = kind[g]
        /\ \A h \in Groups \ {g} :
              /\ phase'[h] = phase[h] /\ tokens'[h] = tokens[h]
              /\ live'[h] = live[h] /\ kind'[h] = kind[h]
    BY <2>1, SampleFacts
  <2>3. RoomFor'
    BY <1>1, <2>2, RoomWhileMoving
  <2>4. g \notin Scheduled' /\ g \notin Executing'
    BY <2>2 DEF Scheduled, Executing, In
  <2>5. CASE phase'[g] = "idle"
    <3>1. /\ QueuesTouched(g)
          /\ computed' = [computed EXCEPT ![g] = 0] /\ decode' = decode \ {g}
      BY <2>1, <2>5, DropTouches
    <3>2. /\ computed' \in [Groups -> 0 .. MaxLen] /\ computed'[g] = 0
          /\ \A h \in Groups \ {g} : computed'[h] = computed[h]
      BY <1>2, <1>3, <3>1
    <3>3. Touches(g)
      BY <1>1, <1>2, <2>2, <3>1, <3>2 DEF Touches
    <3>4. ChunkInv(g)'
      <4>1. Cardinality(live'[g]) = 0
        BY <2>2, <2>5, FS_EmptySet
      <4> QED
        BY <2>4, <2>5, <3>1, <3>2, <4>1 DEF ChunkInv
    <3> QED
      BY <2>3, <3>1, <3>3, <3>4, TouchesKeepsTidy
  <2>6. CASE phase'[g] = "ready"
    <3>1. /\ computed' = [computed EXCEPT ![g] = sum] /\ decode' = decode \cup {g}
          /\ UNCHANGED orderVars
      BY <2>1, <2>6 DEF orderVars
    <3>2. /\ computed' \in [Groups -> 0 .. MaxLen] /\ computed'[g] = tokens[g]
          /\ \A h \in Groups \ {g} : computed'[h] = computed[h]
      BY <1>2, <1>4, <1>6, <3>1
    <3>3. Touches(g)
      BY <1>1, <1>2, <2>2, <3>1, <3>2 DEF Touches
    <3>4. QueuesTouched(g)
      BY <1>1, <2>6, <3>1, QueuesStay
    <3>5. ChunkInv(g)'
      BY <1>3, <2>2, <2>4, <2>6, <3>1, <3>2 DEF ChunkInv
    <3> QED
      BY <2>3, <3>3, <3>4, <3>5, TouchesKeepsTidy
  <2> QED
    BY <2>2, <2>5, <2>6
<1> QED
  BY <1>5, <1>6

\* The tick ends: the preempted join the front of the queue.
LEMMA ExecuteKeepsTidy ==
    ASSUME GreedyOrBeam, BaseInv, BaseInv', Tidy, ExecuteChunked, chunked' = chunked
    PROVE  Tidy'
<1>1. /\ UNCHANGED <<groupVars, arrived, computed, decode, chunk>> /\ spent' = 0
      /\ In("returning") = {}
  BY DEF ExecuteChunked, Scheduling
<1>2. raised' = "no" => \A g \in Executing : chunk[g] >= 0
  <2>1. (\E g \in Executing : chunk[g] < 0) => raised' # "no"
    BY DEF ExecuteChunked, Raise
  <2>2. \A g \in Executing : chunk[g] \in Int
    BY DEF Tidy, ChunkedTypeOK, Executing, In
  <2> QED
    BY <2>1, <2>2
<1>3. /\ In("prefilling")' = In("prefilling") /\ In("appending")' = In("appending")
      /\ In("returning")' = In("returning") /\ In("decoding")' = In("decoding")
      /\ In("ready")' = In("ready")
  BY <1>1 DEF In, groupVars
<1>4. ASSUME NEW g \in Groups PROVE ChunkInv(g)'
  <2>1. ChunkInv(g) /\ phase[g] # "returning"
    BY <1>1 DEF Tidy, In
  <2> QED
    BY <1>1, <1>2, <1>3, <2>1 DEF ChunkInv, Scheduled, Executing, groupVars
<1>5. /\ queue' \in Seq(Groups) /\ IsInjective(queue')
      /\ \A g \in Range(queue') : phase[g] = "waiting"
  <2> DEFINE late == In("waiting") \ Range(queue)
  <2>1. PICK again \in Filtered(arrived, late) : queue' = again \o queue
    BY DEF ExecuteChunked
  <2>2. arrived \in Seq(Groups) /\ queue \in Seq(Groups) /\ IsInjective(queue)
    BY DEF Tidy, ChunkedTypeOK
  <2>3. /\ again \in Seq(Groups) /\ IsInjective(again)
        /\ ToSet(again) = ToSet(arrived) \cap late
    BY <2>2, FilteredFacts
  <2>4. ToSet(again) \cap ToSet(queue) = {} /\ \A g \in ToSet(again) : phase[g] = "waiting"
    BY <2>3, RangeIsToSet DEF In
  <2>5. /\ again \o queue \in Seq(Groups) /\ IsInjective(again \o queue)
        /\ ToSet(again \o queue) = ToSet(again) \cup ToSet(queue)
    BY <2>2, <2>3, <2>4, ConcatProperties, ConcatInjective, ConcatElems
  <2>6. \A g \in Range(queue) : phase[g] = "waiting"
    BY DEF Tidy, QueuesInv
  <2> QED
    BY <2>1, <2>4, <2>5, <2>6, RangeIsToSet
<1>6. ChunkedTypeOK'
  BY <1>1, <1>5 DEF BaseInv, Tidy, ChunkedTypeOK
<1>7. QueuesInv'
  <2>1. \A h \in Running' : h \in Running /\ kind'[h] = kind[h]
    BY <1>1, <1>3 DEF Running, Scheduled, groupVars
  <2>2. RoomFor'
    BY <2>1, RoomStays DEF Tidy, QueuesInv, RoomFor, Running
  <2> QED
    BY <1>1, <1>5, <2>2 DEF Tidy, QueuesInv, RoomFor, Running, groupVars
<1> QED
  BY <1>4, <1>6, <1>7 DEF Tidy

-----------------------------------------------------------------------------
\* The steps of the chunked schedule keep the shared invariant; its own
\* assertions, on the places and on the sum of a chunk, hold by the rest.
LEMMA PlacesSuffice == ASSUME GreedyOrBeam, BaseInv, Tidy PROVE Seats <= MaxNumSeqs
<1>1. /\ Running \subseteq Groups /\ Scheduled \subseteq Running
      /\ kind \in [Groups -> Kinds]
  BY RunningIs DEF BaseInv, BlocksTypeOK, GroupsTypeOK
<1>2. PlacesOf(kind, Scheduled) \subseteq PlacesOf(kind, Running)
  BY <1>1 DEF PlacesOf
<1>3. IsFiniteSet(PlacesOf(kind, Running)) /\ Cardinality(PlacesOf(kind, Running)) \in Nat
  BY <1>1, PlacesFinite
<1>4. /\ Cardinality(PlacesOf(kind, Scheduled)) <= Cardinality(PlacesOf(kind, Running))
      /\ Cardinality(PlacesOf(kind, Scheduled)) \in Nat
  BY <1>2, <1>3, FS_Subset, FS_CardinalityType
<1>5. Cardinality(PlacesOf(kind, Running)) <= MaxNumSeqs
  BY PlacesAre DEF Tidy, QueuesInv, Running
<1>6. Cardinality(PlacesOf(kind, Scheduled)) <= MaxNumSeqs
  BY <1>3, <1>4, <1>5, BudgetAssumption
<1> QED
  BY <1>6, PlacesAre

LEMMA ExecuteKeepsBase ==
    ASSUME GreedyOrBeam, BaseInv, Tidy, ExecuteChunked
    PROVE  BaseInv'
<1>1. /\ UNCHANGED <<groupVars, pending>> /\ pending = {}
      /\ stage' \in {"schedule", "process"}
  BY DEF ExecuteChunked, Scheduling
<1>2. ~(Seats > MaxNumSeqs)
  <2>1. Seats \in Nat
    <3>1. Scheduled \subseteq Groups /\ kind \in [Groups -> Kinds]
      BY RunningIs DEF BaseInv, BlocksTypeOK, GroupsTypeOK
    <3> QED
      BY <3>1, PlacesFinite, PlacesAre
  <2> QED
    BY <2>1, PlacesSuffice, BudgetAssumption
<1>3. /\ UNCHANGED <<table, ref, free>>
      /\ raised' \in {raised, "OverBudget", "NegativeChunk"}
  <2> DEFINE why == CASE spent > TokenBudget                  -> "OverBudget"
                      [] Seats > MaxNumSeqs                   -> "AssertionError"
                      [] \E g \in Executing : chunk[g] < 0    -> "NegativeChunk"
                      [] OTHER                                -> "no"
  <2>1. why \in {"OverBudget", "NegativeChunk", "no"}
    BY <1>2
  <2>2. IF why = "no" THEN UNCHANGED blockVars ELSE Raise(why)
    BY DEF ExecuteChunked
  <2> HIDE DEF why
  <2> QED
    BY <2>1, <2>2 DEF Raise, blockVars
<1>4. raised \in Raised /\ ChecksSuffice
  BY DEF BaseInv, BlocksTypeOK
<1>5. raised' \in Raised /\ ChecksSuffice'
  BY <1>3, <1>4 DEF Raised, ChecksSuffice
<1> QED
  BY <1>1, <1>3, <1>5, StutterKeepsBase

LEMMA ProcessKeepsBase ==
    ASSUME GreedyOrBeam, BaseInv, Tidy, NEW g \in Groups, ProcessChunk(g)
    PROVE  BaseInv'
<1>1. /\ stage = "process" /\ g \in Executing /\ g \in Scheduled
      /\ pending' = pending /\ stage' \in {"schedule", "process"}
  BY DEF ProcessChunk, Executing, Scheduled, In
<1>2. /\ computed[g] + chunk[g] <= tokens[g]
      /\ computed[g] + chunk[g] \in Int /\ tokens[g] \in Nat
  BY <1>1, ChunkFacts, GroupFacts DEF ChunkInv
<1>3. CASE computed[g] + chunk[g] # tokens[g]
  <2>1. computed[g] + chunk[g] < tokens[g]
    BY <1>2, <1>3
  <2>2. SetPhase(g, "ready") /\ UNCHANGED blockVars
    BY <1>3, <2>1 DEF ProcessChunk
  <2> QED
    BY <1>1, <2>2, PartialKeepsBase
<1>4. CASE computed[g] + chunk[g] = tokens[g]
  <2>1. SampleAndStop(g, g \notin decode)
    BY <1>4 DEF ProcessChunk
  <2>2. (g \notin decode) \in BOOLEAN
    OBVIOUS
  <2> QED
    BY <1>1, <2>1, <2>2, SampleKeepsBase
<1> QED
  BY <1>3, <1>4

\* One step of the chunked schedule keeps both parts of the invariant.
LEMMA ChunkedStep ==
    ASSUME GreedyOrBeam, BaseInv, Tidy, ChunkedNext, chunked' = chunked
    PROVE  BaseInv' /\ Tidy'
<1>1. Scheduling => pending = {} /\ raised = "no"
  BY DEF Scheduling
<1>2. ASSUME NEW g \in Groups, ArriveChunked(g) PROVE BaseInv' /\ Tidy'
  <2>1. BaseInv'
    BY <1>1, <1>2, ArriveKeepsBase DEF ArriveChunked, AddRequest, BetweenTicks
  <2> QED
    BY <1>2, <2>1, ArriveKeepsTidy
<1>3. ASSUME NEW g \in Groups, AbortChunked(g) PROVE BaseInv' /\ Tidy'
  <2>1. /\ pending = {} /\ Leave(g) /\ UNCHANGED <<pending, stage>>
        /\ Drop(g) /\ UNCHANGED <<chunk, spent>>
    BY <1>1, <1>3 DEF AbortChunked, AbortRequest, BetweenTicks
  <2>2. BaseInv'
    BY <2>1, LeaveKeepsBase
  <2>3. Retire(g) /\ raised' = raised
    <3>1. Window = 0 /\ ManagerInv
      BY DEF BaseInv, GreedyOrBeam
    <3> QED
      BY <2>1, <3>1, GroupFacts, FreeExact DEF Leave
  <2> QED
    BY <2>1, <2>2, <2>3, FinishKeepsTidy
<1>4. ASSUME NEW g \in Groups, RunChunk(g) PROVE BaseInv' /\ Tidy'
  <2>1. /\ Scheduling /\ phase[g] = "ready" /\ UNCHANGED stage
        /\ NewChunk(g) # 0 => /\ CanAppendSlots(live[g]) /\ StartAppend(g, "appending")
                              /\ UNCHANGED blockVars
        /\ NewChunk(g) = 0 => /\ Raise("EmptyChunk") /\ UNCHANGED <<groupVars, pending>>
    <3>1. Scheduling /\ phase[g] = "ready" /\ UNCHANGED stage
      BY <1>4 DEF RunChunk, Visited, RunningPass, IsFirst, In
    <3> QED
      BY <1>4, <3>1 DEF RunChunk
  <2>2. ASSUME NewChunk(g) # 0 PROVE BaseInv'
    BY <2>1, <2>2, StartAppendKeepsBase
  <2>3. ASSUME NewChunk(g) = 0 PROVE BaseInv'
    <3>1. /\ UNCHANGED <<table, ref, free, groupVars, pending>>
          /\ raised' \in Raised /\ ChecksSuffice'
      BY <2>1, <2>3 DEF Raise, Raised, ChecksSuffice
    <3>2. stage' \in {"schedule", "squeezed", "process"} /\ pending = {}
      BY <1>1, <2>1 DEF BaseInv, BlocksTypeOK
    <3> QED
      BY <3>1, <3>2, StutterKeepsBase
  <2>4. BaseInv'
    BY <2>2, <2>3
  <2> QED
    BY <1>4, <2>4, RunKeepsTidy
<1>5. ASSUME NEW g \in Groups, Squeeze(g) PROVE BaseInv' /\ Tidy'
  <2>1. /\ Scheduling /\ phase[g] = "ready" /\ Preempt(g)
        /\ pending' = pending /\ stage' = "squeezed"
    BY <1>5 DEF Squeeze, IsLast, In, Visited, RunningPass
  <2>2. BaseInv'
    BY <2>1, PreemptKeepsBase
  <2> QED
    BY <1>5, <2>2, SqueezeKeepsTidy
<1>6. ASSUME NEW g \in Groups, SwapInChunked(g) PROVE BaseInv' /\ Tidy'
  <2>1. BaseInv'
    BY <1>6, SwapInKeepsBase DEF SwapInChunked, ScheduleSwapped, RunningPass
  <2> QED
    BY <1>6, <2>1, SwapInKeepsTidy
<1>7. ASSUME NEW g \in Groups, ReturnedChunked(g) PROVE BaseInv' /\ Tidy'
  <2>1. BaseInv'
    BY <1>7, ReturnedKeepsBase DEF ReturnedChunked
  <2> QED
    BY <1>7, <2>1, ReturnedKeepsTidy
<1>8. ASSUME NEW g \in Groups, Prompt(g) PROVE phase[g] = "waiting" /\ pending = {}
  <2>1. queue # <<>> /\ g = Head(queue) /\ Scheduling
    BY <1>8 DEF Prompt
  <2>2. queue \in Seq(Groups)
    BY DEF Tidy, ChunkedTypeOK
  <2>3. g \in Range(queue)
    <3>1. ToSet(queue) = {g} \cup ToSet(Tail(queue))
      BY <2>1, <2>2, HeadTailElems
    <3> QED
      BY <3>1, RangeIsToSet
  <2> QED
    BY <1>1, <2>1, <2>3 DEF Tidy, QueuesInv
<1>9. ASSUME NEW g \in Groups, AdmitPrompt(g) PROVE BaseInv' /\ Tidy'
  <2>1. BaseInv'
    BY <1>8, <1>9, AllocateKeepsBase DEF AdmitPrompt, Admissible
  <2> QED
    BY <1>9, <2>1, AdmitKeepsTidy
<1>10. ASSUME NEW g \in Groups, RefusePrompt(g) PROVE BaseInv' /\ Tidy'
  <2>1. /\ phase[g] = "waiting" /\ pending = {} /\ Retire(g) /\ Drop(g)
        /\ UNCHANGED <<blockVars, pending, stage, chunk, spent>>
    BY <1>8, <1>10 DEF RefusePrompt
  <2>2. BaseInv'
    BY <2>1, IgnoreKeepsBase
  <2> QED
    BY <2>1, <2>2, FinishKeepsTidy DEF blockVars
<1>11. ASSUME NEW g \in Groups, ProcessChunk(g) PROVE BaseInv' /\ Tidy'
  <2>1. BaseInv'
    BY <1>11, ProcessKeepsBase
  <2> QED
    BY <1>11, <2>1, ProcessKeepsTidy
<1>12. ASSUME NEW s \in Seqs, AppendChunked(s) PROVE BaseInv' /\ Tidy'
  <2>1. BaseInv'
    BY <1>12, AppendSlotKeepsBase DEF AppendChunked
  <2> QED
    BY <1>12, <2>1, AppendKeepsTidy
<1>13. ASSUME ExecuteChunked PROVE BaseInv' /\ Tidy'
  <2>1. BaseInv'
    BY <1>13, ExecuteKeepsBase
  <2> QED
    BY <1>13, <2>1, ExecuteKeepsTidy
<1> QED
  BY <1>2, <1>3, <1>4, <1>5, <1>6, <1>7, <1>9, <1>10, <1>11, <1>12, <1>13
     DEF ChunkedNext

-----------------------------------------------------------------------------
LEMMA InitHolds == ASSUME GreedyOrBeam, ChunkedInit PROVE ScheduleInv
<1>1. /\ table = [s \in Seqs |-> <<>>] /\ ref = [b \in Blocks |-> 0] /\ free = Blocks
      /\ raised = "no" /\ phase = [g \in Groups |-> "idle"]
      /\ tokens = [g \in Groups |-> 0] /\ live = [g \in Groups |-> {}]
      /\ ended = [g \in Groups |-> 0] /\ kind = [g \in Groups |-> AnyKind]
      /\ pending = {} /\ stage = "schedule"
  BY DEF ChunkedInit, Init, BlockInit, GroupsInit
<1>2. /\ chunked \in BOOLEAN /\ arrived = <<>> /\ queue = <<>>
      /\ computed = [g \in Groups |-> 0] /\ decode = {}
      /\ chunk = [g \in Groups |-> 0] /\ spent = 0
  BY DEF ChunkedInit
<1>3. AnyKind \in Kinds /\ AnyKind.bestOf \in Nat
  BY GroupsAssumption DEF AnyKind
<1>4. /\ <<>> \in Seq(Groups) /\ <<>> \in Seq(Blocks) /\ IsInjective(<<>>)
      /\ Range(<<>>) = {}
  BY DEF IsInjective, Range
<1>5. Cardinality({}) = 0
  BY FS_EmptySet
<1>6. ManagerInv
  <2>1. \A b : Holders(b) = {}
    <3>1. Window = 0
      BY DEF GreedyOrBeam
    <3> QED
      BY <1>1, <1>4, <3>1 DEF Holders, InUse
  <2>2. PoolExact
    BY <1>1, <1>5, <2>1 DEF PoolExact, RefCountsExact, FreeListExact
  <2> QED
    BY <1>1, <1>4, <2>2 DEF ManagerInv
<1>7. BlocksTypeOK
  <2>1. GroupsTypeOK(Phases)
    BY <1>1, <1>3, GroupsAssumption DEF GroupsTypeOK, Phases
  <2> QED
    BY <1>1, <1>4, <2>1 DEF BlocksTypeOK, Raised
<1>8. ASSUME NEW g \in Groups PROVE GroupInv(g)
  <2>1. Written(g) = {}
    BY <1>1 DEF Written
  <2> QED
    BY <1>1, <1>3, <1>5, <2>1 DEF GroupInv
<1>9. \A p : p # "idle" => In(p) = {}
  BY <1>1 DEF In
<1>10. PendingInv
  <2>1. Cardinality(FreeGpu) \in Nat
    BY <1>6, FreePools
  <2>2. In("appending") = {} /\ In("returning") = {}
    BY <1>9
  <2> QED
    BY <1>1, <1>5, <2>1, <2>2 DEF PendingInv
<1>11. BaseInv
  <2>1. ChecksSuffice
    BY <1>1 DEF ChecksSuffice
  <2>2. \A g, h \in Groups : g # h => live[g] \cap live[h] = {}
    BY <1>1
  <2>3. \A s \in Fresh : table[s] = <<>>
    BY <1>1 DEF Fresh
  <2> QED
    BY <1>6, <1>7, <1>8, <1>10, <2>1, <2>2, <2>3 DEF BaseInv
<1>12. ChunkedTypeOK
  BY <1>2, <1>4, <1>7, GroupsAssumption DEF ChunkedTypeOK
<1>13. ASSUME NEW g \in Groups PROVE ChunkInv(g)
  BY <1>1, <1>2, <1>5, <1>9 DEF ChunkInv, Scheduled, Executing
<1>14. QueuesInv
  <2>1. Scheduled \cup In("ready") = {}
    BY <1>9 DEF Scheduled
  <2>2. Places(Scheduled \cup In("ready")) = {}
    BY <2>1 DEF Places
  <2>3. 0 <= MaxNumSeqs
    BY BudgetAssumption
  <2> QED
    BY <1>1, <1>2, <1>4, <1>5, <2>2, <2>3 DEF QueuesInv
<1> QED
  BY <1>11, <1>12, <1>13, <1>14 DEF ScheduleInv

LEMMA StepHolds ==
    ASSUME GreedyOrBeam, ScheduleInv, [ScheduleNext]_chunkedVars
    PROVE  ScheduleInv'
<1>1. BaseInv /\ ChunkedTypeOK /\ (chunked => Tidy)
  BY DEF ScheduleInv, Tidy
<1>2. CASE chunked /\ ChunkedNext /\ UNCHANGED chunked
  BY <1>1, <1>2, ChunkedStep DEF ScheduleInv, Tidy
<1>3. CASE ~chunked /\ [Next]_vars /\ UNCHANGED <<chunked, orderVars, chunkVars>>
  <2>1. BaseInv'
    BY <1>1, <1>3, DefaultStep
  <2>2. ChunkedTypeOK'
    BY <1>1, <1>3, <2>1 DEF BaseInv, ChunkedTypeOK, orderVars, chunkVars
  <2> QED
    BY <1>3, <2>1, <2>2 DEF ScheduleInv
<1>4. CASE chunked /\ UNCHANGED chunkedVars
  <2>1. /\ UNCHANGED <<chunked, vars, groupVars, orderVars, computed, decode, chunk, spent>>
        /\ stage' = stage /\ raised' = raised
    BY <1>4 DEF chunkedVars, chunkVars, vars, groupVars, blockVars
  <2>2. BaseInv'
    BY <1>1, <2>1, DefaultStep
  <2>3. spent' \in Int
    BY <1>1, <2>1 DEF ChunkedTypeOK
  <2>4. Tidy'
    BY <1>1, <1>4, <2>1, <2>2, <2>3, SameKeepsTidy
  <2> QED
    BY <2>2, <2>4 DEF ScheduleInv, Tidy
<1> QED
  BY <1>2, <1>3, <1>4 DEF ScheduleNext, chunkedVars

(* The inductive invariant holds under both schedules, whichever               *)
(* chunked_prefill_enabled chooses.                                            *)
THEOREM ScheduleInvariant == ASSUME GreedyOrBeam PROVE ScheduleSpec => []ScheduleInv
<1>1. ChunkedInit => ScheduleInv
  BY InitHolds
<1>2. ScheduleInv /\ [ScheduleNext]_chunkedVars => ScheduleInv'
  BY StepHolds
<1> QED
  BY <1>1, <1>2, PTL DEF ScheduleSpec

-----------------------------------------------------------------------------
(* Every variable keeps its type: each queue holds a group once, and what is  *)
(* computed of a group never passes max_model_len.                            *)
THEOREM ScheduleTypes == ASSUME GreedyOrBeam PROVE ScheduleSpec => []ChunkedTypeOK
<1>1. ScheduleInv => ChunkedTypeOK
  BY DEF ScheduleInv
<1> QED
  BY <1>1, ScheduleInvariant, PTL

(* Reference counts and free lists stay exact under both schedules: however   *)
(* groups fork, are cut, preempted, swapped, aborted and stopped, no block    *)
(* leaks and none is handed out twice.                                        *)
THEOREM SchedulePools == ASSUME GreedyOrBeam PROVE ScheduleSpec => []PoolExact
<1>1. ScheduleInv => PoolExact
  BY DEF ScheduleInv, BaseInv, ManagerInv
<1> QED
  BY <1>1, ScheduleInvariant, PTL

(* The checks the two schedules make before they call the block manager are   *)
(* enough: no allocator runs dry, not even when the swapped pass appends      *)
(* without asking, no block is freed twice, and no assertion of the manager,  *)
(* of _preempt_by_recompute or of the chunked schedule fails.                 *)
THEOREM ScheduleChecks == ASSUME GreedyOrBeam PROVE ScheduleSpec => []ChecksSuffice
<1>1. ScheduleInv => ChecksSuffice
  BY DEF ScheduleInv, BaseInv
<1> QED
  BY <1>1, ScheduleInvariant, PTL

(* While the model runs, nobody else holds the block that a sequence writes   *)
(* its newest token to: copy on write was made wherever it had to be.         *)
THEOREM ScheduleWrites == ASSUME GreedyOrBeam PROVE ScheduleSpec => []WritesArePrivate
<1>1. ASSUME ScheduleInv PROVE WritesArePrivate
  <2> SUFFICES ASSUME NEW g \in Executing, NEW s \in live[g]
               PROVE  Holders(table[s][Len(table[s])]) = {s}
    BY DEF WritesArePrivate
  <2>1. g \in Groups /\ GroupInv(g) /\ s \in Written(g) /\ Window = 0
    BY <1>1 DEF ScheduleInv, BaseInv, Executing, In, Written, GreedyOrBeam
  <2>2. /\ Len(table[s]) = BlocksFor(tokens[g])
        /\ HoldersIn(table, table[s][BlocksFor(tokens[g])]) = {s}
    BY <2>1 DEF GroupInv
  <2> QED
    BY <2>1, <2>2, HoldersAreTables
<1> QED
  BY <1>1, ScheduleInvariant, PTL

(* The queues follow the groups' status through every pass, and what has been *)
(* computed of a group is in blocks that each of its sequences holds.         *)
THEOREM ScheduleKeeps == ASSUME GreedyOrBeam PROVE ScheduleSpec => []ComputedIsHeld
<1>1. ASSUME ScheduleInv PROVE ComputedIsHeld
  <2> SUFFICES ASSUME chunked, NEW g \in Groups
               PROVE  /\ phase[g] # "idle" <=> g \in Range(arrived)
                      /\ g \in Range(queue) => phase[g] = "waiting"
                      /\ \A s \in live[g] : Len(table[s]) >= BlocksFor(computed[g])
                      /\ g \in decode => computed[g] = tokens[g] - 1
    BY DEF ComputedIsHeld
  <2>1. BaseInv /\ Tidy
    BY <1>1 DEF ScheduleInv, Tidy
  <2>2. /\ GroupInv(g) /\ ChunkInv(g) /\ live[g] \subseteq Seqs
        /\ tokens[g] \in Nat /\ computed[g] \in Nat
    BY <2>1, GroupFacts, ChunkFacts
  <2>3. ASSUME NEW s \in live[g] PROVE Len(table[s]) >= BlocksFor(computed[g])
    <3>1. phase[g] # "idle"
      BY <2>2 DEF GroupInv
    <3>2. Len(table[s]) \in Nat
      <4>1. table[s] \in Seq(Blocks)
        BY <2>1, <2>2 DEF BaseInv, BlocksTypeOK
      <4> QED
        BY <4>1
    <3>3. CASE phase[g] = "waiting"
      <4>1. computed[g] = 0
        BY <2>2, <3>3 DEF ChunkInv
      <4> QED
        BY <3>2, <4>1, BlocksForNothing
    <3>4. CASE phase[g] # "waiting"
      <4>1. tokens[g] - 1 \in Nat /\ computed[g] <= tokens[g] - 1 /\ tokens[g] - 1 <= tokens[g]
        BY <2>2, <3>1 DEF ChunkInv
      <4>2. /\ BlocksFor(computed[g]) <= BlocksFor(tokens[g] - 1)
            /\ BlocksFor(computed[g]) <= BlocksFor(tokens[g])
        BY <2>2, <4>1, BlocksForMonotone
      <4>3. Len(table[s]) \in {BlocksFor(tokens[g] - 1), BlocksFor(tokens[g])}
        BY <2>2, <3>1, <3>4 DEF GroupInv
      <4> QED
        BY <4>2, <4>3
    <3> QED
      BY <3>3, <3>4
  <2>4. /\ phase[g] # "idle" <=> g \in Range(arrived)
        /\ g \in Range(queue) => phase[g] = "waiting"
        /\ g \in decode => computed[g] = tokens[g] - 1
    BY <2>1 DEF Tidy, QueuesInv, ChunkInv
  <2> QED
    BY <2>3, <2>4
<1> QED
  BY <1>1, ScheduleInvariant, PTL
=============================================================================
