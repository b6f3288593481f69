----------------------------- MODULE BlockLemmas -----------------------------
(* What the methods of the block manager do to its pools: lemmas for the      *)
(* proofs about the schedules that call them.  They are about models without  *)
(* a sliding window, in which a table holds a block at most once.             *)
EXTENDS SequenceGroups, FiniteSetTheorems, FunctionTheorems, SequenceTheorems, TLAPS

\* The sequences that hold b when the tables are t.
HoldersIn(t, b) == {s \in Seqs : b \in Range(t[s])}

\* What every method keeps: typed tables that hold a block at most once, and
\* counts and free list that say who holds what.
ManagerInv ==
    /\ table \in [Seqs -> Seq(Blocks)]
    /\ \A s \in Seqs : IsInjective(table[s])
    /\ ref \in [Blocks -> Nat]
    /\ free \subseteq Blocks
    /\ PoolExact

-----------------------------------------------------------------------------
\* Without a window a sequence uses all of its table.
LEMMA HoldersAreTables ==
    ASSUME Window = 0, NEW b
    PROVE  Holders(b) = HoldersIn(table, b) /\ Holders(b)' = HoldersIn(table', b)
BY DEF Holders, HoldersIn, InUse

LEMMA DisjointUnion ==
    ASSUME NEW S, NEW T, IsFiniteSet(S), IsFiniteSet(T), S \cap T = {}
    PROVE  /\ IsFiniteSet(S \cup T)
           /\ Cardinality(S \cup T) = Cardinality(S) + Cardinality(T)
           /\ Cardinality(S) \in Nat /\ Cardinality(T) \in Nat
<1>1. /\ IsFiniteSet(S \cup T)
      /\ Cardinality(S \cup T) = Cardinality(S) + Cardinality(T) - Cardinality(S \cap T)
  BY FS_Union
<1>2. Cardinality(S) \in Nat /\ Cardinality(T) \in Nat
  BY FS_CardinalityType
<1>3. Cardinality(S \cap T) = 0
  BY FS_EmptySet
<1> QED
  BY <1>1, <1>2, <1>3

LEMMA HoldersFinite ==
    ASSUME NEW t, NEW b
    PROVE  /\ IsFiniteSet(HoldersIn(t, b))
           /\ Cardinality(HoldersIn(t, b)) \in Nat
           /\ Cardinality(HoldersIn(t, b)) = 0 <=> HoldersIn(t, b) = {}
<1>1. HoldersIn(t, b) \in SUBSET Seqs
  BY DEF HoldersIn
<1>2. IsFiniteSet(HoldersIn(t, b))
  BY <1>1, DevicesAssumption, FS_Subset
<1> QED
  BY <1>2, FS_EmptySet, FS_CardinalityType

\* Nobody holds a free block, and the count of a free block is 0.
LEMMA FreeIsUnheld ==
    ASSUME Window = 0, ManagerInv
    PROVE  \A b \in Blocks : /\ ref[b] = Cardinality(HoldersIn(table, b))
                             /\ b \in free <=> HoldersIn(table, b) = {}
                             /\ b \in free <=> ref[b] = 0
<1>1. \A b \in Blocks : /\ ref[b] = Cardinality(HoldersIn(table, b))
                        /\ b \in free <=> HoldersIn(table, b) = {}
  BY HoldersAreTables DEF ManagerInv, PoolExact, RefCountsExact, FreeListExact
<1> QED
  BY <1>1, HoldersFinite

\* A block is in use when a table has it, before a step and after it.
LEMMA InTables ==
    ASSUME Window = 0
    PROVE  /\ ManagerInv => \A b \in Blocks : b \notin free <=> \E s \in Seqs : b \in Range(table[s])
           /\ ManagerInv' => \A b \in Blocks :
                                b \notin free' <=> \E s \in Seqs : b \in Range(table'[s])
BY HoldersAreTables DEF ManagerInv, PoolExact, FreeListExact, HoldersIn

\* What a method adds to each count and takes from it is the change in the
\* number of holders, the blocks it takes get a count, and no other free block
\* does.
Balanced(taken, gain, loss, newTable) ==
    /\ taken \subseteq free
    /\ gain \in [Blocks -> Nat] /\ loss \in [Blocks -> Nat]
    /\ newTable \in [Seqs -> Seq(Blocks)]
    /\ \A s \in Seqs : IsInjective(newTable[s])
    /\ \A b \in taken : gain[b] > 0
    /\ \A b \in free \ taken : gain[b] = 0
    /\ \A b \in Blocks :
          Cardinality(HoldersIn(newTable, b))
             = (IF b \in taken THEN 0 ELSE ref[b]) + gain[b] - loss[b]

\* Such a method keeps the pools exact, and frees no block twice.
LEMMA AccountExact ==
    ASSUME Window = 0, ManagerInv,
           NEW taken, NEW gain, NEW loss, NEW newTable,
           Balanced(taken, gain, loss, newTable),
           Account(taken, gain, loss, newTable)
    PROVE  ManagerInv' /\ table' = newTable /\ raised' = raised
           /\ \A b \in Blocks : b \in free' <=> HoldersIn(newTable, b) = {}
<1> USE DEF Balanced
<1> DEFINE before == [b \in Blocks |-> (IF b \in taken THEN 0 ELSE ref[b]) + gain[b]]
<1>1. /\ before \in [Blocks -> Nat]
      /\ \A b \in Blocks : /\ Cardinality(HoldersIn(newTable, b)) = before[b] - loss[b]
                           /\ Cardinality(HoldersIn(newTable, b)) \in Nat
                           /\ loss[b] \in Nat /\ gain[b] \in Nat /\ before[b] \in Nat
                           /\ ref[b] \in Nat
  BY HoldersFinite DEF ManagerInv
<1>2. ~ \E b \in Blocks : loss[b] > before[b]
  BY <1>1
<1>3. /\ ref' = [b \in Blocks |-> before[b] - loss[b]]
      /\ free' = (free \ taken) \cup {b \in Blocks : loss[b] > 0 /\ loss[b] = before[b]}
      /\ table' = newTable
      /\ raised' = raised
  BY <1>2 DEF Account
<1>4. ref' \in [Blocks -> Nat]
  BY <1>1, <1>3
<1>5. free' \subseteq Blocks
  BY <1>3 DEF ManagerInv
<1>6. \A b \in Blocks : ref'[b] = Cardinality(HoldersIn(newTable, b))
  BY <1>1, <1>3
<1>7. ASSUME NEW b \in Blocks
      PROVE  b \in free' <=> HoldersIn(newTable, b) = {}
  <2>1. b \in free <=> ref[b] = 0
    BY FreeIsUnheld
  <2>2. b \in free' <=> (b \in free /\ b \notin taken) \/ (loss[b] > 0 /\ loss[b] = before[b])
    BY <1>3
  <2>3. before[b] = (IF b \in taken THEN 0 ELSE ref[b]) + gain[b]
    OBVIOUS
  <2>4. b \in taken => gain[b] > 0
    OBVIOUS
  <2>5. b \in free /\ b \notin taken => gain[b] = 0
    OBVIOUS
  <2>6. HoldersIn(newTable, b) = {} <=> before[b] - loss[b] = 0
    BY <1>1, HoldersFinite
  <2> HIDE DEF before
  <2>7. CASE b \in free /\ b \notin taken
    <3>1. before[b] = 0
      BY <1>1, <2>1, <2>3, <2>5, <2>7
    <3> QED
      BY <1>1, <2>2, <2>6, <2>7, <3>1
  <2>8. CASE ~(b \in free /\ b \notin taken)
    <3>1. before[b] > 0
      BY <1>1, <2>1, <2>3, <2>4, <2>8
    <3> QED
      BY <1>1, <2>2, <2>6, <2>8, <3>1
  <2> QED
    BY <2>7, <2>8
<1>8. \A b : Holders(b)' = HoldersIn(newTable, b)
  BY <1>3, HoldersAreTables
<1>9. PoolExact'
  BY <1>6, <1>7, <1>8 DEF PoolExact, RefCountsExact, FreeListExact
<1> QED
  BY <1>3, <1>4, <1>5, <1>7, <1>9 DEF ManagerInv

-----------------------------------------------------------------------------
\* What the output processor forks and frees: the children are new, and none
\* of them is freed at once.
Forkable(parentOf, F) ==
    /\ DOMAIN parentOf \subseteq Seqs \ F /\ F \subseteq Seqs
    /\ parentOf \in [DOMAIN parentOf -> Seqs]
    /\ \A c \in DOMAIN parentOf : table[c] = <<>>

\* fork and free: each child gets the table of its parent, the sequences in F
\* lose theirs, and no count is wrong for it.
LEMMA ForkAndFreeExact ==
    ASSUME Window = 0, ManagerInv, NEW parentOf, NEW F,
           Forkable(parentOf, F), ForkAndFree(parentOf, F)
    PROVE  /\ ManagerInv' /\ raised' = raised
           /\ \A s \in Seqs : table'[s] = CASE s \in DOMAIN parentOf -> table[parentOf[s]]
                                            [] s \in F -> <<>>
                                            [] OTHER -> table[s]
<1> DEFINE C == DOMAIN parentOf
<1>0. /\ C \in SUBSET Seqs /\ F \in SUBSET Seqs /\ C \cap F = {}
      /\ parentOf \in [C -> Seqs] /\ \A c \in C : table[c] = <<>>
  BY DEF Forkable
<1> DEFINE newTable == [s \in Seqs |-> CASE s \in C -> table[parentOf[s]]
                                         [] s \in F -> <<>>
                                         [] OTHER   -> table[s]]
           K(b) == {c \in C : b \in Range(table[parentOf[c]])}
           L(b) == {s \in F : b \in Range(table[s])}
           gain == [b \in Blocks |-> Cardinality(K(b))]
           loss == [b \in Blocks |-> Cardinality(L(b))]
<1>1. Account({}, gain, loss, newTable)
  <2>1. \A b, s : b \in InUse(table[s]) <=> b \in Range(table[s])
    BY DEF InUse
  <2> QED
    BY <1>0, <2>1 DEF ForkAndFree
<1> HIDE DEF C
<1>2. /\ newTable \in [Seqs -> Seq(Blocks)]
      /\ \A s \in Seqs : IsInjective(newTable[s])
  <2>1. \A s \in Seqs : table[s] \in Seq(Blocks) /\ IsInjective(table[s])
    BY DEF ManagerInv
  <2>2. <<>> \in Seq(Blocks) /\ IsInjective(<<>>)
    BY DEF IsInjective
  <2>3. \A s \in Seqs : s \in C => parentOf[s] \in Seqs
    BY <1>0
  <2>4. ASSUME NEW s \in Seqs
        PROVE  newTable[s] \in Seq(Blocks) /\ IsInjective(newTable[s])
    BY <2>1, <2>2, <2>3
  <2> QED
    BY <2>4
<1>3. ASSUME NEW b \in Blocks
      PROVE  /\ gain[b] \in Nat /\ loss[b] \in Nat
             /\ Cardinality(HoldersIn(newTable, b)) = ref[b] + gain[b] - loss[b]
             /\ b \in free => gain[b] = 0
  <2> DEFINE H == HoldersIn(table, b)
  <2>1. /\ IsFiniteSet(H) /\ Cardinality(H) \in Nat /\ ref[b] = Cardinality(H)
        /\ b \in free => H = {}
    BY HoldersFinite, FreeIsUnheld
  <2>2. IsFiniteSet(K(b)) /\ Cardinality(K(b)) \in Nat
    <3>1. K(b) \in SUBSET Seqs
      BY <1>0
    <3> QED
      BY <3>1, DevicesAssumption, FS_Subset, FS_CardinalityType
  <2>3. L(b) = H \cap F
    BY <1>0 DEF HoldersIn
  <2>4. H \cap C = {}
    BY <1>0 DEF HoldersIn, Range
  <2>5. HoldersIn(newTable, b) = (H \ F) \cup K(b)
    <3>1. ASSUME NEW s \in Seqs
          PROVE  b \in Range(newTable[s]) <=> s \in (H \ F) \cup K(b)
      <4>1. CASE s \in C
        BY <1>0, <2>4, <4>1
      <4>2. CASE s \notin C /\ s \in F
        BY <4>2 DEF Range
      <4>3. CASE s \notin C /\ s \notin F
        BY <4>3 DEF HoldersIn
      <4> QED
        BY <4>1, <4>2, <4>3
    <3>2. (H \ F) \cup K(b) \subseteq Seqs
      BY <1>0 DEF HoldersIn
    <3> HIDE DEF newTable, H, K
    <3>3. HoldersIn(newTable, b) = {s \in Seqs : b \in Range(newTable[s])}
      BY DEF HoldersIn
    <3> QED
      BY <3>1, <3>2, <3>3
  <2>6. (H \ F) \cap K(b) = {}
    BY <1>0, <2>4
  <2> HIDE DEF H, K
  <2>7. /\ IsFiniteSet(H \ F)
        /\ Cardinality(H \ F) = Cardinality(H) - Cardinality(H \cap F)
    BY <2>1, FS_Difference
  <2>8. IsFiniteSet(H \cap F) /\ Cardinality(H \cap F) \in Nat
    BY <2>1, FS_Intersection, FS_CardinalityType
  <2>9. Cardinality((H \ F) \cup K(b)) = Cardinality(H \ F) + Cardinality(K(b))
    BY <2>2, <2>6, <2>7, DisjointUnion
  <2>10. b \in free => K(b) = {}
    <3>1. ASSUME NEW c \in K(b), b \in free PROVE FALSE
      BY <1>0, <2>1, <3>1 DEF K, H, HoldersIn
    <3> QED
      BY <3>1
  <2>11. gain[b] = Cardinality(K(b)) /\ loss[b] = Cardinality(H \cap F)
    BY <2>3
  <2>12. Cardinality(K(b)) = 0 \/ K(b) # {}
    BY FS_EmptySet
  <2> HIDE DEF gain, loss, newTable
  <2>13. Cardinality(HoldersIn(newTable, b)) = ref[b] + gain[b] - loss[b]
    BY <2>1, <2>2, <2>5, <2>7, <2>8, <2>9, <2>11
  <2> QED
    BY <2>1, <2>2, <2>8, <2>10, <2>11, <2>12, <2>13
<1> HIDE DEF newTable, gain, loss
<1>4. /\ gain \in [Blocks -> Nat] /\ loss \in [Blocks -> Nat]
  BY <1>3 DEF gain, loss
<1>5. Balanced({}, gain, loss, newTable)
  <2>1. \A b \in free : gain[b] = 0
    BY <1>3 DEF ManagerInv
  <2> QED
    BY <1>2, <1>3, <1>4, <2>1 DEF Balanced
<1>6. ManagerInv' /\ table' = newTable /\ raised' = raised
  BY <1>1, <1>5, AccountExact
<1> QED
  BY <1>6 DEF newTable, C

\* free drops the tables of S.
LEMMA FreeExact ==
    ASSUME Window = 0, ManagerInv, NEW S \in SUBSET Seqs, Free(S)
    PROVE  /\ ManagerInv' /\ raised' = raised
           /\ \A s \in Seqs : table'[s] = IF s \in S THEN <<>> ELSE table[s]
<1>1. DOMAIN NoForks = {} /\ NoForks = [c \in {} |-> c]
  BY DEF NoForks
<1>2. ForkAndFree(NoForks, S)
  BY DEF Free
<1>3. Forkable(NoForks, S)
  BY <1>1 DEF Forkable
<1>4. /\ ManagerInv' /\ raised' = raised
      /\ \A s \in Seqs : table'[s] = CASE s \in DOMAIN NoForks -> table[NoForks[s]]
                                       [] s \in S -> <<>>
                                       [] OTHER -> table[s]
  BY <1>2, <1>3, ForkAndFreeExact
<1> QED
  BY <1>1, <1>4

-----------------------------------------------------------------------------
\* An allocator with enough free blocks has a choice of distinct ones.
LEMMA InjectionExists ==
    ASSUME NEW S, NEW T, IsFiniteSet(S), IsFiniteSet(T),
           Cardinality(S) <= Cardinality(T)
    PROVE  /\ (CHOOSE f \in Injection(S, T) : TRUE) \in [S -> T]
           /\ IsInjective(CHOOSE f \in Injection(S, T) : TRUE)
<1> DEFINE m == Cardinality(S)
           n == Cardinality(T)
<1>1. m \in Nat /\ n \in Nat /\ m <= n
  BY FS_CardinalityType
<1>2. ExistsBijection(1 .. m, S) /\ ExistsBijection(1 .. n, T)
  BY FS_CardinalityType
<1> HIDE DEF m, n
<1>3. PICK from \in Bijection(1 .. m, S) : TRUE
  BY <1>2 DEF ExistsBijection
<1>4. PICK to \in Bijection(1 .. n, T) : TRUE
  BY <1>2 DEF ExistsBijection
<1>5. /\ from \in [1 .. m -> S]
      /\ \A x \in S : \E i \in 1 .. m : from[i] = x
  BY <1>3 DEF Bijection, Surjection, Injection
<1>6. /\ to \in [1 .. n -> T]
      /\ \A i, j \in 1 .. n : to[i] = to[j] => i = j
  BY <1>4 DEF Bijection, Injection, IsInjective
<1> DEFINE at(x) == CHOOSE i \in 1 .. m : from[i] = x
           f == [x \in S |-> to[at(x)]]
<1>7. \A x \in S : at(x) \in 1 .. m /\ from[at(x)] = x
  BY <1>5
<1>8. \A x \in S : at(x) \in 1 .. n
  BY <1>1, <1>7
<1> HIDE DEF at
<1>9. f \in [S -> T]
  BY <1>6, <1>8
<1>10. \A x, y \in S : f[x] = f[y] => x = y
  BY <1>6, <1>7, <1>8
<1> HIDE DEF f
<1>11. f \in Injection(S, T)
  BY <1>9, <1>10 DEF Injection, IsInjective
<1>12. (CHOOSE g \in Injection(S, T) : TRUE) \in Injection(S, T)
  BY <1>11
<1> QED
  BY <1>12 DEF Injection

\* The free blocks of each device are finitely many, and nobody holds them.
LEMMA FreePools ==
    ASSUME ManagerInv
    PROVE  /\ IsFiniteSet(FreeGpu) /\ Cardinality(FreeGpu) \in Nat
           /\ IsFiniteSet(FreeCpu) /\ Cardinality(FreeCpu) \in Nat
           /\ FreeGpu \subseteq Blocks /\ FreeGpu \subseteq free
           /\ FreeCpu \subseteq Blocks /\ FreeCpu \subseteq free
<1>1. FreeGpu \in SUBSET GpuBlocks /\ FreeCpu \in SUBSET CpuBlocks
  BY DEF FreeGpu, FreeCpu
<1>2. IsFiniteSet(FreeGpu) /\ IsFiniteSet(FreeCpu)
  BY <1>1, DevicesAssumption, FS_Subset
<1> QED
  BY <1>2, FS_CardinalityType DEF FreeGpu, FreeCpu, Blocks, ManagerInv

\* What can_allocate has checked for a group whose sequences S hold nothing.
Allocatable(S, n, numSeqs) ==
    /\ S \subseteq Seqs /\ S # {} /\ numSeqs = Cardinality(S)
    /\ \A s \in S : table[s] = <<>>
    /\ n \in Nat \ {0} /\ n <= Cardinality(FreeGpu)

\* allocate: the sequences of S share n blocks of the GPU.
LEMMA AllocateExact ==
    ASSUME Window = 0, ManagerInv, NEW S, NEW n, NEW numSeqs,
           Allocatable(S, n, numSeqs), Allocate(S, n, numSeqs)
    PROVE  /\ ManagerInv' /\ raised' = raised
           /\ \A s \in S : /\ table'[s] \in Seq(GpuBlocks) /\ Len(table'[s]) = n
                           /\ Range(table'[s]) \subseteq FreeGpu
           /\ \A s \in Seqs \ S : table'[s] = table[s]
<1>0. /\ S \in SUBSET Seqs /\ S # {} /\ numSeqs = Cardinality(S)
      /\ \A s \in S : table[s] = <<>>
      /\ n \in Nat /\ n > 0 /\ n <= Cardinality(FreeGpu)
  BY DEF Allocatable
<1> DEFINE pick == CHOOSE f \in Injection(1 .. n, FreeGpu) : TRUE
           t == [i \in 1 .. n |-> pick[i]]
           taken == Range(pick)
           gain == [b \in Blocks |-> IF b \in taken THEN numSeqs ELSE 0]
           newTable == [s \in Seqs |-> IF s \in S THEN t ELSE table[s]]
<1>1. InWindow(n) = n
  BY DEF InWindow
<1>2. \A i \in 1 .. n : ((i - 1) % n) + 1 = i
  BY <1>0
<1>3. Account(taken, gain, None, newTable)
  <2>1. t = [i \in 1 .. n |-> pick[((i - 1) % n) + 1]]
    BY <1>2
  <2>2. ~ (Cardinality(FreeGpu) < n)
    BY <1>0, FreePools
  <2>3. Allocate(S, n, numSeqs) <=> Account(taken, gain, None,
            [s \in Seqs |-> IF s \in S THEN [i \in 1 .. n |-> pick[((i - 1) % n) + 1]]
                                       ELSE table[s]])
    BY <1>1, <2>2 DEF Allocate
  <2> QED
    BY <2>1, <2>3
<1>4. pick \in [1 .. n -> FreeGpu] /\ IsInjective(pick)
  <2> DEFINE new == 1 .. n
  <2>1. IsFiniteSet(new) /\ Cardinality(new) = n
    BY <1>0, FS_Interval
  <2>2. /\ IsFiniteSet(FreeGpu) /\ Cardinality(new) <= Cardinality(FreeGpu)
    BY <1>0, <2>1, FreePools
  <2>3. pick = CHOOSE f \in Injection(new, FreeGpu) : TRUE
    OBVIOUS
  <2> HIDE DEF new, pick
  <2>4. pick \in [new -> FreeGpu] /\ IsInjective(pick)
    BY <2>1, <2>2, <2>3, InjectionExists
  <2> QED
    BY <2>4 DEF new
<1> HIDE DEF pick
<1>5. /\ t = pick /\ t \in Seq(FreeGpu) /\ Len(t) = n /\ Range(t) = taken
      /\ taken \subseteq FreeGpu
  BY <1>0, <1>4 DEF Range
<1>6. t \in Seq(Blocks) /\ t \in Seq(GpuBlocks)
  <2>1. FreeGpu \subseteq Blocks /\ FreeGpu \subseteq GpuBlocks
    BY FreePools DEF FreeGpu
  <2> HIDE DEF t
  <2> QED
    BY <1>5, <2>1, SeqMonotonic
<1>7. IsInjective(t)
  BY <1>4, <1>5
<1> HIDE DEF t, taken
<1>8. numSeqs \in Nat /\ numSeqs > 0
  <2>1. IsFiniteSet(S)
    BY <1>0, DevicesAssumption, FS_Subset
  <2> QED
    BY <1>0, <2>1, FS_CardinalityType, FS_EmptySet
<1>9. /\ newTable \in [Seqs -> Seq(Blocks)]
      /\ \A s \in Seqs : IsInjective(newTable[s])
  BY <1>6, <1>7 DEF ManagerInv
<1>10. ASSUME NEW b \in Blocks
       PROVE  Cardinality(HoldersIn(newTable, b))
                 = (IF b \in taken THEN 0 ELSE ref[b]) + gain[b] - None[b]
  <2>1. gain[b] = IF b \in taken THEN numSeqs ELSE 0
    OBVIOUS
  <2>2. None[b] = 0
    BY DEF None
  <2>3. ref[b] \in Nat /\ ref[b] = Cardinality(HoldersIn(table, b))
    BY FreeIsUnheld DEF ManagerInv
  <2>4. CASE b \in taken
    <3>1. HoldersIn(table, b) = {}
      BY <1>5, <2>4, FreePools, FreeIsUnheld
    <3>2. HoldersIn(newTable, b) = S
      BY <1>0, <1>5, <2>4, <3>1 DEF HoldersIn
    <3> QED
      BY <1>0, <1>8, <2>1, <2>2, <2>4, <3>2
  <2>5. CASE b \notin taken
    <3>1. \A s \in S : Range(table[s]) = {}
      BY <1>0 DEF Range
    <3>2. HoldersIn(newTable, b) = HoldersIn(table, b)
      BY <1>0, <1>5, <2>5, <3>1 DEF HoldersIn
    <3> HIDE DEF gain, newTable
    <3> QED
      BY <2>1, <2>2, <2>3, <2>5, <3>2
  <2> QED
    BY <2>4, <2>5
<1>11. /\ gain \in [Blocks -> Nat] /\ None \in [Blocks -> Nat]
       /\ \A b \in taken : gain[b] > 0
       /\ \A b \in free \ taken : gain[b] = 0
       /\ taken \subseteq free
  BY <1>5, <1>8, FreePools DEF None, ManagerInv
<1> HIDE DEF gain, newTable
<1>12. Balanced(taken, gain, None, newTable)
  BY <1>9, <1>10, <1>11 DEF Balanced
<1>13. ManagerInv' /\ raised' = raised /\ table' = newTable
  BY <1>3, <1>12, AccountExact
<1> QED
  BY <1>0, <1>5, <1>6, <1>13 DEF newTable

-----------------------------------------------------------------------------
\* What append_slots needs of a sequence: a table on the GPU with at most one
\* block less than its tokens fill, and a free block.
Appendable(s, n) ==
    /\ s \in Seqs /\ n \in Nat \ {0}
    /\ table[s] \in Seq(GpuBlocks) /\ Len(table[s]) \in {n - 1, n}
    /\ FreeGpu # {}

AppendOne(b) == [a \in Blocks |-> IF a = b THEN 1 ELSE 0]
AppendNew == CHOOSE b \in FreeGpu : TRUE

\* The three ways of append_slots: a new block, the last one, or a copy of it.
LEMMA AppendSlotsCases ==
    ASSUME Window = 0, ManagerInv, NEW s, NEW n,
           Appendable(s, n), AppendSlots(s, n)
    PROVE  \/ /\ Len(table[s]) = n - 1
              /\ Account({AppendNew}, AppendOne(AppendNew), None,
                         [table EXCEPT ![s] = Append(table[s], AppendNew)])
           \/ /\ Len(table[s]) = n /\ ref[table[s][n]] = 1
              /\ table' = table /\ UNCHANGED <<ref, free, raised>>
           \/ /\ Len(table[s]) = n /\ ref[table[s][n]] # 1
              /\ Account({AppendNew}, AppendOne(AppendNew), AppendOne(table[s][n]),
                         [table EXCEPT ![s] = [table[s] EXCEPT ![n] = AppendNew]])
<1>0. /\ s \in Seqs /\ n \in Nat /\ n > 0
      /\ table[s] \in Seq(GpuBlocks) /\ Len(table[s]) \in {n - 1, n}
      /\ FreeGpu # {} /\ Window = 0
  BY DEF Appendable
<1>1. CASE Len(table[s]) = n - 1
  BY <1>0, <1>1 DEF AppendSlots, AppendOne, AppendNew
<1>2. CASE Len(table[s]) = n
  <2>1. table[s][n] \in GpuBlocks
    BY <1>0, <1>2
  <2> DEFINE t == IF Len(table[s]) < n /\ Window > 0 /\ Len(table[s]) >= Window
                  THEN Append(table[s], table[s][(Len(table[s]) % Window) + 1])
                  ELSE table[s]
  <2>2. t = table[s] /\ Len(t) = n /\ t[Len(t)] = table[s][n]
    BY <1>0, <1>2
  <2>3. ~(Len(table[s]) < n) /\ ~(Len(table[s]) < n /\ Len(table[s]) # n - 1)
    BY <1>0, <1>2
  <2>4. [table EXCEPT ![s] = t] = table
    BY <1>0, <2>2 DEF ManagerInv
  <2>5. AppendSlots(s, n) <=>
          IF t[Len(t)] \notin GpuBlocks THEN Raise("AssertionError")
          ELSE IF ref[t[Len(t)]] = 1
          THEN table' = [table EXCEPT ![s] = t] /\ UNCHANGED <<ref, free, raised>>
          ELSE Account({AppendNew}, AppendOne(AppendNew), AppendOne(t[Len(t)]),
                       [table EXCEPT ![s] = [t EXCEPT ![Len(t)] = AppendNew]])
    BY <1>0, <2>3, Zenon DEF AppendSlots, AppendOne, AppendNew
  <2> HIDE DEF t
  <2> QED
    BY <1>2, <2>1, <2>2, <2>4, <2>5, Zenon
<1> QED
  BY <1>0, <1>1, <1>2

\* append_slots: the newest token of s is in a block that only s holds, at the
\* price of at most one free block, and no other table changes.
LEMMA AppendSlotsExact ==
    ASSUME Window = 0, ManagerInv, NEW s, NEW n,
           Appendable(s, n), AppendSlots(s, n)
    PROVE  /\ ManagerInv' /\ raised' = raised
           /\ table'[s] \in Seq(GpuBlocks) /\ Len(table'[s]) = n
           /\ HoldersIn(table', table'[s][n]) = {s}
           /\ Range(table'[s]) \subseteq Range(table[s]) \cup FreeGpu
           /\ \A q \in Seqs \ {s} : table'[q] = table[q]
           /\ Cardinality(FreeGpu') >= Cardinality(FreeGpu) - 1
<1>0. /\ s \in Seqs /\ n \in Nat /\ n > 0
      /\ table[s] \in Seq(GpuBlocks) /\ Len(table[s]) \in {n - 1, n}
      /\ table[s] \in Seq(Blocks) /\ IsInjective(table[s])
  BY DEF Appendable, ManagerInv
<1> DEFINE new == AppendNew
           old == table[s]
<1>1. /\ new \in FreeGpu /\ new \in Blocks /\ new \in GpuBlocks /\ new \in free
      /\ HoldersIn(table, new) = {} /\ ref[new] = 0
  BY FreePools, FreeIsUnheld DEF Appendable, AppendNew, FreeGpu
<1> HIDE DEF new
<1>2. new \notin Range(old)
  BY <1>0, <1>1 DEF HoldersIn
<1>3. /\ AppendOne(new) \in [Blocks -> Nat] /\ AppendOne(new)[new] = 1
      /\ \A b \in Blocks \ {new} : AppendOne(new)[b] = 0
  BY <1>1 DEF AppendOne
<1>4. \A b \in Blocks : /\ ref[b] \in Nat /\ ref[b] = Cardinality(HoldersIn(table, b))
                        /\ IsFiniteSet(HoldersIn(table, b))
  BY FreeIsUnheld, HoldersFinite DEF ManagerInv
<1>5. ASSUME NEW newTable, ManagerInv', table' = newTable,
             newTable \in [Seqs -> Seq(Blocks)],
             \A q \in Seqs \ {s} : newTable[q] = table[q],
             Range(newTable[s]) \subseteq Range(old) \cup {new},
             \A b \in Blocks : b \in free' <=> HoldersIn(newTable, b) = {}
      PROVE  Cardinality(FreeGpu') >= Cardinality(FreeGpu) - 1
  <2>1. FreeGpu \subseteq FreeGpu' \cup {new}
    <3>1. ASSUME NEW b \in FreeGpu, b # new PROVE b \in FreeGpu'
      <4>1. b \in Blocks /\ b \in GpuBlocks /\ HoldersIn(table, b) = {}
        BY FreePools, FreeIsUnheld DEF FreeGpu
      <4>2. HoldersIn(newTable, b) = {}
        BY <1>0, <1>5, <3>1, <4>1 DEF HoldersIn
      <4> QED
        BY <1>5, <4>1, <4>2 DEF FreeGpu
    <3> QED
      BY <3>1
  <2>2. IsFiniteSet(FreeGpu') /\ Cardinality(FreeGpu') \in Nat
    <3>1. FreeGpu' \in SUBSET GpuBlocks
      BY DEF FreeGpu
    <3> QED
      BY <3>1, DevicesAssumption, FS_Subset, FS_CardinalityType
  <2>3. /\ IsFiniteSet(FreeGpu' \cup {new})
        /\ Cardinality(FreeGpu' \cup {new}) <= Cardinality(FreeGpu') + 1
    BY <2>2, FS_AddElement
  <2>4. Cardinality(FreeGpu) <= Cardinality(FreeGpu' \cup {new})
    BY <2>1, <2>3, FS_Subset
  <2>5. Cardinality(FreeGpu) \in Nat /\ Cardinality(FreeGpu' \cup {new}) \in Nat
    BY <2>3, FreePools, FS_CardinalityType
  <2> QED
    BY <2>2, <2>3, <2>4, <2>5
<1>6. CASE /\ Len(old) = n - 1
           /\ Account({new}, AppendOne(new), None, [table EXCEPT ![s] = Append(old, new)])
  <2> DEFINE newTable == [table EXCEPT ![s] = Append(old, new)]
  <2>1. /\ Append(old, new) \in Seq(Blocks) /\ Append(old, new) \in Seq(GpuBlocks)
        /\ Len(Append(old, new)) = n /\ Append(old, new)[n] = new
        /\ IsInjective(Append(old, new))
        /\ Range(Append(old, new)) = Range(old) \cup {new}
    <3>1. /\ Append(old, new) \in Seq(Blocks) /\ Append(old, new) \in Seq(GpuBlocks)
          /\ Len(Append(old, new)) = n /\ Append(old, new)[n] = new
          /\ \A i \in 1 .. n - 1 : Append(old, new)[i] = old[i]
      BY <1>0, <1>1, <1>6, AppendProperties
    <3>2. /\ DOMAIN Append(old, new) = 1 .. n /\ DOMAIN old = 1 .. n - 1
      BY <1>0, <1>6, <3>1, LenProperties
    <3>3. \A i \in 1 .. n : i \in 1 .. n - 1 \/ i = n
      BY <1>0
    <3>4. \A i \in 1 .. n - 1 : old[i] \in Range(old)
      BY <3>2 DEF Range
    <3>5. IsInjective(Append(old, new))
      BY <1>0, <1>2, <3>1, <3>2, <3>3, <3>4 DEF IsInjective
    <3>6. Range(Append(old, new)) = Range(old) \cup {new}
      BY <1>0, <3>1, <3>2, <3>3 DEF Range
    <3> QED
      BY <3>1, <3>5, <3>6
  <2>2. /\ newTable \in [Seqs -> Seq(Blocks)] /\ newTable[s] = Append(old, new)
        /\ \A q \in Seqs \ {s} : newTable[q] = table[q]
        /\ \A q \in Seqs : IsInjective(newTable[q])
    BY <1>0, <2>1 DEF ManagerInv
  <2> HIDE DEF newTable
  <2>3. HoldersIn(newTable, new) = {s}
    BY <1>0, <1>1, <2>1, <2>2 DEF HoldersIn
  <2>4. \A b \in Blocks \ {new} : HoldersIn(newTable, b) = HoldersIn(table, b)
    BY <1>0, <2>1, <2>2 DEF HoldersIn
  <2>5. ASSUME NEW b \in Blocks
        PROVE  Cardinality(HoldersIn(newTable, b))
                 = (IF b \in {new} THEN 0 ELSE ref[b]) + AppendOne(new)[b] - None[b]
    <3>1. None[b] = 0 /\ Cardinality({s}) = 1
      BY FS_Singleton DEF None
    <3>2. CASE b = new
      BY <1>3, <2>3, <3>1, <3>2
    <3>3. CASE b # new
      BY <1>3, <1>4, <2>4, <3>1, <3>3
    <3> QED
      BY <3>2, <3>3
  <2>6. Balanced({new}, AppendOne(new), None, newTable)
    BY <1>1, <1>3, <2>2, <2>5 DEF Balanced, None, ManagerInv
  <2>7. /\ ManagerInv' /\ table' = newTable /\ raised' = raised
        /\ \A b \in Blocks : b \in free' <=> HoldersIn(newTable, b) = {}
    BY <1>6, <2>6, AccountExact DEF newTable
  <2>8. Cardinality(FreeGpu') >= Cardinality(FreeGpu) - 1
    BY <1>5, <2>1, <2>2, <2>7
  <2> QED
    BY <1>1, <2>1, <2>2, <2>3, <2>7, <2>8
<1>7. CASE Len(old) = n /\ table' = table /\ UNCHANGED <<ref, free, raised>>
           /\ ref[old[n]] = 1
  <2>1. old[n] \in Blocks /\ n \in DOMAIN old /\ s \in HoldersIn(table, old[n])
    BY <1>0, <1>7 DEF HoldersIn, Range
  <2>2. HoldersIn(table, old[n]) = {s}
    BY <1>4, <1>7, <2>1, FS_Singleton
  <2>3. ManagerInv' /\ FreeGpu' = FreeGpu
    BY <1>7 DEF ManagerInv, PoolExact, RefCountsExact, FreeListExact, Holders, FreeGpu
  <2>4. Cardinality(FreeGpu) \in Nat
    BY FreePools
  <2> QED
    BY <1>0, <1>7, <2>2, <2>3, <2>4
<1>8. CASE /\ Len(old) = n /\ ref[old[n]] # 1
           /\ Account({new}, AppendOne(new), AppendOne(old[n]),
                      [table EXCEPT ![s] = [old EXCEPT ![n] = new]])
  <2> DEFINE last == old[n]
             copy == [old EXCEPT ![n] = new]
             newTable == [table EXCEPT ![s] = copy]
  <2>1. /\ last \in Blocks /\ DOMAIN old = 1 .. n /\ n \in 1 .. n
        /\ last \in Range(old) /\ s \in HoldersIn(table, last) /\ last # new
    BY <1>0, <1>2, <1>8 DEF HoldersIn, Range
  <2>2. /\ copy \in Seq(Blocks) /\ copy \in Seq(GpuBlocks)
        /\ Len(copy) = n /\ DOMAIN copy = 1 .. n
        /\ \A j \in 1 .. n : copy[j] = IF j = n THEN new ELSE old[j]
    BY <1>0, <1>1, <1>8, <2>1, ExceptSeq, LenProperties
  <2>3. \A j \in 1 .. n : /\ old[j] \in Range(old)
                          /\ old[j] = last => j = n
    BY <1>0, <2>1 DEF Range, IsInjective
  <2> HIDE DEF last, copy
  <2>4. IsInjective(copy)
    BY <1>0, <1>2, <2>1, <2>2, <2>3 DEF IsInjective
  <2>5. Range(copy) = (Range(old) \ {last}) \cup {new}
    <3>1. \A b : b \in Range(copy) <=> \E j \in 1 .. n : copy[j] = b
      BY <2>2 DEF Range
    <3>2. \A b : b \in Range(old) <=> \E j \in 1 .. n : old[j] = b
      BY <2>1 DEF Range
    <3>3. old[n] = last
      BY DEF last
    <3>4. \A b : b \in Range(copy) <=> b = new \/ \E j \in 1 .. n : j # n /\ old[j] = b
      BY <2>1, <2>2, <3>1
    <3>5. \A b : (\E j \in 1 .. n : j # n /\ old[j] = b) <=> b \in Range(old) /\ b # last
      BY <2>3, <3>2, <3>3
    <3> QED
      BY <3>4, <3>5
  <2>6. /\ newTable \in [Seqs -> Seq(Blocks)] /\ newTable[s] = copy
        /\ \A q \in Seqs \ {s} : newTable[q] = table[q]
        /\ \A q \in Seqs : IsInjective(newTable[q])
    BY <1>0, <2>2, <2>4 DEF ManagerInv
  <2>7. Account({new}, AppendOne(new), AppendOne(last), newTable)
    BY <1>8 DEF last, copy
  <2> HIDE DEF newTable
  <2>8. HoldersIn(newTable, new) = {s}
    BY <1>0, <1>1, <2>5, <2>6 DEF HoldersIn
  <2>9. HoldersIn(newTable, last) = HoldersIn(table, last) \ {s}
    BY <1>0, <2>1, <2>5, <2>6 DEF HoldersIn
  <2>10. \A b \in Blocks \ {new, last} : HoldersIn(newTable, b) = HoldersIn(table, b)
    <3> TAKE b \in Blocks \ {new, last}
    <3>1. b \in Range(copy) <=> b \in Range(table[s])
      BY <1>0, <2>5
    <3>2. \A q \in Seqs : b \in Range(newTable[q]) <=> b \in Range(table[q])
      BY <2>6, <3>1
    <3> QED
      BY <3>2 DEF HoldersIn
  <2>11. /\ AppendOne(last) \in [Blocks -> Nat] /\ AppendOne(last)[last] = 1
         /\ \A b \in Blocks \ {last} : AppendOne(last)[b] = 0
    BY <2>1 DEF AppendOne
  <2>12. Cardinality(HoldersIn(newTable, last)) = ref[last] - 1
    BY <1>4, <2>1, <2>9, FS_RemoveElement
  <2>13. ASSUME NEW b \in Blocks
         PROVE  Cardinality(HoldersIn(newTable, b))
                  = (IF b \in {new} THEN 0 ELSE ref[b])
                    + AppendOne(new)[b] - AppendOne(last)[b]
    <3>1. Cardinality({s}) = 1
      BY FS_Singleton
    <3>2. CASE b = new
      <4>1. AppendOne(last)[new] = 0
        BY <1>1, <2>1, <2>11
      <4>2. Cardinality(HoldersIn(newTable, new)) = 1
        BY <2>8, <3>1
      <4> QED
        BY <1>3, <3>2, <4>1, <4>2
    <3>3. CASE b = last
      BY <1>3, <1>4, <2>1, <2>11, <2>12, <3>3
    <3>4. CASE b # new /\ b # last
      BY <1>3, <1>4, <2>10, <2>11, <3>4
    <3> QED
      BY <3>2, <3>3, <3>4
  <2>14. Balanced({new}, AppendOne(new), AppendOne(last), newTable)
    BY <1>1, <1>3, <2>6, <2>11, <2>13 DEF Balanced, ManagerInv
  <2>15. /\ ManagerInv' /\ table' = newTable /\ raised' = raised
         /\ \A b \in Blocks : b \in free' <=> HoldersIn(newTable, b) = {}
    BY <2>7, <2>14, AccountExact
  <2>16. Cardinality(FreeGpu') >= Cardinality(FreeGpu) - 1
    BY <1>5, <2>5, <2>6, <2>15
  <2> QED
    <3>1. table'[s] = copy /\ copy[n] = new
      BY <2>1, <2>2, <2>6, <2>15
    <3>2. HoldersIn(table', table'[s][n]) = {s}
      BY <2>8, <2>15, <3>1
    <3>3. Range(table'[s]) \subseteq Range(table[s]) \cup FreeGpu
      BY <1>1, <2>5, <3>1
    <3> QED
      BY <2>2, <2>6, <2>15, <2>16, <3>1, <3>2, <3>3
<1> QED
  <2>1. \/ /\ Len(old) = n - 1
           /\ Account({new}, AppendOne(new), None, [table EXCEPT ![s] = Append(old, new)])
        \/ /\ Len(old) = n /\ ref[old[n]] = 1
           /\ table' = table /\ UNCHANGED <<ref, free, raised>>
        \/ /\ Len(old) = n /\ ref[old[n]] # 1
           /\ Account({new}, AppendOne(new), AppendOne(old[n]),
                      [table EXCEPT ![s] = [old EXCEPT ![n] = new]])
    BY AppendSlotsCases DEF new
  <2> QED
    BY <1>6, <1>7, <1>8, <2>1


\* What append_slots changes: the table of s gets a new block at its end, or
\* keeps its blocks, or gets a new block for its last one, which others hold;
\* nothing becomes free, and what one sequence alone holds it holds alone.
LEMMA AppendSlotsMaps ==
    ASSUME Window = 0, ManagerInv, raised = "no", NEW s, NEW n,
           Appendable(s, n), AppendSlots(s, n)
    PROVE  /\ free' \subseteq free /\ \A b \in Blocks \ free : ref[b] = 1 => ref'[b] = 1
           /\ AppendNew \in FreeGpu /\ AppendNew \in Blocks
           /\ \/ /\ table' = [table EXCEPT ![s] = Append(table[s], AppendNew)]
                 /\ Len(table[s]) = n - 1
              \/ table' = table
              \/ /\ table' = [table EXCEPT ![s] = [table[s] EXCEPT ![n] = AppendNew]]
                 /\ Len(table[s]) = n /\ ref[table[s][n]] # 1 /\ ref'[AppendNew] = 1
<1>1. /\ ManagerInv' /\ raised' = "no"
  BY AppendSlotsExact
<1>2. AppendNew \in FreeGpu /\ AppendNew \in Blocks /\ AppendNew \in free
  BY FreePools DEF Appendable, AppendNew
<1> DEFINE new == AppendNew
<1> HIDE DEF new
<1>3. new \in FreeGpu /\ new \in Blocks /\ new \in free
  BY <1>2 DEF new
<1>4. ref \in [Blocks -> Nat]
  BY DEF ManagerInv
<1>5. /\ AppendOne(new)[new] = 1 /\ \A b \in Blocks \ {new} : AppendOne(new)[b] = 0
  BY <1>3 DEF AppendOne
<1>6. ASSUME NEW loss \in [Blocks -> Nat], NEW newTable,
             Account({new}, AppendOne(new), loss, newTable)
      PROVE  /\ table' = newTable /\ ref'[new] = 1 - loss[new]
             /\ \A b \in Blocks \ {new} : ref'[b] = ref[b] - loss[b]
             /\ \A b \in free' : b \in free \/ (b \in Blocks /\ loss[b] > 0 /\ loss[b] = ref[b])
  <2> DEFINE before == [b \in Blocks |-> (IF b \in {new} THEN 0 ELSE ref[b])
                                           + AppendOne(new)[b]]
  <2>1. before[new] = 1 /\ \A b \in Blocks \ {new} : before[b] = ref[b]
    BY <1>3, <1>4, <1>5
  <2>2. /\ table' = newTable
        /\ ref' = [b \in Blocks |-> before[b] - loss[b]]
        /\ free' = (free \ {new}) \cup {b \in Blocks : loss[b] > 0 /\ loss[b] = before[b]}
    <3> HIDE DEF before
    <3>1. before = [b \in Blocks |-> (IF b \in {new} THEN 0 ELSE ref[b]) + AppendOne(new)[b]]
      BY DEF before
    <3> QED
      BY <1>1, <1>6, <3>1 DEF Account, Raise
  <2> HIDE DEF before
  <2>3. \A b \in Blocks : ref'[b] = before[b] - loss[b]
    BY <2>2
  <2>4. \A b \in free' : b \in free \/ (b \in Blocks /\ loss[b] > 0 /\ loss[b] = before[b])
    BY <2>2
  <2> QED
    BY <1>3, <2>1, <2>2, <2>3, <2>4
<1>7. CASE /\ Len(table[s]) = n - 1
           /\ Account({new}, AppendOne(new), None, [table EXCEPT ![s] = Append(table[s], new)])
  <2>1. None \in [Blocks -> Nat] /\ \A b \in Blocks : None[b] = 0
    BY DEF None
  <2>2. /\ table' = [table EXCEPT ![s] = Append(table[s], new)]
        /\ \A b \in Blocks \ {new} : ref'[b] = ref[b] - None[b]
        /\ \A b \in free' : b \in free \/ (b \in Blocks /\ None[b] > 0 /\ None[b] = ref[b])
    BY <1>6, <1>7, <2>1
  <2>3. free' \subseteq free /\ \A b \in Blocks \ free : ref[b] = 1 => ref'[b] = 1
    BY <1>3, <2>1, <2>2
  <2> QED
    BY <1>2, <1>7, <2>2, <2>3 DEF new
<1>8. CASE table' = table /\ UNCHANGED <<ref, free, raised>>
  BY <1>2, <1>8
<1>9. CASE /\ Len(table[s]) = n /\ ref[table[s][n]] # 1
           /\ Account({new}, AppendOne(new), AppendOne(table[s][n]),
                      [table EXCEPT ![s] = [table[s] EXCEPT ![n] = new]])
  <2> DEFINE last == table[s][n]
  <2>1. last \in Blocks /\ last \notin free /\ last # new
    <3>1. s \in Seqs /\ n \in Nat /\ n \in 1 .. n /\ table[s] \in Seq(Blocks)
      BY DEF Appendable, ManagerInv
    <3>2. last \in Range(table[s]) /\ last \in Blocks
      BY <1>9, <3>1, ElementOfSeq, LenProperties DEF Range
    <3> QED
      BY <1>3, <3>1, <3>2, FreeIsUnheld DEF HoldersIn
  <2>2. ref[last] # 1
    BY <1>9
  <2> HIDE DEF last
  <2>3. /\ AppendOne(last) \in [Blocks -> Nat] /\ AppendOne(last)[last] = 1
        /\ \A b \in Blocks \ {last} : AppendOne(last)[b] = 0
    BY <2>1 DEF AppendOne
  <2>4. /\ table' = [table EXCEPT ![s] = [table[s] EXCEPT ![n] = new]]
        /\ ref'[new] = 1 - AppendOne(last)[new]
        /\ \A b \in Blocks \ {new} : ref'[b] = ref[b] - AppendOne(last)[b]
        /\ \A b \in free' : \/ b \in free
                            \/ /\ b \in Blocks /\ AppendOne(last)[b] > 0
                               /\ AppendOne(last)[b] = ref[b]
    BY <1>6, <1>9, <2>3 DEF last
  <2>5. free' \subseteq free
    BY <2>2, <2>3, <2>4
  <2>6. ASSUME NEW b \in Blocks \ free, ref[b] = 1 PROVE ref'[b] = 1
    <3>1. b # new /\ b # last
      BY <1>3, <2>2, <2>6
    <3> QED
      BY <2>3, <2>4, <2>6, <3>1
  <2>7. ref'[new] = 1
    BY <1>3, <2>1, <2>3, <2>4
  <2> QED
    BY <1>2, <1>9, <2>4, <2>5, <2>6, <2>7 DEF new, last
<1> QED
  <2>1. \/ /\ Len(table[s]) = n - 1
           /\ Account({new}, AppendOne(new), None, [table EXCEPT ![s] = Append(table[s], new)])
        \/ table' = table /\ UNCHANGED <<ref, free, raised>>
        \/ /\ Len(table[s]) = n /\ ref[table[s][n]] # 1
           /\ Account({new}, AppendOne(new), AppendOne(table[s][n]),
                      [table EXCEPT ![s] = [table[s] EXCEPT ![n] = new]])
    BY AppendSlotsCases DEF new
  <2> QED
    BY <1>7, <1>8, <1>9, <2>1
-----------------------------------------------------------------------------
\* The sequences of S whose table holds b.
HoldersOf(S, b) == {s \in S : b \in Range(table[s])}

\* A block occurs in the tables of S once for each sequence that holds it.
LEMMA OccursExact ==
    ASSUME ManagerInv, NEW S \in SUBSET Seqs, NEW b
    PROVE  Cardinality({o \in UNION {{s} \X DOMAIN table[s] : s \in S} :
                           table[o[1]][o[2]] = b})
             = Cardinality(HoldersOf(S, b))
<1> DEFINE O == {o \in UNION {{s} \X DOMAIN table[s] : s \in S} : table[o[1]][o[2]] = b}
           H == HoldersOf(S, b)
           at(s) == CHOOSE i \in DOMAIN table[s] : table[s][i] = b
           f == [s \in H |-> <<s, at(s)>>]
<1>1. \A s \in H : /\ s \in S /\ s \in Seqs /\ at(s) \in DOMAIN table[s]
                   /\ table[s][at(s)] = b
  BY DEF HoldersOf, Range
<1>2. \A o \in O : \E s \in S : o \in {s} \X DOMAIN table[s] /\ table[o[1]][o[2]] = b
  OBVIOUS
<1>3. \A s \in S : \A i \in DOMAIN table[s] : table[s][i] = b => <<s, i>> \in O /\ s \in H
  <2> TAKE s \in S
  <2> TAKE i \in DOMAIN table[s]
  <2> HAVE table[s][i] = b
  <2>1. <<s, i>> \in {s} \X DOMAIN table[s]
    OBVIOUS
  <2>2. <<s, i>>[1] = s /\ <<s, i>>[2] = i
    OBVIOUS
  <2> QED
    BY <2>1, <2>2 DEF HoldersOf, Range
<1> HIDE DEF at, O, H
<1>4. f \in [H -> O]
  BY <1>1, <1>3
<1>5. \A x, y \in H : f[x] = f[y] => x = y
  OBVIOUS
<1>6. ASSUME NEW o \in O PROVE \E s \in H : f[s] = o
  <2>1. PICK s \in S : o \in {s} \X DOMAIN table[s] /\ table[o[1]][o[2]] = b
    BY <1>2
  <2>2. PICK i \in DOMAIN table[s] : o = <<s, i>> /\ table[s][i] = b
    BY <2>1
  <2>3. s \in H
    BY <1>3, <2>2
  <2>4. at(s) = i
    BY <1>1, <2>2, <2>3 DEF ManagerInv, IsInjective
  <2> QED
    BY <2>2, <2>3, <2>4
<1>7. f \in Bijection(H, O)
  <2> HIDE DEF f
  <2> QED
    BY <1>4, <1>5, <1>6 DEF Bijection, Injection, Surjection, IsInjective
<1>8. IsFiniteSet(H)
  <2>1. H \in SUBSET Seqs
    BY DEF H, HoldersOf
  <2> QED
    BY <2>1, DevicesAssumption, FS_Subset
<1>9. Cardinality(O) = Cardinality(H)
  BY <1>7, <1>8, FS_Bijection DEF ExistsBijection
<1> QED
  BY <1>9 DEF O, H

\* The blocks of some tables are finitely many.
LEMMA TabledFinite ==
    ASSUME ManagerInv, NEW S \in SUBSET Seqs
    PROVE  /\ Tabled(S) \subseteq Blocks
           /\ IsFiniteSet(Tabled(S)) /\ Cardinality(Tabled(S)) \in Nat
           /\ \A b : b \in Tabled(S) <=> \E s \in S : b \in Range(table[s])
<1>1. \A b : b \in Tabled(S) <=> \E s \in S : b \in Range(table[s])
  BY DEF Tabled
<1>2. \A s \in S : Range(table[s]) \in SUBSET Blocks
  BY RangeOfSeq DEF ManagerInv
<1>3. Tabled(S) \in SUBSET Blocks
  BY <1>1, <1>2
<1>4. IsFiniteSet(Blocks)
  BY DevicesAssumption, FS_Union DEF Blocks
<1>5. IsFiniteSet(Tabled(S))
  BY <1>3, <1>4, FS_Subset
<1> QED
  BY <1>1, <1>3, <1>5, FS_CardinalityType

\* What can_swap_in and can_swap_out ask for.
Movable(S, there) ==
    /\ S \subseteq Seqs /\ there \in {FreeGpu, FreeCpu}
    /\ Cardinality(Tabled(S)) <= Cardinality(there)

\* swap_in and swap_out: the tables of S keep their length and the blocks they
\* share, on the other device, and no other table changes.
LEMMA MoveExact ==
    ASSUME Window = 0, ManagerInv, NEW S, NEW there,
           Movable(S, there), Move(S, there)
    PROVE  /\ ManagerInv' /\ raised' = raised
           /\ \A s \in S : Len(table'[s]) = Len(table[s]) /\ table'[s] \in Seq(there)
           /\ \A s \in Seqs \ S : table'[s] = table[s]
           /\ Cardinality(FreeGpu') >= Cardinality(FreeGpu) - Cardinality(Tabled(S))
<1> DEFINE old == Tabled(S)
           occurs(b) == Cardinality(
              {o \in UNION {{s} \X DOMAIN table[s] : s \in S} : table[o[1]][o[2]] = b})
           to == CHOOSE f \in Injection(old, there) : TRUE
           taken == Range(to)
           gain == [b \in Blocks |-> IF b \in taken
                      THEN occurs(CHOOSE a \in old : to[a] = b) ELSE 0]
           loss == [b \in Blocks |-> IF b \in old THEN occurs(b) ELSE 0]
           newTable == [s \in Seqs |-> IF s \in S
                      THEN [i \in DOMAIN table[s] |-> to[table[s][i]]]
                      ELSE table[s]]
<1>0. /\ S \in SUBSET Seqs /\ there \subseteq free /\ there \subseteq Blocks
      /\ IsFiniteSet(there) /\ Cardinality(there) \in Nat
      /\ Cardinality(old) <= Cardinality(there)
  BY FreePools DEF Movable
<1>1. /\ old \subseteq Blocks /\ IsFiniteSet(old) /\ Cardinality(old) \in Nat
      /\ \A b : b \in old <=> \E s \in S : b \in Range(table[s])
  BY <1>0, TabledFinite
<1>2. Account(taken, gain, loss, newTable)
  <2>1. ~ (Cardinality(old) > Cardinality(there))
    BY <1>0, <1>1
  <2> QED
    BY <2>1, Zenon DEF Move
<1>3. to \in [old -> there] /\ IsInjective(to)
  <2> HIDE DEF old
  <2> QED
    BY <1>0, <1>1, InjectionExists
<1>4. \A b : occurs(b) = Cardinality(HoldersOf(S, b))
  BY <1>0, OccursExact
<1> HIDE DEF occurs, to
<1>5. \A a \in old : (CHOOSE x \in old : to[x] = to[a]) = a
  BY <1>3 DEF IsInjective
<1>6. /\ \A b \in taken : b \in there /\ \E a \in old : to[a] = b
      /\ \A a \in old : to[a] \in taken
  BY <1>3 DEF Range
<1>7. \A b : /\ IsFiniteSet(HoldersOf(S, b)) /\ Cardinality(HoldersOf(S, b)) \in Nat
             /\ b \in old => Cardinality(HoldersOf(S, b)) > 0
  <2> TAKE b
  <2>1. HoldersOf(S, b) \in SUBSET Seqs
    BY <1>0 DEF HoldersOf
  <2>2. IsFiniteSet(HoldersOf(S, b))
    BY <2>1, DevicesAssumption, FS_Subset
  <2>3. b \in old => HoldersOf(S, b) # {}
    BY <1>1 DEF HoldersOf
  <2> QED
    BY <2>2, <2>3, FS_CardinalityType, FS_EmptySet
<1> HIDE DEF taken, old
<1>8. /\ \A a \in old : gain[to[a]] = Cardinality(HoldersOf(S, a))
      /\ \A b \in Blocks \ taken : gain[b] = 0
      /\ gain \in [Blocks -> Nat]
  <2>1. \A a \in old : gain[to[a]] = Cardinality(HoldersOf(S, a))
    BY <1>0, <1>4, <1>5, <1>6
  <2>2. \A b \in Blocks \ taken : gain[b] = 0
    OBVIOUS
  <2>3. ASSUME NEW b \in Blocks PROVE gain[b] \in Nat
    <3> HIDE DEF gain
    <3>1. CASE b \in taken
      <4>1. PICK a \in old : to[a] = b
        BY <1>6, <3>1
      <4> QED
        BY <1>7, <2>1, <4>1
    <3> QED
      BY <2>2, <3>1
  <2> QED
    BY <2>1, <2>2, <2>3
<1>9. \A b \in Blocks : /\ loss[b] = Cardinality(HoldersOf(S, b))
                        /\ loss[b] \in Nat
  <2> TAKE b \in Blocks
  <2>1. b \notin old => HoldersOf(S, b) = {}
    BY <1>1 DEF HoldersOf
  <2> QED
    BY <1>4, <1>7, <2>1, FS_EmptySet
<1>10. loss \in [Blocks -> Nat]
  BY <1>9
<1> HIDE DEF gain, loss
<1>11. ASSUME NEW s \in S
       PROVE  /\ s \in Seqs /\ newTable[s] \in Seq(there) /\ newTable[s] \in Seq(Blocks)
              /\ Len(newTable[s]) = Len(table[s]) /\ IsInjective(newTable[s])
              /\ \A b : b \in Range(newTable[s])
                          <=> \E a \in old : to[a] = b /\ a \in Range(table[s])
  <2>1. table[s] \in Seq(Blocks) /\ IsInjective(table[s]) /\ s \in Seqs
    BY <1>0 DEF ManagerInv
  <2>2. /\ DOMAIN table[s] = 1 .. Len(table[s]) /\ Len(table[s]) \in Nat
        /\ \A i \in DOMAIN table[s] : table[s][i] \in old
    BY <1>1, <2>1, LenProperties DEF Range
  <2>3. newTable[s] = [i \in 1 .. Len(table[s]) |-> to[table[s][i]]]
    BY <2>1, <2>2
  <2>4. newTable[s] \in Seq(there) /\ Len(newTable[s]) = Len(table[s])
    <3> HIDE DEF newTable
    <3>1. \A i \in 1 .. Len(table[s]) : to[table[s][i]] \in there
      BY <1>3, <2>2
    <3> QED
      BY <2>2, <2>3, <3>1
  <2>5. newTable[s] \in Seq(Blocks)
    BY <1>0, <2>4, SeqMonotonic
  <2>6. IsInjective(newTable[s])
    BY <1>3, <2>1, <2>2, <2>3 DEF IsInjective
  <2>7. \A b : b \in Range(newTable[s])
                  <=> \E a \in old : to[a] = b /\ a \in Range(table[s])
    <3>1. \A b : b \in Range(newTable[s]) <=> \E i \in 1 .. Len(table[s]) : to[table[s][i]] = b
      BY <2>3 DEF Range
    <3>2. \A a : a \in Range(table[s]) <=> \E i \in 1 .. Len(table[s]) : table[s][i] = a
      BY <2>2 DEF Range
    <3> QED
      BY <2>2, <3>1, <3>2
  <2> QED
    BY <2>1, <2>4, <2>5, <2>6, <2>7
<1>12. /\ newTable \in [Seqs -> Seq(Blocks)]
       /\ \A s \in Seqs : IsInjective(newTable[s])
       /\ \A s \in Seqs \ S : newTable[s] = table[s]
  <2>1. \A s \in Seqs \ S : newTable[s] = table[s]
    OBVIOUS
  <2>2. \A s \in Seqs : newTable[s] \in Seq(Blocks) /\ IsInjective(newTable[s])
    BY <1>11, <2>1 DEF ManagerInv
  <2> QED
    BY <2>1, <2>2
<1> HIDE DEF newTable
<1>13. ASSUME NEW b \in Blocks
       PROVE  /\ Cardinality(HoldersIn(newTable, b))
                   = (IF b \in taken THEN 0 ELSE ref[b]) + gain[b] - loss[b]
              /\ b \in free \ taken => HoldersIn(newTable, b) = {}
  <2>1. /\ ref[b] \in Nat /\ ref[b] = Cardinality(HoldersIn(table, b))
        /\ IsFiniteSet(HoldersIn(table, b))
        /\ b \in free => HoldersIn(table, b) = {}
    BY FreeIsUnheld, HoldersFinite DEF ManagerInv
  <2>2. HoldersOf(S, b) \subseteq HoldersIn(table, b)
    BY <1>0 DEF HoldersOf, HoldersIn
  <2>3. CASE b \in taken
    <3>1. PICK a \in old : to[a] = b
      BY <1>6, <2>3
    <3>2. b \in free /\ HoldersIn(table, b) = {} /\ HoldersOf(S, b) = {}
      BY <1>0, <1>6, <2>1, <2>2, <2>3
    <3>3. HoldersIn(newTable, b) = HoldersOf(S, a)
      <4>1. \A s \in S : b \in Range(newTable[s]) <=> a \in Range(table[s])
        <5>1. \A x \in old : to[x] = b => x = a
          BY <1>3, <3>1 DEF IsInjective
        <5> QED
          BY <1>11, <3>1, <5>1
      <4>2. \A s \in Seqs \ S : b \notin Range(newTable[s])
        BY <1>12, <3>2 DEF HoldersIn
      <4> QED
        BY <1>0, <4>1, <4>2 DEF HoldersIn, HoldersOf
    <3>4. gain[b] = Cardinality(HoldersOf(S, a)) /\ loss[b] = 0
      BY <1>8, <1>9, <3>1, <3>2, FS_EmptySet
    <3> QED
      BY <1>7, <2>3, <3>3, <3>4
  <2>4. CASE b \notin taken
    <3>1. HoldersIn(newTable, b) = HoldersIn(table, b) \ HoldersOf(S, b)
      <4>1. \A s \in S : b \notin Range(newTable[s])
        BY <1>6, <1>11, <2>4
      <4> QED
        BY <1>0, <1>12, <4>1 DEF HoldersIn, HoldersOf
    <3>2. HoldersIn(table, b) \cap HoldersOf(S, b) = HoldersOf(S, b)
      BY <2>2
    <3>3. Cardinality(HoldersIn(newTable, b))
             = Cardinality(HoldersIn(table, b)) - Cardinality(HoldersOf(S, b))
      <4> DEFINE all == HoldersIn(table, b)
                 gone == HoldersOf(S, b)
      <4>1. IsFiniteSet(all) /\ all \cap gone = gone
        BY <2>1, <3>2
      <4>2. HoldersIn(newTable, b) = all \ gone
        BY <3>1
      <4> HIDE DEF all, gone
      <4>3. Cardinality(all \ gone) = Cardinality(all) - Cardinality(gone)
        BY <4>1, FS_Difference
      <4> QED
        BY <4>2, <4>3 DEF all, gone
    <3>4. gain[b] = 0 /\ loss[b] = Cardinality(HoldersOf(S, b)) /\ loss[b] \in Nat
      BY <1>8, <1>9, <2>4
    <3>5. Cardinality(HoldersIn(newTable, b)) = ref[b] + gain[b] - loss[b]
      BY <2>1, <3>3, <3>4
    <3>6. b \in free \ taken => HoldersIn(newTable, b) = {}
      BY <2>1, <3>1
    <3> QED
      BY <2>4, <3>5, <3>6
  <2> QED
    BY <2>3, <2>4
<1>14. Balanced(taken, gain, loss, newTable)
  <2>1. \A b \in taken : gain[b] > 0
    BY <1>6, <1>7, <1>8
  <2>2. taken \subseteq free /\ free \subseteq Blocks
    BY <1>0, <1>6 DEF ManagerInv
  <2>3. \A b \in free \ taken : gain[b] = 0
    BY <1>8, <2>2
  <2> QED
    BY <1>8, <1>10, <1>12, <1>13, <2>1, <2>2, <2>3 DEF Balanced
<1>15. /\ ManagerInv' /\ raised' = raised /\ table' = newTable
       /\ \A b \in Blocks : b \in free' <=> HoldersIn(newTable, b) = {}
  BY <1>2, <1>14, AccountExact
<1>16. Cardinality(FreeGpu') >= Cardinality(FreeGpu) - Cardinality(old)
  <2>1. FreeGpu \subseteq FreeGpu' \cup taken
    BY <1>13, <1>15, FreePools DEF FreeGpu
  <2>2. IsFiniteSet(FreeGpu') /\ Cardinality(FreeGpu') \in Nat
    <3>1. FreeGpu' \in SUBSET GpuBlocks
      BY DEF FreeGpu
    <3> QED
      BY <3>1, DevicesAssumption, FS_Subset, FS_CardinalityType
  <2>3. to \in Surjection(old, taken)
    BY <1>3, Fun_RangeProperties DEF taken
  <2>4. IsFiniteSet(taken) /\ Cardinality(taken) <= Cardinality(old)
    BY <1>1, <2>3, FS_Surjection
  <2>5. /\ IsFiniteSet(FreeGpu' \cup taken)
        /\ Cardinality(FreeGpu' \cup taken) = Cardinality(FreeGpu') + Cardinality(taken)
                                               - Cardinality(FreeGpu' \cap taken)
    BY <2>2, <2>4, FS_Union
  <2>6. Cardinality(FreeGpu' \cap taken) \in Nat /\ Cardinality(taken) \in Nat
    BY <2>2, <2>4, FS_Intersection, FS_CardinalityType
  <2>7. Cardinality(FreeGpu) <= Cardinality(FreeGpu' \cup taken)
    BY <2>1, <2>5, FS_Subset
  <2>8. Cardinality(FreeGpu) \in Nat
    BY FreePools
  <2> QED
    BY <1>1, <2>2, <2>4, <2>5, <2>6, <2>7, <2>8
<1> QED
  BY <1>11, <1>12, <1>15, <1>16 DEF old


\* A block that sequences share goes with all of them to one block, and blocks
\* that are different stay different.
LEMMA MoveMaps ==
    ASSUME Window = 0, ManagerInv, raised = "no", NEW S, NEW there,
           Movable(S, there), Move(S, there)
    PROVE  /\ \A s \in S : DOMAIN table'[s] = DOMAIN table[s]
           /\ \A s, q \in S : \A i \in DOMAIN table[s], j \in DOMAIN table[q] :
                 /\ table'[s][i] \in there
                 /\ table'[s][i] = table'[q][j] <=> table[s][i] = table[q][j]
<1> DEFINE old == Tabled(S)
           occurs(b) == Cardinality(
              {o \in UNION {{s} \X DOMAIN table[s] : s \in S} : table[o[1]][o[2]] = b})
           to == CHOOSE f \in Injection(old, there) : TRUE
           gain == [b \in Blocks |-> IF b \in Range(to)
                      THEN occurs(CHOOSE a \in old : to[a] = b) ELSE 0]
           loss == [b \in Blocks |-> IF b \in old THEN occurs(b) ELSE 0]
           newTable == [s \in Seqs |-> IF s \in S
                      THEN [i \in DOMAIN table[s] |-> to[table[s][i]]]
                      ELSE table[s]]
<1>1. /\ S \in SUBSET Seqs /\ IsFiniteSet(there) /\ Cardinality(there) \in Nat
      /\ Cardinality(old) <= Cardinality(there)
  BY FreePools DEF Movable
<1>2. /\ IsFiniteSet(old) /\ Cardinality(old) \in Nat
      /\ \A b : b \in old <=> \E s \in S : b \in Range(table[s])
  BY <1>1, TabledFinite
<1>3. Account(Range(to), gain, loss, newTable)
  <2>1. ~ (Cardinality(old) > Cardinality(there))
    BY <1>1, <1>2
  <2> QED
    BY <2>1, Zenon DEF Move
<1>4. to \in [old -> there] /\ IsInjective(to)
  <2> HIDE DEF old
  <2> QED
    BY <1>1, <1>2, InjectionExists
<1> HIDE DEF to, gain, loss, old
<1>5. table' = newTable
  <2>1. raised' = "no"
    BY MoveExact
  <2> HIDE DEF newTable
  <2> QED
    BY <1>3, <2>1 DEF Account, Raise
<1>6. \A s \in S : \A i \in DOMAIN table[s] :
         table'[s][i] = to[table[s][i]] /\ table[s][i] \in old
  BY <1>1, <1>2, <1>5 DEF Range
<1>7. \A s \in S : DOMAIN table'[s] = DOMAIN table[s]
  BY <1>1, <1>5
<1> QED
  BY <1>4, <1>6, <1>7 DEF IsInjective
-----------------------------------------------------------------------------
\* The blocks of n tokens: one more token needs at most one more block.
LEMMA BlocksForStep ==
    ASSUME NEW n \in Nat
    PROVE  /\ BlocksFor(n) \in Nat
           /\ BlocksFor(n + 1) \in {BlocksFor(n), BlocksFor(n) + 1}
           /\ n >= 1 => BlocksFor(n) >= 1
<1>1. BlockSize \in Nat /\ BlockSize > 0
  BY GroupsAssumption
<1> DEFINE q == (n + BlockSize - 1) \div BlockSize
           r == (n + 1 + BlockSize - 1) \div BlockSize
<1>2. /\ q \in Int /\ BlockSize * q <= n + BlockSize - 1
      /\ n + BlockSize - 1 < BlockSize * q + BlockSize
  BY <1>1
<1>3. r \in {q, q + 1}
  BY <1>1
<1>4. q >= 0
  BY <1>1, <1>2
<1>5. n >= 1 => q >= 1
  BY <1>1, <1>2
<1> QED
  BY <1>2, <1>3, <1>4, <1>5 DEF BlocksFor

LEMMA BlocksForMonotone ==
    ASSUME NEW m \in Nat, NEW n \in Nat, m <= n
    PROVE  BlocksFor(m) <= BlocksFor(n)
<1>1. BlockSize \in Nat /\ BlockSize > 0
  BY GroupsAssumption
<1> DEFINE q(k) == (k + BlockSize - 1) \div BlockSize
<1>2. \A k \in {m, n} : /\ q(k) \in Int /\ BlockSize * q(k) <= k + BlockSize - 1
                        /\ k + BlockSize - 1 < BlockSize * q(k) + BlockSize
  BY <1>1
<1> HIDE DEF q
<1>3. BlockSize * q(m) < BlockSize * q(n) + BlockSize
  BY <1>1, <1>2
<1>4. q(m) <= q(n)
  BY <1>1, <1>2, <1>3
<1> QED
  BY <1>4 DEF BlocksFor, q

\* The blocks that are full are among the blocks of n tokens.
LEMMA BlocksForFull ==
    ASSUME NEW n \in Nat
    PROVE  n \div BlockSize \in Nat /\ n \div BlockSize <= BlocksFor(n)
<1>1. BlockSize \in Nat /\ BlockSize > 0
  BY GroupsAssumption
<1> DEFINE a == n \div BlockSize
           q == (n + BlockSize - 1) \div BlockSize
<1>2. /\ a \in Int /\ BlockSize * a <= n /\ n < BlockSize * a + BlockSize
      /\ q \in Int /\ n + BlockSize - 1 < BlockSize * q + BlockSize
  BY <1>1
<1> HIDE DEF a, q
<1>3. BlockSize * a < BlockSize * q + BlockSize /\ 0 < BlockSize * a + BlockSize
  BY <1>1, <1>2
<1>4. a <= q /\ a >= 0
  BY <1>1, <1>2, <1>3
<1> QED
  BY <1>2, <1>4 DEF BlocksFor, a, q

\* Nothing computed needs no block.
LEMMA BlocksForNothing == BlocksFor(0) = 0
BY GroupsAssumption DEF BlocksFor
=============================================================================
