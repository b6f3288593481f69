---------------------------- MODULE PrefixCache ----------------------------
(***************************************************************************)
(* Automatic prefix caching: the CachedBlockAllocator and the branches of  *)
(* BlockSpaceManagerV1 that use it (vllm/core/block_manager_v1.py), and    *)
(* the LRUEvictor (vllm/core/evictor.py), with what the worker does to the *)
(* pages.  Each request has one sequence; chunked prompts are refused with *)
(* prefix caching.                                                         *)
(*                                                                         *)
(* A content hash is modelled by the words it hashes, and the keys and     *)
(* values of a word in a page by the words up to it, which is what they    *)
(* are a function of.                                                      *)
(***************************************************************************)
EXTENDS SequencesExt

CONSTANTS
    Conv,        \* the sequences
    Word,        \* the tokens: positive numbers
    PageSize,    \* block_size
    Openings,    \* the prompts
    MaxWords,    \* bound: how long a sequence gets
    GpuSizes,    \* what num_gpu_blocks may be
    CpuPages     \* num_cpu_blocks

ASSUME PrefixAssumption ==
    /\ Word \subseteq Nat \ {0}
    /\ PageSize \in Nat \ {0}
    /\ Openings \subseteq Seq(Word) \ {<<>>}
    /\ MaxWords \in Nat /\ CpuPages \in Nat /\ IsFiniteSet(Conv)
    /\ IsFiniteSet(GpuSizes) /\ GpuSizes \subseteq Nat \ {0}

VARIABLES
    swaps,     \* preemption is by swap, not by recomputation
    gpu, cpu,  \* the two allocators
    kv,        \* what each page holds, on each device
    words,     \* the tokens of each sequence
    status,     \* status of each sequence
    pages,     \* block_tables
    job,       \* what the tick in progress has scheduled each sequence for
    moves,     \* blocks_to_swap_out, blocks_to_swap_in, blocks_to_copy
    broken     \* an exception has been raised

prefixVars == <<swaps, gpu, cpu, kv, words, status, pages, job, moves, broken>>

Page == UNION {1 .. n : n \in GpuSizes \union {CpuPages}}
NoMoves == [out |-> {}, in |-> {}, copy |-> {}]

\* made: the pages created so far; dict: cached_blocks; lru: free_table;
\* hash, num, last, ref and done: block_hash, num_hashed_tokens, last_accessed
\* (by rank, 0 for never), ref_count and computed.
EmptyPool(n) ==
    [size |-> n, made |-> 0, dict |-> {}, lru |-> <<>>,
     hash |-> [p \in Page |-> <<>>], num |-> [p \in Page |-> 0],
     last |-> [p \in Page |-> 0], ref |-> [p \in Page |-> 0],
     done |-> [p \in Page |-> FALSE]]

PrefixInit ==
    /\ swaps \in BOOLEAN
    /\ gpu \in {EmptyPool(n) : n \in GpuSizes}
    /\ cpu = EmptyPool(CpuPages)
    /\ kv = [d \in {"gpu", "cpu"} |-> [p \in Page |-> [i \in 1 .. PageSize |-> <<>>]]]
    /\ words \in [Conv -> Openings]
    /\ status = [c \in Conv |-> "waiting"]
    /\ pages = [c \in Conv |-> <<>>]
    /\ job = [c \in Conv |-> "none"]
    /\ moves = NoMoves
    /\ broken = FALSE

----------------------------------------------------------------------------
(* The allocator, as functions on its state m; a result is [m, page, ok].  *)

Available(m) == m.size - m.made + Len(m.lru)
InDict(m, h) == \E e \in m.dict : e.hash = h
InLru(m, h) == \E i \in DOMAIN m.lru : m.hash[m.lru[i]] = h
Known(m, h) == InDict(m, h) \/ InLru(m, h)
DictPage(m, h) == (CHOOSE e \in m.dict : e.hash = h).page
LruPage(m, h) == CHOOSE p \in ToSet(m.lru) : m.hash[p] = h

\* LRUEvictor.evict: among the pages at the front of the table that were
\* accessed at the same time as the first, or before, the longest prefix.
LeastRecent(m) ==
    LET next(e, p) ==
            IF e.stop \/ m.last[e.page] < m.last[p] THEN [e EXCEPT !.stop = TRUE]
            ELSE IF m.num[e.page] < m.num[p] THEN [e EXCEPT !.page = p] ELSE e
        upTo[k \in 0 .. Len(m.lru)] ==
            IF k = 0 THEN [page |-> Head(m.lru), stop |-> FALSE]
            ELSE next(upTo[k - 1], m.lru[k])
    IN upTo[Len(m.lru)].page

\* The evictor's table without a page.
Without(lru, p) ==
    FlattenSeq([i \in DOMAIN lru |-> IF lru[i] = p THEN <<>> ELSE <<lru[i]>>])

\* A page that is taken from the evictor for another content.
Renew(m, p, h, num) ==
    [m EXCEPT !.hash[p] = h, !.num[p] = num, !.done[p] = FALSE,
              !.lru = Without(@, p)]

\* allocate_block
NewPage(m, h, num) ==
    IF m.made < m.size
    THEN [m |-> [m EXCEPT !.made = @ + 1, !.hash[m.made + 1] = h,
                          !.num[m.made + 1] = num],
          page |-> m.made + 1, ok |-> TRUE]
    ELSE IF m.lru = <<>> THEN [m |-> m, page |-> 0, ok |-> FALSE]
    ELSE [m |-> Renew(m, LeastRecent(m), h, num), page |-> LeastRecent(m), ok |-> TRUE]

Hold(m, h, p) == [m EXCEPT !.dict = @ \union {[hash |-> h, page |-> p]},
                           !.ref[p] = @ + 1]

\* allocate of a content hash
AllocatePage(m, h, num) ==
    IF InLru(m, h)
    THEN LET p == LruPage(m, h)
         IN [m |-> Hold([m EXCEPT !.lru = Without(@, p)], h, p),
             page |-> p, ok |-> ~InDict(m, h) /\ m.ref[p] = 0]
    ELSE IF InDict(m, h)
    THEN [m |-> [m EXCEPT !.ref[DictPage(m, h)] = @ + 1],
          page |-> DictPage(m, h), ok |-> m.hash[DictPage(m, h)] = h]
    ELSE LET n == NewPage(m, h, num)
         IN IF n.ok THEN [n EXCEPT !.m = Hold(@, h, n.page)] ELSE n

\* free
FreePage(m, p) ==
    IF m.ref[p] > 1 THEN [m |-> [m EXCEPT !.ref[p] = @ - 1], page |-> p, ok |-> TRUE]
    ELSE [m |-> [m EXCEPT !.ref[p] = @ - 1, !.lru = Append(@, p),
                          !.dict = {e \in @ : e.hash # m.hash[p]}],
          page |-> p,
          ok |-> m.ref[p] = 1 /\ InDict(m, m.hash[p]) /\ ~InLru(m, m.hash[p])]

\* Mutant of UpdateHash: the hash of before still leads to the page.
UpdateHashKeepsOld(m, p, h) ==
    [m |-> [m EXCEPT !.hash[p] = h, !.dict = @ \union {[hash |-> h, page |-> p]}],
     page |-> p, ok |-> TRUE]

\* update_hash
UpdateHash(m, p, h) ==
    [m |-> [m EXCEPT !.hash[p] = h,
                     !.dict = {e \in @ : e.hash # m.hash[p]}
                              \union {[hash |-> h, page |-> p]}],
     page |-> p, ok |-> ~Known(m, h) /\ InDict(m, m.hash[p])]

\* default_hash_ctr: a hash that no page has, of either device.
NewHash(m) ==
    CHOOSE h \in {<<0, k>> : k \in 1 .. 2 * Cardinality(Page) + 1} :
        \A p \in Page : m.hash[p] # h /\ cpu.hash[p] # h

----------------------------------------------------------------------------
(* The manager *)

Least(a, b) == IF a < b THEN a ELSE b
Logical(c) == (Len(words[c]) + PageSize - 1) \div PageSize
HashOfBlock(c, i) == SubSeq(words[c], 1, Least(i * PageSize, Len(words[c])))
LastIsFull(c) == Len(words[c]) % PageSize = 0

\* _allocate_last_physical_block
AllocateLast(m, c) ==
    LET a == AllocatePage(m, IF LastIsFull(c) THEN HashOfBlock(c, Logical(c)) ELSE NewHash(m),
                          Logical(c) * PageSize)
    IN [m |-> a.m, page |-> a.page, ok |-> a.ok /\ (LastIsFull(c) \/ a.m.ref[a.page] = 1)]

\* _maybe_promote_last_block
Promoted(m, c, p) ==
    LET h == HashOfBlock(c, Logical(c))
        f == FreePage(m, p)
        a == AllocatePage(f.m, h, 0)
    IN IF ~LastIsFull(c) THEN [m |-> m, page |-> p, ok |-> TRUE]
       ELSE IF Known(m, h) THEN [m |-> a.m, page |-> a.page, ok |-> f.ok /\ a.ok]
       ELSE UpdateHash(m, p, h)

\* Mutant of AppendWord: a shared page is written in place.
AppendInPlace(m, c, t) ==
    IF Len(t) < Logical(c)
    THEN LET a == AllocateLast(m, c)
         IN [m |-> a.m, t |-> Append(t, a.page), copy |-> {}, ok |-> a.ok]
    ELSE LET a == Promoted(m, c, Last(t))
         IN [m |-> a.m, t |-> [t EXCEPT ![Len(t)] = a.page], copy |-> {}, ok |-> a.ok]

\* append_slots of a sequence with pages t
AppendWord(m, c, t) ==
    IF Len(t) < Logical(c)
    THEN LET a == AllocateLast(m, c)
         IN [m |-> a.m, t |-> Append(t, a.page), copy |-> {}, ok |-> a.ok]
    ELSE IF m.ref[Last(t)] = 1
    THEN LET a == Promoted(m, c, Last(t))
         IN [m |-> a.m, t |-> [t EXCEPT ![Len(t)] = a.page], copy |-> {}, ok |-> a.ok]
    ELSE LET a == AllocateLast(m, c)
             f == FreePage(a.m, Last(t))
         IN [m |-> f.m, t |-> [t EXCEPT ![Len(t)] = a.page],
             copy |-> {<<Last(t), a.page>>}, ok |-> a.ok /\ f.ok]

\* One page after the other: pages for the contents hs, the pages of a list
\* freed.
AllocateAll(m, hs, nums) ==
    LET next(r, h, num) == LET a == AllocatePage(r.m, h, num)
                           IN [m |-> a.m, t |-> Append(r.t, a.page), ok |-> r.ok /\ a.ok]
        upTo[k \in 0 .. Len(hs)] ==
            IF k = 0 THEN [m |-> m, t |-> <<>>, ok |-> TRUE]
            ELSE next(upTo[k - 1], hs[k], nums[k])
    IN upTo[Len(hs)]

FreeAll(m, order) ==
    LET next(r, p) == LET f == FreePage(r.m, p) IN [m |-> f.m, ok |-> r.ok /\ f.ok]
        upTo[k \in 0 .. Len(order)] ==
            IF k = 0 THEN [m |-> m, ok |-> TRUE] ELSE next(upTo[k - 1], order[k])
    IN upTo[Len(order)]

\* The pages t of one device, allocated by their hashes on another.  The loop
\* frees each page after it has allocated the other one; the allocators share
\* nothing, and freeing leaves the hashes as they are.
MoveTable(from, to, t) ==
    LET a == AllocateAll(to, [i \in DOMAIN t |-> from.hash[t[i]]],
                         [i \in DOMAIN t |-> from.num[t[i]]])
        f == FreeAll(from, t)
    IN [to |-> a.m, from |-> f.m, t |-> a.t,
        map |-> {<<t[i], a.t[i]>> : i \in DOMAIN t}, ok |-> a.ok /\ f.ok]

----------------------------------------------------------------------------
(* The tick.  The schedule without swaps has either prompts or decodes in a *)
(* tick, the ranked one mixes them; both preempt before they bring in.      *)

Doing(what) == \E c \in Conv : job[c] = what
Planning == ~Doing("sampled")
Bringing == Doing("prompt") \/ moves.in # {}

Admit(c) ==
    /\ Planning /\ status[c] = "waiting"
    /\ swaps \/ ~Doing("decode")
    /\ Available(gpu) >= Logical(c)
    /\ LET r == AllocateAll(gpu, [i \in 1 .. Logical(c) |-> HashOfBlock(c, i)],
                            [i \in 1 .. Logical(c) |-> i * PageSize])
       IN /\ gpu' = r.m
          /\ pages' = [pages EXCEPT ![c] = r.t]
          /\ broken' = ~r.ok
    /\ status' = [status EXCEPT ![c] = "running"]
    /\ job' = [job EXCEPT ![c] = "prompt"]
    /\ UNCHANGED <<swaps, cpu, kv, words, moves>>

Decode(c) ==
    /\ Planning /\ status[c] = "running"
    /\ job[c] = "none"
    /\ swaps \/ ~Doing("prompt")
    /\ Available(gpu) >= 1
    /\ \E r \in {AppendWord(gpu, c, pages[c])} :
          /\ gpu' = r.m
          /\ pages' = [pages EXCEPT ![c] = r.t]
          /\ moves' = [moves EXCEPT !.copy = @ \union r.copy]
          /\ broken' = ~r.ok
    /\ job' = [job EXCEPT ![c] = "decode"]
    /\ UNCHANGED <<swaps, cpu, kv, words, status>>

SwapOutPages(c) ==
    /\ swaps /\ Planning /\ ~Bringing
    /\ status[c] = "running"
    /\ job[c] = "none"
    /\ Len(pages[c]) <= Available(cpu)
    /\ \E r \in {MoveTable(gpu, cpu, pages[c])} :
          /\ gpu' = r.from /\ cpu' = r.to
          /\ pages' = [pages EXCEPT ![c] = r.t]
          /\ moves' = [moves EXCEPT !.out = @ \union r.map]
          /\ broken' = ~r.ok
    /\ status' = [status EXCEPT ![c] = "swapped"]
    /\ job' = [job EXCEPT ![c] = "out"]
    /\ UNCHANGED <<swaps, kv, words>>

SwapInPages(c) ==
    /\ Planning /\ status[c] = "swapped"
    /\ job[c] = "none"
    /\ Available(gpu) >= Len(pages[c]) + 1
    /\ \E r \in {MoveTable(cpu, gpu, pages[c])} :
       \E a \in {AppendWord(r.to, c, r.t)} :
          /\ cpu' = r.from /\ gpu' = a.m
          /\ pages' = [pages EXCEPT ![c] = a.t]
          /\ moves' = [moves EXCEPT !.in = @ \union r.map, !.copy = @ \union a.copy]
          /\ broken' = ~(r.ok /\ a.ok)
    /\ status' = [status EXCEPT ![c] = "running"]
    /\ job' = [job EXCEPT ![c] = "decode"]
    /\ UNCHANGED <<swaps, kv, words>>

\* By recomputation: back to the queue.  By an abort, for ever.
DropPages(c, to) ==
    /\ \E order \in SetToSeqs(ToSet(pages[c])) :
          LET r == FreeAll(IF status[c] = "swapped" THEN cpu ELSE gpu, order)
          IN /\ gpu' = IF status[c] = "swapped" THEN gpu ELSE r.m
             /\ cpu' = IF status[c] = "swapped" THEN r.m ELSE cpu
             /\ broken' = ~r.ok
    /\ status' = [status EXCEPT ![c] = to]
    /\ pages' = [pages EXCEPT ![c] = <<>>]
    /\ job' = [job EXCEPT ![c] = "none"]
    /\ UNCHANGED <<swaps, kv, words, moves>>

Recompute(c) ==
    /\ ~swaps /\ Planning /\ ~Bringing
    /\ status[c] = "running" /\ job[c] = "none"
    /\ DropPages(c, "waiting")

NothingScheduled == \A c \in Conv : job[c] = "none"

AbortConv(c) ==
    /\ NothingScheduled
    /\ status[c] # "gone"
    /\ DropPages(c, "gone")

\* get_all_computed_blocks: how many pages of the prompt need not be computed.
Skipped(c) ==
    Cardinality({n \in 1 .. Len(pages[c]) - 1 : \A i \in 1 .. n : gpu.done[pages[c][i]]})

\* The words whose keys and values the model writes in this step.
Written(c) ==
    CASE job[c] = "prompt" -> Skipped(c) * PageSize + 1 .. Len(words[c])
      [] job[c] = "decode" -> {Len(words[c])}
      [] OTHER -> {}

Spot(c, i) == <<pages[c][(i - 1) \div PageSize + 1], ((i - 1) % PageSize) + 1>>

\* compute_full_blocks_in_seq: all full pages but the last, from the end to the
\* first that is marked already.
Marked(c) ==
    LET n == Len(words[c]) \div PageSize - 1
    IN {pages[c][i] : i \in {i \in 1 .. n : \A j \in i .. n : ~gpu.done[pages[c][j]]}}

\* access_all_blocks_in_seq, with times replaced by their ranks.
Accessed(now) ==
    LET at(p) == IF p \in now THEN Cardinality(Page) + 1 ELSE gpu.last[p]
        times == {at(p) : p \in Page} \ {0}
    IN [p \in Page |-> Cardinality({t \in times : t <= at(p)})]

\* cache_swap: out, in, copy.
Copied(pairs, source, target) ==
    [p \in Page |-> IF \E mv \in pairs : mv[2] = p
                    THEN source[(CHOOSE mv \in pairs : mv[2] = p)[1]] ELSE target[p]]

\* The rest of schedule(), and the step of the worker.
Execute ==
    /\ Planning /\ ~NothingScheduled
    /\ LET busy == {c \in Conv : job[c] \in {"prompt", "decode"}}
           spots == UNION {{<<Spot(c, i), SubSeq(words[c], 1, i)>> : i \in Written(c)} : c \in busy}
           cpuKv == Copied(moves.out, kv["gpu"], kv["cpu"])
           gpuKv == Copied(moves.copy, Copied(moves.in, cpuKv, kv["gpu"]),
                           Copied(moves.in, cpuKv, kv["gpu"]))
       IN /\ gpu' = [gpu EXCEPT
                        !.last = Accessed(UNION {ToSet(pages[c]) : c \in busy}),
                        !.done = [p \in Page |-> @[p] \/ \E c \in busy : p \in Marked(c)]]
          /\ kv' = [d \in {"gpu", "cpu"} |->
                      IF d = "cpu" THEN cpuKv
                      ELSE [p \in Page |-> [i \in 1 .. PageSize |->
                              IF \E w \in spots : w[1] = <<p, i>>
                              THEN (CHOOSE w \in spots : w[1] = <<p, i>>)[2]
                              ELSE gpuKv[p][i]]]]
    /\ job' = [c \in Conv |-> IF job[c] \in {"prompt", "decode"} THEN "sampled" ELSE "none"]
    /\ moves' = NoMoves
    /\ UNCHANGED <<swaps, cpu, words, status, pages, broken>>

\* The output of the step is processed: another word, or the end.
Sample(c, w) ==
    /\ job[c] = "sampled"
    /\ Len(words[c]) < MaxWords
    /\ words' = [words EXCEPT ![c] = Append(@, w)]
    /\ job' = [job EXCEPT ![c] = "none"]
    /\ UNCHANGED <<swaps, gpu, cpu, kv, status, pages, moves, broken>>

FinishConv(c) ==
    /\ job[c] = "sampled"
    /\ DropPages(c, "gone")

PrefixNext ==
    /\ ~broken
    /\ \/ \E c \in Conv :
             \/ Admit(c) \/ Decode(c) \/ SwapOutPages(c) \/ SwapInPages(c) \/ Recompute(c)
             \/ AbortConv(c) \/ FinishConv(c)
             \/ \E w \in Word : Sample(c, w)
       \/ Execute

PrefixSpec == PrefixInit /\ [][PrefixNext]_prefixVars

----------------------------------------------------------------------------
(* Correctness *)

\* Every variable keeps its type, in both allocators and in the tick.
PoolTypeOK(m) ==
    /\ m.made \in 0 .. m.size
    /\ m.lru \in Seq(Page)
    /\ \A e \in m.dict : e.page \in Page
    /\ m.num \in [Page -> Nat] /\ m.last \in [Page -> 0 .. Cardinality(Page)]
    /\ m.ref \in [Page -> Nat] /\ m.done \in [Page -> BOOLEAN]

PrefixTypeOK ==
    /\ swaps \in BOOLEAN /\ broken \in BOOLEAN
    /\ PoolTypeOK(gpu) /\ PoolTypeOK(cpu)
    /\ words \in [Conv -> Seq(Word)]
    /\ status \in [Conv -> {"waiting", "running", "swapped", "gone"}]
    /\ pages \in [Conv -> Seq(Page)]
    /\ job \in [Conv -> {"none", "out", "prompt", "decode", "sampled"}]

PoolExact(m, users) ==
    /\ \A p \in Page :
          m.ref[p] = Cardinality({c \in users : p \in ToSet(pages[c])})
    /\ m.dict = {[hash |-> m.hash[p], page |-> p] : p \in {p \in Page : m.ref[p] > 0}}
    /\ ToSet(m.lru) = {p \in 1 .. m.made : m.ref[p] = 0}
    /\ IsInjective(m.lru)
    /\ \A p, q \in 1 .. m.made : p # q => m.hash[p] # m.hash[q]

\* On each device the count of a page is the number of sequences that use it; a
\* page in use is found under its hash, any other is in the evictor, and no two
\* have the same hash, through promotions, copies on write and swaps; and none
\* of the assertions and errors of the allocator is reached.
PoolsMatch ==
    /\ ~broken
    /\ PoolExact(gpu, {c \in Conv : status[c] = "running"})
    /\ PoolExact(cpu, {c \in Conv : status[c] = "swapped"})

\* After each step every sequence that runs finds in its pages the keys and
\* values of its own words, those it has computed and those it has skipped.
Settled == \A c \in Conv : job[c] \in {"none", "sampled"}
Computed(c) == IF job[c] = "sampled" THEN 1 .. Len(words[c]) ELSE 1 .. Len(words[c]) - 1

KVIsOwn ==
    Settled =>
        \A c \in Conv : status[c] = "running" =>
            \A i \in Computed(c) :
                kv["gpu"][Spot(c, i)[1]][Spot(c, i)[2]] = SubSeq(words[c], 1, i)

\* It holds without swaps only: a page is found by the hash it had when its
\* sequence came, not by what has been appended since, and a swap-in copies onto
\* a page that another sequence has taken over and written to.
KVOfOwnWords == ~swaps => KVIsOwn
=============================================================================
