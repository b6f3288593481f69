--------------------------- MODULE BlockManagerV2 ---------------------------
(***************************************************************************)
(* The block tables of vllm/core/block/: RefCounter, CopyOnWriteTracker,   *)
(* NaiveBlockAllocator, PrefixCachingBlockAllocator and BlockTable, and    *)
(* what BlockSpaceManagerV2 checks before it calls them.  The manager uses *)
(* the naive allocator; a table over the caching one is the same code.     *)
(*                                                                         *)
(* A content hash is modelled by what it hashes: the tokens of the         *)
(* sequence up to the end of the block (no collisions).  Which free block  *)
(* a set yields first is left to CHOOSE: free blocks are interchangeable.  *)
(***************************************************************************)
EXTENDS SequencesExt

CONSTANTS
    Block,       \* the block ids of one device
    Table,       \* sequences, by the block table each may own
    Token,       \* the tokens of the vocabulary
    PerBlock,    \* block_size
    Reserve,     \* watermark_blocks
    Prompts,     \* the prompts that arrive: non-empty sequences of tokens
    MaxTokens,   \* bound: how long a sequence gets
    Lookahead    \* how many lookahead slots the scheduler may ask for

ASSUME V2Assumption ==
    /\ IsFiniteSet(Block) /\ Block # {}
    /\ PerBlock \in Nat \ {0}
    /\ Reserve \in Nat
    /\ Prompts \subseteq Seq(Token) \ {<<>>}
    /\ MaxTokens \in Nat
    /\ Lookahead \in SUBSET Nat

VARIABLES
    caching,     \* which allocator the tables are built on
    blocks,      \* block_tables: the blocks of each sequence, <<>> if none
    freeIds,     \* _free_block_indices
    refs,        \* RefCounter._refcounts
    cached,      \* _cached_blocks, as a set of pairs
    unused,      \* _unused_cached_blocks, in order of insertion
    failure      \* the exception that has been raised

v2Vars == <<caching, blocks, freeIds, refs, cached, unused, failure>>

Slot == [id : Block, toks : Seq(Token)]

V2TypeOK ==
    /\ caching \in BOOLEAN
    /\ blocks \in [Table -> Seq(Slot)]
    /\ \A t \in Table : \A i \in DOMAIN blocks[t] : Len(blocks[t][i].toks) <= PerBlock
    /\ freeIds \in SUBSET Block
    /\ refs \in [Block -> Nat]
    /\ \A e \in cached \union ToSet(unused) :
          e.id \in Block /\ e.hash \in Seq(Token) \ {<<>>}
    /\ failure \in {"no", "NoFreeBlocks", "AssertionError"}

V2Init ==
    /\ caching \in BOOLEAN
    /\ blocks = [t \in Table |-> <<>>]
    /\ freeIds = Block
    /\ refs = [b \in Block |-> 0]
    /\ cached = {}
    /\ unused = <<>>
    /\ failure = "no"

----------------------------------------------------------------------------
(* The allocators, as functions on their state                             *)
(* m = [free, refs, cached, unused, failure].                              *)

Memory == [free |-> freeIds, refs |-> refs, cached |-> cached, unused |-> unused,
           failure |-> failure]

Hashes(S) == {e.hash : e \in S}
Cached(m, h) == (CHOOSE e \in m.cached : e.hash = h).id
Drop(m, h) == FlattenSeq([i \in DOMAIN m.unused |->
                             IF m.unused[i].hash = h THEN <<>> ELSE <<m.unused[i]>>])
Fail(m, what) == [m EXCEPT !.failure = what]
Asserted(m, ok) == IF ok THEN m ELSE Fail(m, "AssertionError")

\* The block that allocate_mutable takes: a free one, or else the least
\* recently freed one of the cached blocks nobody uses, whose hash is forgotten.
CanTake(m) == m.free # {} \/ m.unused # <<>>
Taken(m) == IF m.free # {} THEN CHOOSE b \in m.free : TRUE ELSE Head(m.unused).id

Take(m) ==
    IF m.free # {}
    THEN [m EXCEPT !.free = @ \ {Taken(m)}, !.refs[Taken(m)] = @ + 1]
    ELSE [m EXCEPT !.cached = {e \in @ : e.hash # Head(m.unused).hash},
                   !.unused = Tail(@),
                   !.refs[Taken(m)] = @ + 1]

\* Mutant of GiveBack: a block with a hash goes back to the free ones.
GiveBackToFree(m, b, h) ==
    IF m.refs[b] > 1 THEN [m EXCEPT !.refs[b] = @ - 1]
    ELSE [m EXCEPT !.refs[b] = @ - 1, !.free = @ \union {b}]

\* free of a block: the last holder gives it back, to the free ones if it has
\* no hash, to the unused ones if it has.
GiveBack(m, b, h) ==
    IF m.refs[b] > 1 THEN [m EXCEPT !.refs[b] = @ - 1]
    ELSE IF h = <<>> THEN [m EXCEPT !.refs[b] = @ - 1, !.free = @ \union {b}]
    ELSE Asserted([m EXCEPT !.refs[b] = @ - 1,
                          !.unused = Append(@, [hash |-> h, id |-> b])],
                h \notin Hashes(ToSet(m.unused)) /\ h \in Hashes(m.cached))

\* _incr_refcount_cached_block
Share(m, h) ==
    LET b == Cached(m, h)
    IN IF m.refs[b] > 0 THEN [m EXCEPT !.refs[b] = @ + 1]
       ELSE Asserted([m EXCEPT !.refs[b] = @ + 1, !.unused = Drop(m, h)],
                   h \in Hashes(ToSet(m.unused)))

----------------------------------------------------------------------------
(* Blocks of a table.  A result is [m, t]: memory, and the table's blocks.  *)

Tokens(t) == FlattenSeq([i \in DOMAIN t |-> t[i].toks])

\* content_hash of block i: defined once it and all before it are full.
HashOf(t, i) ==
    IF caching /\ \A j \in 1 .. i : Len(t[j].toks) = PerBlock
    THEN Tokens(SubSeq(t, 1, i)) ELSE <<>>

\* Mutant of CopyOnWrite: a shared block is written in place.
WriteInPlace(r, i) == r

\* cow_block_if_not_appendable: the tokens are in the block's list already.
CopyOnWrite(r, i) ==
    LET b == r.t[i].id
        m == GiveBack(r.m, b, HashOf(r.t, i))
    IN IF r.m.refs[b] <= 1 THEN r
       ELSE IF ~CanTake(m) THEN [r EXCEPT !.m = Fail(m, "NoFreeBlocks")]
       ELSE [m |-> Take(m), t |-> [r.t EXCEPT ![i].id = Taken(m)]]

\* promote_to_immutable_block: a block that is full gets its hash registered;
\* if another block has it, that one is used instead.
PromoteBlock(r, i) ==
    LET h == HashOf(r.t, i)
        b == r.t[i].id
    IN IF h = <<>> \/ r.m.failure # "no" THEN r
       ELSE IF h \notin Hashes(r.m.cached)
       THEN [r EXCEPT !.m.cached = @ \union {[hash |-> h, id |-> b]}]
       ELSE LET m == GiveBack(r.m, b, h)
            IN IF m.failure # "no" THEN [r EXCEPT !.m = m]
               ELSE [m |-> Share(m, h), t |-> [r.t EXCEPT ![i].id = Cached(m, h)]]

\* append_token_ids of block i
Write(r, i, toks) ==
    IF r.m.failure # "no" THEN r
    ELSE PromoteBlock(CopyOnWrite([r EXCEPT !.t[i].toks = @ \o toks], i), i)

\* allocate_mutable at the end of the table
Extend(r) ==
    IF r.m.failure # "no" THEN r
    ELSE IF ~CanTake(r.m) THEN [r EXCEPT !.m = Fail(@, "NoFreeBlocks")]
    ELSE [m |-> Take(r.m), t |-> Append(r.t, [id |-> Taken(r.m), toks |-> <<>>])]

\* allocate_immutable for a full chunk, allocate_mutable for the last one.
AllocateChunk(r, toks) ==
    LET t == Append(r.t, [id |-> 0, toks |-> toks])
        h == HashOf(t, Len(t))
    IN IF r.m.failure = "no" /\ h # <<>> /\ h \in Hashes(r.m.cached)
       THEN [m |-> Share(r.m, h), t |-> [t EXCEPT ![Len(t)].id = Cached(r.m, h)]]
       ELSE LET e == Extend(r)
            IN IF e.m.failure # "no" THEN e ELSE Write(e, Len(e.t), toks)

\* chunk_list, with a first chunk of its own size
Chunks(toks, first) ==
    LET rest == SubSeq(toks, first + 1, Len(toks))
        n == (Len(rest) + PerBlock - 1) \div PerBlock
        end(k) == IF k * PerBlock < Len(rest) THEN k * PerBlock ELSE Len(rest)
    IN <<SubSeq(toks, 1, IF first < Len(toks) THEN first ELSE Len(toks))>>
       \o [k \in 1 .. n |-> SubSeq(rest, (k - 1) * PerBlock + 1, end(k))]

\* BlockTable.allocate
Allocated(m, toks) ==
    LET chunks == Chunks(toks, PerBlock)
        upTo[k \in 0 .. Len(chunks)] ==
            IF k = 0 THEN [m |-> m, t |-> <<>>] ELSE AllocateChunk(upTo[k - 1], chunks[k])
    IN upTo[Len(chunks)]

\* _chunk_token_blocks_for_append
AppendChunks(t, toks) ==
    Chunks(toks, PerBlock - (Len(Tokens(t)) % PerBlock))

\* ensure_num_empty_slots: how many blocks are missing, and as many more.
Missing(t, toks, look) ==
    LET slots == Len(Tokens(t)) + Len(toks) + look - Len(t) * PerBlock
    IN IF slots > 0 THEN (slots + PerBlock - 1) \div PerBlock ELSE 0

Extended(r, n) ==
    LET upTo[k \in 0 .. n] == IF k = 0 THEN r ELSE Extend(upTo[k - 1])
    IN upTo[n]

\* The chunks into the blocks from i on.
Filled(r, i, chunks) ==
    LET upTo[k \in 0 .. Len(chunks)] ==
            IF k = 0 THEN r ELSE Write(upTo[k - 1], i + k - 1, chunks[k])
    IN upTo[Len(chunks)]

\* BlockTable.append_token_ids: first the missing blocks, then block by block.
Appended(m, t, toks, look) ==
    Filled(Extended([m |-> m, t |-> t], Missing(t, toks, look)),
            Len(Tokens(t)) \div PerBlock + 1, AppendChunks(t, toks))

\* BlockTable.free
Freed(m, t) ==
    LET upTo[k \in 0 .. Len(t)] ==
            IF k = 0 THEN m
            ELSE IF upTo[k - 1].failure # "no" THEN upTo[k - 1]
            ELSE GiveBack(upTo[k - 1], t[k].id, HashOf(t, k))
    IN upTo[Len(t)]

----------------------------------------------------------------------------
(* BlockSpaceManagerV2 *)

NumFree == Cardinality(freeIds) + Len(unused)

Becomes(m) ==
    /\ freeIds' = m.free
    /\ refs' = m.refs
    /\ cached' = m.cached
    /\ unused' = m.unused
    /\ failure' = m.failure

\* can_allocate and allocate, of a group with one sequence waiting.
AllocateTable(t, prompt) ==
    /\ blocks[t] = <<>>
    /\ NumFree - (Len(prompt) + PerBlock - 1) \div PerBlock >= Reserve
    /\ LET r == Allocated(Memory, prompt)
       IN Becomes(r.m) /\ blocks' = [blocks EXCEPT ![t] = r.t]
    /\ UNCHANGED caching

\* Mutant of Touched: only the blocks that are new are counted.
TouchedNew(t, toks, look) == Missing(t, toks, look)

\* get_num_blocks_touched_by_append_slots
Touched(t, toks, look) ==
    Len(AppendChunks(t, toks \o [k \in 1 .. look |-> 0]))

\* can_append_slots and append_slots, of a sequence with unseen tokens.  The
\* code checks the running sequences of a group at once and appends to one after
\* the other.  As each takes at most what was counted for it, the check below
\* passes for every one of them: the steps of a group are steps of the model.
\* V2Next appends one unseen token at a time.
AppendTable(t, toks, look) ==
    /\ blocks[t] # <<>>
    /\ Len(Tokens(blocks[t])) + Len(toks) <= MaxTokens
    /\ Touched(blocks[t], toks, look) <= NumFree
    /\ LET r == Appended(Memory, blocks[t], toks, look)
       IN Becomes(r.m) /\ blocks' = [blocks EXCEPT ![t] = r.t]
    /\ UNCHANGED caching

\* Mutant of ForkTable: the child's references are not counted.
ForkTableUncounted(t, child) ==
    /\ blocks[t] # <<>>
    /\ blocks[child] = <<>>
    /\ blocks' = [blocks EXCEPT ![child] = blocks[t]]
    /\ UNCHANGED <<caching, freeIds, refs, cached, unused, failure>>

ForkTable(t, child) ==
    /\ blocks[t] # <<>>
    /\ blocks[child] = <<>>
    /\ blocks' = [blocks EXCEPT ![child] = blocks[t]]
    /\ refs' = [b \in Block |->
                   IF \E i \in DOMAIN blocks[t] : blocks[t][i].id = b
                   THEN refs[b] + 1 ELSE refs[b]]
    /\ UNCHANGED <<caching, freeIds, cached, unused, failure>>

ReleaseTable(t) ==
    /\ blocks[t] # <<>>
    /\ Becomes(Freed(Memory, blocks[t]))
    /\ blocks' = [blocks EXCEPT ![t] = <<>>]
    /\ UNCHANGED caching

V2Next ==
    /\ failure = "no"
    /\ \E t \in Table :
          \/ \E prompt \in Prompts : AllocateTable(t, prompt)
          \/ \E x \in Token, look \in Lookahead : AppendTable(t, <<x>>, look)
          \/ \E child \in Table \ {t} : ForkTable(t, child)
          \/ ReleaseTable(t)

V2Spec == V2Init /\ [][V2Next]_v2Vars

----------------------------------------------------------------------------
(* Correctness *)

HoldersOf(b) ==
    UNION {{<<t, i>> : i \in {i \in DOMAIN blocks[t] : blocks[t][i].id = b}} : t \in Table}

\* Through forks, copies on write, promotions onto another block and
\* evictions, the count of a block is the number of entries that name it, and
\* every other block is free or, if its content is kept, unused: none is lost
\* and none is given away twice.
CountsAndPoolsExact ==
    failure = "no" =>
        /\ \A b \in Block : refs[b] = Cardinality(HoldersOf(b))
        /\ \A b \in Block :
              LET pooled == Cardinality({i \in DOMAIN unused : unused[i].id = b})
                            + (IF b \in freeIds THEN 1 ELSE 0)
              IN pooled = IF refs[b] = 0 THEN 1 ELSE 0

\* Two sequences share a block that holds tokens only as long as they agree on
\* every token up to its end: no write goes through a shared block, and no hash
\* finds a block whose content has been replaced.  An empty block of lookahead
\* slots may stay shared by sequences that have parted.
SharedBlocksAgree ==
    failure = "no" =>
        \A s, t \in Table : \A i \in DOMAIN blocks[s], j \in DOMAIN blocks[t] :
            blocks[s][i].id = blocks[t][j].id /\ blocks[s][i].toks # <<>> =>
                /\ i = j
                /\ Tokens(SubSeq(blocks[s], 1, i)) = Tokens(SubSeq(blocks[t], 1, j))

\* The worst-case checks of the manager suffice: no call runs out of blocks
\* half way, which would lose the ones it has taken.
WorstCaseSuffices == failure # "NoFreeBlocks"
=============================================================================
