--------------------------- MODULE GeneralSchedule ---------------------------
(* _general_schedule of vllm/core/scheduler.py, the schedule of every type    *)
(* that ranks requests (dual, opt*, tpt, ...), with reserve_free_blocks, over *)
(* the block manager; and the worker that carries out the swaps and copies of *)
(* a tick.  A tick selects groups in the order of their ranks until a budget  *)
(* is used up, makes room by swapping others out, puts selected groups back   *)
(* when that is not enough, swaps in, and executes.  The ranks are data: any  *)
(* group may come next, and any waiting group may be withheld from the order. *)
EXTENDS SequenceGroups

CONSTANTS
    TokenBudget,  \* max_num_batched_tokens
    MaxSeqs       \* max_num_seqs

ASSUME BudgetAssumption == MaxSeqs \in Nat \ {0} /\ TokenBudget \in Nat /\ TokenBudget >= MaxSeqs

VARIABLES
    left,       \* prompt tokens of a group that are not computed yet
    stage,      \* of the tick
    pinned,     \* the selected groups still to be executed, in their order
    rest,       \* the ordered groups that were not selected, in their order
    take,       \* num_new_tokens of a selected group
    budget,     \* SchedulingBudget: what the selected groups were charged
    need,       \* num_swap_out_blocks_needed
    uncharged,  \* groups swapped in without a charge to the budget
    pending,    \* sequences _append_slots has still to visit
    swapOut, swapIn, copies,  \* pairs of blocks the worker is to copy
    kv          \* whose tokens a block holds: a group and a place in its table

tickVars == <<stage, pinned, rest, take, budget, need, uncharged, pending>>
cacheVars == <<swapOut, swapIn, copies, kv>>
generalVars == <<blockVars, groupVars, left, tickVars, cacheVars>>

Phases == {"idle", "waiting", "ready", "swapped", "returned", "appending", "executing"}
Nobody == <<>>
NoCharge == [tokens |-> 0, seqs |-> 0]

GeneralInit ==
    /\ BlockInit /\ GroupsInit
    /\ left = [g \in Groups |-> 0]
    /\ stage = "between"
    /\ pinned = <<>> /\ rest = <<>>
    /\ take = [g \in Groups |-> 0]
    /\ budget = NoCharge
    /\ need = 0
    /\ uncharged = {} /\ pending = {}
    /\ swapOut = {} /\ swapIn = {} /\ copies = {}
    /\ kv = [b \in Blocks |-> Nobody]

-----------------------------------------------------------------------------
(* Between ticks: requests arrive and are aborted.                            *)
Forget(g) == kv' = [b \in Blocks |-> IF kv[b] # Nobody /\ kv[b][1] = g
                                     THEN Nobody ELSE kv[b]]

AddRequest(g) ==
    /\ raised = "no" /\ stage = "between"
    /\ Arrive(g)
    /\ left' = [left EXCEPT ![g] = tokens'[g]]
    /\ UNCHANGED <<tickVars, cacheVars>>

AbortRequest(g) ==
    /\ raised = "no" /\ stage = "between" /\ phase[g] # "idle"
    /\ Leave(g) /\ Forget(g)
    /\ left' = [left EXCEPT ![g] = 0]
    /\ UNCHANGED <<tickVars, swapOut, swapIn, copies>>

-----------------------------------------------------------------------------
(* Selection.  The budget is charged for the groups that are selected in the  *)
(* order; a prompt is cut to what is left of the tokens.                      *)
Unselected == {g \in Groups : phase[g] # "idle"} \ Range(pinned)

Uncomputed(g) == IF left[g] > 0 THEN left[g] ELSE Cardinality(live[g])
NewTokens(g) ==
    LET remaining == TokenBudget - budget.tokens
    IN  IF Cardinality(live[g]) = 1 /\ Uncomputed(g) > remaining
        THEN remaining ELSE Uncomputed(g)

Fits(g) ==
    /\ NewTokens(g) > 0
    /\ budget.tokens + NewTokens(g) <= TokenBudget
    /\ budget.seqs + MaxRunningSeqs(g) <= MaxSeqs

\* Mutant of Required: a running group is charged nothing for its appends.
RequiredForAppends(g) ==
    CASE phase[g] = "ready"   -> 0
      [] phase[g] = "swapped" -> Cardinality(Tabled(live[g])) + Cardinality(live[g])
      [] OTHER                -> LogicalBlocks(g)

\* Mutant of Required: a running group is charged for the blocks it has.
RequiredInTotal(g) ==
    CASE phase[g] = "waiting" -> LogicalBlocks(g)
      [] OTHER                -> Cardinality(Tabled(live[g])) + MaxRunningSeqs(g)

\* Mutant of Required: the blocks a group brings from the CPU are forgotten.
RequiredForSlots(g) ==
    CASE phase[g] = "waiting" -> LogicalBlocks(g)
      [] OTHER                -> MaxRunningSeqs(g)

(* What a group will take from the free blocks, as _general_schedule guesses. *)
Required(g) ==
    CASE phase[g] = "ready"   -> MaxRunningSeqs(g)
      [] phase[g] = "swapped" -> Cardinality(Tabled(live[g])) + Cardinality(live[g])
      [] OTHER                -> LogicalBlocks(g)

BeginTick ==
    /\ raised = "no" /\ stage = "between" /\ Unselected # {}
    /\ stage' = "select"
    /\ UNCHANGED <<blockVars, groupVars, left, pinned, rest, take, budget, need, uncharged,
                   pending, cacheVars>>

(* A prompt is not beyond prompt_limit (2232): it has one sequence, which is   *)
(* cut to the budget, and at most MaxLen tokens.                               *)
Select(g) ==
    /\ stage = "select" /\ g \in Unselected /\ Fits(g)
    /\ pinned' = Append(pinned, g)
    /\ take' = [take EXCEPT ![g] = NewTokens(g)]
    /\ budget' = [tokens |-> budget.tokens + NewTokens(g),
                  seqs |-> budget.seqs + MaxRunningSeqs(g)]
    /\ need' = need + Required(g)
    /\ UNCHANGED <<blockVars, groupVars, left, stage, rest, uncharged, pending, cacheVars>>

(* The loop breaks at the first group that does not fit, the head of the      *)
(* rest.  What is not in the order at all is waiting.                         *)
EndSelect ==
    /\ stage = "select"
    /\ \E R \in SUBSET Unselected :
         /\ \A g \in Unselected \ R : phase[g] = "waiting"
         /\ \E r \in [1 .. Cardinality(R) -> R] :
              /\ Range(r) = R
              /\ R # {} => ~Fits(r[1])
              /\ rest' = r
    /\ need' = need - Cardinality(FreeGpu) + Watermark
    /\ stage' = IF need' > 0 THEN "reserve" ELSE "swap_in"
    /\ UNCHANGED <<blockVars, groupVars, left, pinned, take, budget, uncharged, pending, cacheVars>>

-----------------------------------------------------------------------------
(* reserve_free_blocks.  Where(g) pairs the old blocks with the new ones.     *)
Where(g) == UNION {{<<table[s][i], table'[s][i]>> : i \in DOMAIN table[s]} : s \in live[g]}

SwapGroupOut(g) ==
    IF CanSwapOut(live[g])
    THEN /\ SwapOut(live[g]) /\ SetPhase(g, "swapped")
         /\ swapOut' = swapOut \cup Where(g)
    ELSE Raise("NoSwapSpace") /\ UNCHANGED <<groupVars, swapOut>>

SwapGroupIn(g) ==
    /\ SwapIn(live[g]) /\ SetPhase(g, "returned")
    /\ swapIn' = swapIn \cup Where(g)

Reserving == raised = "no" /\ stage = "reserve"
Victims == {i \in DOMAIN rest : phase[rest[i]] = "ready"}

(* First the running groups of the rest, from its end.                        *)
PreemptVictim ==
    /\ Reserving /\ need > 0
    /\ \E i \in Victims :
         /\ \A j \in Victims : j <= i
         /\ need' = need - Cardinality(Tabled(live[rest[i]]))
         /\ SwapGroupOut(rest[i])
    /\ UNCHANGED <<left, stage, pinned, rest, take, budget, uncharged, pending, swapIn, copies, kv>>

(* Then selected groups are put back, the last one first, with what they were *)
(* charged for; a running one is swapped out.                                 *)
PutBack ==
    /\ Reserving /\ need > 0 /\ Victims = {} /\ pinned # <<>>
    /\ LET g == pinned[Len(pinned)]
           held == Cardinality(Tabled(live[g]))
           seqs == Cardinality(live[g])
       IN  /\ need' = need - (IF phase[g] = "waiting" THEN LogicalBlocks(g)
                              ELSE held + seqs)
           /\ IF phase[g] = "ready" THEN SwapGroupOut(g)
              ELSE UNCHANGED <<blockVars, groupVars, swapOut>>
           /\ take' = [take EXCEPT ![g] = 0]
           /\ rest' = Append(rest, g)
    /\ pinned' = SubSeq(pinned, 1, Len(pinned) - 1)
    /\ UNCHANGED <<left, stage, budget, uncharged, pending, swapIn, copies, kv>>

(* After swap-outs nothing is swapped in that was not selected.               *)
EndReserve ==
    /\ Reserving
    /\ \/ /\ need <= 0
          /\ stage' = "swap_in_only"
          /\ UNCHANGED blockVars
       \/ /\ need > 0 /\ Victims = {} /\ pinned = <<>>
          /\ Raise("AssertionError")
          /\ UNCHANGED stage
    /\ UNCHANGED <<groupVars, left, pinned, rest, take, budget, need, uncharged, pending, cacheVars>>

(* The selected groups that are swapped out come back, nobody asks can_swap_in. *)
Returning == {i \in DOMAIN pinned : phase[pinned[i]] = "swapped"}

SwappingIn == raised = "no" /\ stage \in {"swap_in", "swap_in_only"}

SwapInPinned ==
    /\ SwappingIn
    /\ \E i \in Returning :
         /\ \A j \in Returning : i <= j
         /\ SwapGroupIn(pinned[i])
    /\ UNCHANGED <<left, stage, pinned, rest, take, budget, need, uncharged, pending,
                   swapOut, copies, kv>>

EndSwapIn ==
    /\ SwappingIn /\ Returning = {}
    /\ stage' = IF stage = "swap_in" THEN "proactive" ELSE "execute"
    /\ UNCHANGED <<blockVars, groupVars, left, pinned, rest, take, budget, need, uncharged,
                   pending, cacheVars>>

(* Groups of the rest that are swapped out come back when there is room.  The *)
(* charge goes to the last selected group, which is charged already, and the  *)
(* slots of the new one are not added to `need`: its sequences are running by *)
(* the time they are counted.                                                 *)
Candidates == {i \in DOMAIN rest : phase[rest[i]] = "swapped"}

Room(g) ==
    /\ CanSwapIn(live[g])
    /\ need + Cardinality(Tabled(live[g])) + Cardinality(live[g]) < 0
    /\ Fits(g)

SwapInMore ==
    /\ raised = "no" /\ stage = "proactive"
    /\ \E i \in Candidates :
         /\ \A j \in Candidates : i <= j
         /\ LET g == rest[i]
            IN  /\ Room(g)
                /\ IF pinned = <<>>
                   THEN /\ Raise("UnboundLocalError")
                        /\ UNCHANGED <<groupVars, pinned, take, need, uncharged, swapIn>>
                   ELSE /\ SwapGroupIn(g)
                        /\ need' = need + Cardinality(Tabled(live[g]))
                        /\ pinned' = Append(pinned, g)
                        /\ take' = [take EXCEPT ![g] = Uncomputed(g)]
                        /\ uncharged' = uncharged \cup {g}
    /\ UNCHANGED <<left, stage, rest, budget, pending, swapOut, copies, kv>>

EndProactive ==
    /\ raised = "no" /\ stage = "proactive"
    /\ \A i \in Candidates : (\A j \in Candidates : i <= j) => ~Room(rest[i])
    /\ stage' = "execute"
    /\ UNCHANGED <<blockVars, groupVars, left, pinned, rest, take, budget, need, uncharged,
                   pending, cacheVars>>

-----------------------------------------------------------------------------
(* The groups are executed in their order; each branch asserts that there is  *)
(* room.                                                                      *)
Starting == raised = "no" /\ stage = "execute" /\ pending = {} /\ pinned # <<>>

StartPrompt ==
    /\ Starting
    /\ LET g == Head(pinned)
       IN  /\ phase[g] = "waiting"
           /\ IF CanAllocate(LogicalBlocks(g)) = "OK"
              THEN Allocate(live[g], LogicalBlocks(g), NumSeqs(g)) /\ SetPhase(g, "executing")
              ELSE Raise("AssertionError") /\ UNCHANGED groupVars
    /\ pinned' = Tail(pinned)
    /\ UNCHANGED <<left, stage, rest, take, budget, need, uncharged, pending, cacheVars>>

(* A group that was swapped in is asserted to have one new token, unless its  *)
(* prompt is not computed yet.                                                *)
ManyTokens(g) == phase[g] = "returned" /\ left[g] = 0 /\ take[g] # 1

Continue ==
    /\ Starting
    /\ LET g == Head(pinned)
       IN  /\ phase[g] \in {"ready", "returned"}
           /\ \/ /\ CanAppendSlots(live[g]) /\ ~ManyTokens(g)
                 /\ SetPhase(g, "appending") /\ pending' = live[g]
                 /\ UNCHANGED blockVars
              \/ /\ ~CanAppendSlots(live[g]) \/ ManyTokens(g)
                 /\ Raise(IF CanAppendSlots(live[g]) THEN "NotOneToken" ELSE "AssertionError")
                 /\ UNCHANGED <<groupVars, pending>>
    /\ pinned' = Tail(pinned)
    /\ UNCHANGED <<left, stage, rest, take, budget, need, uncharged, cacheVars>>

Copied(s) ==
    LET n == Len(table[s])
    IN  IF Len(table'[s]) = n /\ n > 0 /\ table'[s] # table[s]
        THEN {<<table[s][n], table'[s][n]>>} ELSE {}

AppendSlot(s) ==
    /\ raised = "no" /\ s \in pending
    /\ \E g \in In("appending") :
         /\ AppendSlots(s, LogicalBlocks(g))
         /\ IF pending = {s} THEN SetPhase(g, "executing") ELSE UNCHANGED groupVars
    /\ pending' = pending \ {s}
    /\ copies' = copies \cup Copied(s)
    /\ UNCHANGED <<left, stage, pinned, rest, take, budget, need, uncharged, swapOut, swapIn, kv>>

EndExecute ==
    /\ raised = "no" /\ stage = "execute" /\ pending = {} /\ pinned = <<>>
    /\ stage' = "worker"
    /\ need' = 0 /\ budget' = NoCharge
    /\ UNCHANGED <<blockVars, groupVars, left, pinned, rest, take, uncharged, pending,
                   cacheVars>>

-----------------------------------------------------------------------------
(* Worker.cache_swap: swap out, then swap in, then copy.                      *)
After(pairs, contents) ==
    [b \in Blocks |->
        IF \E p \in pairs : p[2] = b
        THEN contents[(CHOOSE p \in pairs : p[2] = b)[1]] ELSE contents[b]]

\* Mutant of CacheSwap: blocks are swapped in before others are swapped out.
CacheSwapInFirst ==
    /\ raised = "no" /\ stage = "worker"
    /\ kv' = After(copies, After(swapOut, After(swapIn, kv)))
    /\ swapOut' = {} /\ swapIn' = {} /\ copies' = {}
    /\ stage' = "model"
    /\ UNCHANGED <<blockVars, groupVars, left, pinned, rest, take, budget, need, uncharged, pending>>

CacheSwap ==
    /\ raised = "no" /\ stage = "worker"
    /\ kv' = After(copies, After(swapIn, After(swapOut, kv)))
    /\ swapOut' = {} /\ swapIn' = {} /\ copies' = {}
    /\ stage' = "model"
    /\ UNCHANGED <<blockVars, groupVars, left, pinned, rest, take, budget, need, uncharged, pending>>

(* The model reads the tokens computed before and writes the new ones.  What  *)
(* a free block holds is of no use to anybody.                                *)
Computed(g) == IF left[g] > 0 THEN tokens[g] - left[g] ELSE tokens[g] - 1
Chunk(g) == IF left[g] > 0 THEN take[g] ELSE 1
Writes(g) == Computed(g) \div BlockSize + 1 .. BlocksFor(Computed(g) + Chunk(g))

Model ==
    /\ stage = "model"
    /\ LET written == UNION {UNION {{<<table[s][i], <<g, i>>>> : i \in Writes(g)} :
                                       s \in live[g]} : g \in In("executing")}
       IN  kv' = [b \in Blocks |->
                     CASE b \in free                  -> Nobody
                       [] \E w \in written : w[1] = b -> (CHOOSE w \in written : w[1] = b)[2]
                       [] OTHER                       -> kv[b]]
    /\ stage' = IF In("executing") = {} THEN "between" ELSE "process"
    /\ rest' = <<>>
    /\ UNCHANGED <<blockVars, groupVars, left, pinned, take, budget, need, uncharged, pending,
                   swapOut, swapIn, copies>>

(* _process_model_outputs: a prompt that is not computed to its end has no    *)
(* output yet.                                                                *)
ProcessOutput(g) ==
    /\ raised = "no" /\ stage = "process" /\ phase[g] = "executing"
    /\ IF left[g] > Chunk(g)
       THEN SetPhase(g, "ready") /\ UNCHANGED <<blockVars, kv>>
       ELSE /\ SampleAndStop(g, left[g] > 0)
            /\ IF phase'[g] = "idle" THEN Forget(g) ELSE UNCHANGED kv
    /\ left' = [left EXCEPT ![g] = IF @ > Chunk(g) THEN @ - Chunk(g) ELSE 0]
    /\ take' = [take EXCEPT ![g] = 0]
    /\ uncharged' = uncharged \ {g}
    /\ stage' = IF In("executing") = {g} THEN "between" ELSE "process"
    /\ UNCHANGED <<pinned, rest, budget, need, pending, swapOut, swapIn, copies>>

GeneralNext ==
    \/ \E g \in Groups : AddRequest(g) \/ AbortRequest(g) \/ Select(g) \/ ProcessOutput(g)
    \/ BeginTick \/ EndSelect
    \/ PreemptVictim \/ PutBack \/ EndReserve
    \/ SwapInPinned \/ EndSwapIn \/ SwapInMore \/ EndProactive
    \/ StartPrompt \/ Continue \/ EndExecute
    \/ \E s \in Seqs : AppendSlot(s)
    \/ CacheSwap \/ Model

GeneralSpec == GeneralInit /\ [][GeneralNext]_generalVars

-----------------------------------------------------------------------------
(* Every variable keeps its type, in the manager and in the tick.             *)
GeneralTypeOK ==
    /\ GroupsTypeOK(Phases)
    /\ table \in [Seqs -> Seq(Blocks)]
    /\ ref \in [Blocks -> Nat]
    /\ free \subseteq Blocks
    /\ raised \in {"no", "OutOfMemory", "AssertionError", "DoubleFree", "NoSwapSpace",
                   "NotOneToken", "UnboundLocalError"}
    /\ left \in [Groups -> 0 .. MaxLen]
    /\ stage \in {"between", "select", "reserve", "swap_in", "swap_in_only", "proactive", "execute",
                  "worker", "model", "process"}
    /\ pinned \in Seq(Groups) /\ rest \in Seq(Groups)
    /\ take \in [Groups -> Nat]
    /\ budget \in [tokens : 0 .. TokenBudget, seqs : 0 .. MaxSeqs]
    /\ need \in Int
    /\ uncharged \subseteq Groups /\ pending \subseteq Seqs
    /\ swapOut \subseteq GpuBlocks \X CpuBlocks
    /\ swapIn \subseteq CpuBlocks \X GpuBlocks
    /\ copies \subseteq GpuBlocks \X GpuBlocks
    /\ kv \in [Blocks -> {Nobody} \cup (Groups \X (Nat \ {0}))]

(* The sequences that were swapped in without being selected in this tick.    *)
Lent == UNION {live[g] : g \in uncharged}

(* The guesses of _general_schedule are enough: reserve_free_blocks covers    *)
(* what it was asked for (line 2502), and every group it lets through finds   *)
(* its blocks (2274, 2298 and 2320), unless it has swapped in more sequences  *)
(* of the rest than the watermark leaves room for: it forgets their slots     *)
(* when it counts on (2545).  No block is freed twice.                        *)
TickAsserts ==
    /\ raised # "DoubleFree"
    /\ raised = "AssertionError" => Cardinality(Lent) > Watermark + 2

(* Requests are swapped in "if there are enough free blocks" (line 2530): the *)
(* assertion that each of them can append its slots (2320) never fails.       *)
RoomForSwappedIn == raised # "AssertionError"

(* What nobody asserts holds too: the unchecked swap-ins find their blocks,   *)
(* and so do the appends behind them.                                         *)
EstimatesSuffice == raised \notin {"OutOfMemory", "UnboundLocalError"}

(* When the model runs, the blocks of every group it runs hold the tokens     *)
(* computed before, although one tick may swap a group out of the blocks it   *)
(* swaps another into, and copies what it has just swapped in.                *)
KVIntact ==
    stage = "model" =>
        \A g \in In("executing") : \A s \in live[g] :
            \A i \in 1 .. BlocksFor(Computed(g)) : kv[table[s][i]] = <<g, i>>

(* The whole batch stays within max_num_batched_tokens and max_num_seqs, with *)
(* the groups that were swapped in proactively and never charged.             *)
Load(G) == SumFunctionOnSet([g \in Groups |-> Chunk(g) * Cardinality(live[g])], G)
WithinBudget(G) ==
    /\ Load(G) <= TokenBudget
    /\ SumFunctionOnSet([g \in Groups |-> Cardinality(live[g])], G) <= MaxSeqs

BatchWithinBudget == stage = "model" => WithinBudget(In("executing"))

(* A tick that leaves somebody out executes somebody: putting groups back does *)
(* not empty the batch, so a tick is not repeated for ever.  The exceptions    *)
(* are a head of the order that is wider than any batch, and a last group to   *)
(* be put back which, with nobody else on the GPU, has no room beside the      *)
(* watermark and a slot for every sequence of a batch.                         *)
TooWide(g) == MaxRunningSeqs(g) > MaxSeqs
Footprint(g) ==
    IF phase[g] = "waiting" THEN LogicalBlocks(g) ELSE Cardinality(Tabled(live[g]))
TooLarge(g) == Footprint(g) + MaxSeqs + Watermark > Cardinality(GpuBlocks)

NoEmptyTick ==
    stage = "model" /\ rest # <<>> /\ In("executing") = {} =>
        TooWide(rest[1]) \/ TooLarge(rest[Len(rest)])
=============================================================================
