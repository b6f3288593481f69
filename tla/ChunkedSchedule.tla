--------------------------- MODULE ChunkedSchedule ---------------------------
(* The chunked-prefill schedule of vllm/core/scheduler.py, and the choice     *)
(* between it and the default one.  A tick runs what is in `running`, then    *)
(* swaps in, then admits prompts, all charged to one token budget; what does  *)
(* not fit of a prompt waits for the next tick.  The queues keep their order  *)
(* here, for the budget depends on it.                                        *)
EXTENDS DefaultSchedule, Lists

CONSTANTS
    TokenBudget,  \* max_num_batched_tokens
    MaxNumSeqs    \* max_num_seqs

ASSUME BudgetAssumption ==
    TokenBudget \in Nat /\ MaxNumSeqs \in Nat \ {0} /\ MaxNumSeqs <= TokenBudget

VARIABLES
    chunked,   \* chunked_prefill_enabled
    arrived,   \* the unfinished groups by arrival time, the order of fcfs
    queue,     \* `waiting`
    computed,  \* _num_computed_tokens of a group
    decode,    \* groups whose sequences are in stage DECODE
    chunk,     \* token_chunk_size of a scheduled group
    spent      \* num_batched_tokens of the tick's budget

orderVars == <<arrived, queue>>
chunkVars == <<computed, decode, chunk, spent>>
chunkedVars == <<chunked, vars, orderVars, chunkVars>>

ChunkedInit ==
    /\ Init
    /\ chunked \in BOOLEAN
    /\ arrived = <<>> /\ queue = <<>>
    /\ computed = [g \in Groups |-> 0]
    /\ decode = {}
    /\ chunk = [g \in Groups |-> 0]
    /\ spent = 0

(* fcfs: of two groups the one that arrived before the other.                 *)
Before(g, h) ==
    \E i, j \in DOMAIN arrived : i <= j /\ arrived[i] = g /\ arrived[j] = h
IsFirst(g, G) == g \in G /\ \A h \in G : Before(g, h)
IsLast(g, G) == g \in G /\ \A h \in G : Before(h, g)

-----------------------------------------------------------------------------
(* The budget.  Only a group of one sequence is cut; what remains may be      *)
(* negative.                                                                  *)
NewTokens(g) ==
    IF g \in decode THEN Cardinality(live[g]) ELSE tokens[g] - computed[g]

Cut(n) == IF n < TokenBudget - spent THEN n ELSE TokenBudget - spent
NewChunk(g) == IF Cardinality(live[g]) = 1 THEN Cut(NewTokens(g)) ELSE NewTokens(g)

Scheduled == In("prefilling") \cup In("appending") \cup In("returning") \cup In("decoding")
Places(G) == UNION {{g} \X (1 .. MaxRunningSeqs(g)) : g \in G}
Seats == Cardinality(Places(Scheduled))
CanSchedule(g, n) ==
    spent + n <= TokenBudget /\ Seats + MaxRunningSeqs(g) <= MaxNumSeqs

Charge(g, n) ==
    /\ chunk' = [chunk EXCEPT ![g] = IF g \in decode THEN 1 ELSE n]
    /\ spent' = spent + n

-----------------------------------------------------------------------------
ArriveChunked(g) ==
    /\ AddRequest(g)
    /\ arrived' = Append(arrived, g)
    /\ queue' = Append(queue, g)
    /\ UNCHANGED chunkVars

\* Mutant of Drop: the group stays in the queue.
DropFromRunning(g) ==
    /\ arrived' \in Filtered(arrived, Groups \ {g})
    /\ UNCHANGED queue
    /\ computed' = [computed EXCEPT ![g] = 0]
    /\ decode' = decode \ {g}

Drop(g) ==
    /\ arrived' \in Filtered(arrived, Groups \ {g})
    /\ queue' \in Filtered(queue, Groups \ {g})
    /\ computed' = [computed EXCEPT ![g] = 0]
    /\ decode' = decode \ {g}

AbortChunked(g) == AbortRequest(g) /\ Drop(g) /\ UNCHANGED <<chunk, spent>>

(* The running pass visits `running` by arrival; the code asserts that there  *)
(* is always a token left for the next group.                                 *)
Visited(g) == RunningPass /\ IsFirst(g, In("ready"))

RunChunk(g) ==
    /\ Visited(g)
    /\ NewChunk(g) # 0 => CanAppendSlots(live[g])
    /\ IF NewChunk(g) = 0
       THEN Raise("EmptyChunk") /\ UNCHANGED <<groupVars, pending, chunk, spent>>
       ELSE /\ StartAppend(g, "appending")
            /\ Charge(g, NewChunk(g))
            /\ UNCHANGED blockVars
    /\ UNCHANGED <<stage, orderVars, computed, decode>>

AppendChunked(s) == AppendSlot(s) /\ UNCHANGED <<orderVars, chunkVars>>

\* Mutant of Squeeze: a group that is recomputed keeps its count.
SqueezeKeepsCount(g) ==
    /\ \E h \in In("ready") : Visited(h) /\ NewChunk(h) # 0 /\ ~CanAppendSlots(live[h])
    /\ IsLast(g, In("ready"))
    /\ Preempt(g)
    /\ stage' = "squeezed"
    /\ UNCHANGED <<pending, orderVars, chunkVars>>

(* The victim is the last to have arrived; recomputation forgets its tokens.  *)
Squeeze(g) ==
    /\ \E h \in In("ready") : Visited(h) /\ NewChunk(h) # 0 /\ ~CanAppendSlots(live[h])
    /\ IsLast(g, In("ready"))
    /\ Preempt(g)
    /\ LET again == {h \in {g} : phase'[h] = "waiting"}
       IN  /\ computed' = [h \in Groups |-> IF h \in again THEN 0 ELSE computed[h]]
           /\ decode' = decode \ again
    /\ stage' = "squeezed"
    /\ UNCHANGED <<pending, orderVars, chunk, spent>>

(* The swapped pass does not cut: a group whose rest is larger than the       *)
(* budget stays on the CPU.                                                   *)
SwappedGoesOn(g) ==
    /\ RunningPass /\ stage = "schedule" /\ In("ready") = {}
    /\ IsFirst(g, In("swapped"))
    /\ CanSwapIn(live[g]) /\ CanSchedule(g, NewTokens(g))

SwapInChunked(g) ==
    /\ SwappedGoesOn(g) /\ ScheduleSwapped(g)
    /\ Charge(g, NewTokens(g))
    /\ UNCHANGED <<orderVars, computed, decode>>

ReturnedChunked(g) == Returned(g) /\ UNCHANGED <<orderVars, chunkVars>>

(* The prefill pass admits prompts from the head of the queue, even while     *)
(* groups are swapped out and in the tick that preempted others.              *)
Prompt(g) ==
    /\ Scheduling /\ In("ready") = {}
    /\ ~ \E h \in Groups : SwappedGoesOn(h)
    /\ queue # <<>> /\ g = Head(queue)

Admissible(g) ==
    /\ CanAllocate(LogicalBlocks(g)) = "OK"
    /\ Cut(tokens[g]) # 0 /\ CanSchedule(g, Cut(tokens[g]))

AdmitPrompt(g) ==
    /\ Prompt(g) /\ Admissible(g)
    /\ Allocate(live[g], LogicalBlocks(g), NumSeqs(g))
    /\ SetPhase(g, "prefilling")
    /\ Charge(g, Cut(tokens[g]))
    /\ queue' = Tail(queue)
    /\ UNCHANGED <<pending, stage, arrived, computed, decode>>

RefusePrompt(g) ==
    /\ Prompt(g) /\ CanAllocate(LogicalBlocks(g)) = "NEVER"
    /\ Retire(g) /\ Drop(g)
    /\ UNCHANGED <<blockVars, pending, stage, chunk, spent>>

-----------------------------------------------------------------------------
(* The preempted go to the front of the queue, the first to arrive first.     *)
(* What a worker makes of a negative chunk is not followed.                   *)
ExecuteChunked ==
    /\ Scheduling /\ In("ready") = {}
    /\ \A g \in Groups :
         /\ ~SwappedGoesOn(g)
         /\ Prompt(g) => ~Admissible(g) /\ CanAllocate(LogicalBlocks(g)) # "NEVER"
    /\ Executing # {} \/ stage = "squeezed"
    /\ LET why == CASE spent > TokenBudget                  -> "OverBudget"
                    [] Seats > MaxNumSeqs                   -> "AssertionError"
                    [] \E g \in Executing : chunk[g] < 0    -> "NegativeChunk"
                    [] OTHER                                -> "no"
       IN  IF why = "no" THEN UNCHANGED blockVars ELSE Raise(why)
    /\ \E again \in Filtered(arrived, In("waiting") \ Range(queue)) :
          queue' = again \o queue
    /\ stage' = IF Executing = {} THEN "schedule" ELSE "process"
    /\ spent' = 0
    /\ UNCHANGED <<groupVars, pending, arrived, computed, decode, chunk>>

(* Only a group whose tokens are all computed has sampled.                    *)
ProcessChunk(g) ==
    /\ raised = "no" /\ stage = "process" /\ g \in Executing
    /\ LET sum == computed[g] + chunk[g]
       IN  \/ /\ sum # tokens[g]
              /\ IF sum < tokens[g] THEN SetPhase(g, "ready") /\ UNCHANGED blockVars
                 ELSE Raise("AssertionError") /\ UNCHANGED groupVars
              /\ computed' = [computed EXCEPT ![g] = sum]
              /\ UNCHANGED <<arrived, queue, decode>>
           \/ /\ sum = tokens[g]
              /\ SampleAndStop(g, g \notin decode)
              /\ IF phase'[g] = "idle" THEN Drop(g)
                 ELSE /\ computed' = [computed EXCEPT ![g] = sum]
                      /\ decode' = decode \cup {g}
                      /\ UNCHANGED <<arrived, queue>>
    /\ chunk' = [chunk EXCEPT ![g] = 0]
    /\ stage' = IF Executing = {g} THEN "schedule" ELSE "process"
    /\ UNCHANGED <<pending, spent>>

ChunkedNext ==
    \/ \E g \in Groups :
         \/ ArriveChunked(g) \/ AbortChunked(g)
         \/ RunChunk(g) \/ Squeeze(g)
         \/ SwapInChunked(g) \/ ReturnedChunked(g)
         \/ AdmitPrompt(g) \/ RefusePrompt(g)
         \/ ProcessChunk(g)
    \/ \E s \in Seqs : AppendChunked(s)
    \/ ExecuteChunked

(* _schedule.                                                                 *)
ScheduleNext ==
    /\ \/ chunked /\ ChunkedNext
       \/ ~chunked /\ Next /\ UNCHANGED <<orderVars, chunkVars>>
    /\ UNCHANGED chunked

ScheduleSpec == ChunkedInit /\ [][ScheduleNext]_chunkedVars

-----------------------------------------------------------------------------
(* Every variable of the chunked schedule keeps its type: queues hold each    *)
(* group at most once, and no count leaves its range.                         *)
ChunkedTypeOK ==
    /\ BlocksTypeOK /\ chunked \in BOOLEAN
    /\ arrived \in Seq(Groups) /\ IsInjective(arrived)
    /\ queue \in Seq(Groups) /\ IsInjective(queue)
    /\ computed \in [Groups -> 0 .. MaxLen]
    /\ decode \subseteq Groups
    /\ chunk \in [Groups -> Int] /\ spent \in Int

(* A group is in the queue of its status, once, whatever passes have moved    *)
(* it; what it has computed is in blocks that it holds, all of a decoding     *)
(* group's tokens but the newest, however it was cut, preempted and swapped.  *)
ComputedIsHeld ==
    chunked => \A g \in Groups :
        /\ phase[g] # "idle" <=> g \in Range(arrived)
        /\ g \in Range(queue) => phase[g] = "waiting"
        /\ \A s \in live[g] : Len(table[s]) >= BlocksFor(computed[g])
        /\ g \in decode => computed[g] = tokens[g] - 1

(* scheduler.py:598: "We can have up to 1 running prefill at any given time   *)
(* in running queue, which means we can guarantee chunk size is at least 1."  *)
(* Violated: a group that is computed again takes the whole budget, before a  *)
(* group that was admitted meanwhile.                                         *)
ChunkSizeAtLeastOne == raised # "EmptyChunk"
=============================================================================
