--------------------------- MODULE DefaultSchedule ---------------------------
(* The default schedule (fcfs, sjf) of vllm/core/scheduler.py over the block  *)
(* manager: the prefill, running and swapped passes of a tick, the execution  *)
(* of what they scheduled and the output processor.  Budgets and the order of *)
(* the queues are data: any group a pass could reach may come next.  Groups   *)
(* in phase "ready" are in `running` between ticks.                           *)
EXTENDS SequenceGroups

VARIABLES
    pending,  \* sequences _append_slots has still to visit
    stage     \* of the tick: "squeezed" once a group has been preempted

vars == <<blockVars, groupVars, pending, stage>>

Phases == {"idle", "waiting", "prefilling", "ready", "appending", "decoding",
           "swapped", "returning"}
Executing == In("prefilling") \cup In("decoding")

Init ==
    /\ BlockInit
    /\ GroupsInit
    /\ pending = {}
    /\ stage = "schedule"

-----------------------------------------------------------------------------
Scheduling ==
    raised = "no" /\ pending = {} /\ In("returning") = {} /\ stage # "process"
BetweenTicks == Scheduling /\ stage = "schedule" /\ Executing = {}

AddRequest(g) == BetweenTicks /\ Arrive(g) /\ UNCHANGED <<pending, stage>>

AbortRequest(g) ==
    /\ BetweenTicks /\ phase[g] # "idle"
    /\ Leave(g)
    /\ UNCHANGED <<pending, stage>>

(* The prefill pass runs first, and only while nothing is swapped out.        *)
PrefillPass(g) ==
    Scheduling /\ stage = "schedule" /\ phase[g] = "waiting"
    /\ In("swapped") \cup In("decoding") = {}

SchedulePrefill(g) ==
    /\ PrefillPass(g) /\ CanAllocate(LogicalBlocks(g)) = "OK"
    /\ Allocate(live[g], LogicalBlocks(g), NumSeqs(g))
    /\ SetPhase(g, "prefilling")
    /\ UNCHANGED <<pending, stage>>

IgnorePrompt(g) ==
    /\ PrefillPass(g) /\ CanAllocate(LogicalBlocks(g)) = "NEVER"
    /\ Retire(g)
    /\ UNCHANGED <<blockVars, pending, stage>>

(* The running pass: a tick with prefills has none.                           *)
RunningPass == Scheduling /\ In("prefilling") = {}

StartAppend(g, p) == SetPhase(g, p) /\ pending' = live[g]

ScheduleRunning(g) ==
    /\ RunningPass /\ phase[g] = "ready" /\ CanAppendSlots(live[g])
    /\ StartAppend(g, "appending")
    /\ UNCHANGED <<blockVars, stage>>

(* _append_slots visits the running sequences of the group one by one.        *)
AppendSlot(s) ==
    /\ raised = "no" /\ s \in pending
    /\ \E g \in In("appending") \cup In("returning") :
         /\ AppendSlots(s, LogicalBlocks(g))
         /\ IF pending = {s} /\ phase[g] = "appending"
            THEN SetPhase(g, "decoding") ELSE UNCHANGED groupVars
    /\ pending' = pending \ {s}
    /\ UNCHANGED stage

(* A group that finds no room makes victims of the groups behind it, and of   *)
(* itself when no other is left.                                              *)
Victim(g) ==
    /\ RunningPass /\ phase[g] = "ready"
    /\ \E h \in In("ready") : ~CanAppendSlots(live[h]) /\ (h = g => In("ready") = {g})
    /\ stage' = "squeezed"
    /\ UNCHANGED pending

Preempt(g) ==
    \/ /\ MaxRunningSeqs(g) = 1
       /\ IF Cardinality(live[g]) = 1
          THEN Free(live[g]) /\ SetPhase(g, "waiting")
          ELSE Raise("AssertionError") /\ UNCHANGED groupVars
    \/ /\ MaxRunningSeqs(g) # 1
       /\ IF CanSwapOut(live[g])
          THEN SwapOut(live[g]) /\ SetPhase(g, "swapped")
          ELSE Raise("NoSwapSpace") /\ UNCHANGED groupVars

PreemptVictim(g) == Victim(g) /\ Preempt(g)

(* The swapped pass follows a running pass that preempted nobody.  It appends *)
(* without asking again, and asserts, last, that the group has one new token: *)
(* a decoding group has one for each of its sequences.                        *)
ScheduleSwapped(g) ==
    /\ RunningPass /\ stage = "schedule" /\ In("ready") = {}
    /\ phase[g] = "swapped" /\ CanSwapIn(live[g])
    /\ SwapIn(live[g])
    /\ StartAppend(g, "returning")
    /\ UNCHANGED stage

Returned(g) ==
    /\ raised = "no" /\ phase[g] = "returning" /\ pending = {}
    /\ IF Cardinality(live[g]) = 1
       THEN SetPhase(g, "decoding") /\ UNCHANGED blockVars
       ELSE Raise("NotOneToken") /\ UNCHANGED groupVars
    /\ UNCHANGED <<pending, stage>>

ExecuteModel ==
    /\ Scheduling
    /\ In("prefilling") # {} \/ In("ready") = {}
    /\ Executing # {} \/ stage = "squeezed"
    /\ stage' = IF Executing = {} THEN "schedule" ELSE "process"
    /\ UNCHANGED <<blockVars, groupVars, pending>>

ProcessOutput(g) ==
    /\ raised = "no" /\ stage = "process" /\ g \in Executing
    /\ SampleAndStop(g, phase[g] = "prefilling")
    /\ stage' = IF Executing = {g} THEN "schedule" ELSE "process"
    /\ UNCHANGED pending

Next ==
    \/ \E g \in Groups :
         \/ AddRequest(g) \/ AbortRequest(g)
         \/ SchedulePrefill(g) \/ IgnorePrompt(g)
         \/ ScheduleRunning(g) \/ PreemptVictim(g)
         \/ ScheduleSwapped(g) \/ Returned(g)
         \/ ProcessOutput(g)
    \/ \E s \in Seqs : AppendSlot(s)
    \/ ExecuteModel

Spec == Init /\ [][Next]_vars

-----------------------------------------------------------------------------
\* What the manager and the two schedules raise.
Raised == {"no", "OutOfMemory", "DoubleFree", "AssertionError", "NoSwapSpace",
           "NotOneToken", "EmptyChunk", "OverBudget", "NegativeChunk"}

(* Every variable keeps its type, in the manager and in the schedule.         *)
BlocksTypeOK ==
    /\ table \in [Seqs -> Seq(Blocks)]
    /\ ref \in [Blocks -> Nat]
    /\ free \subseteq Blocks
    /\ raised \in Raised
    /\ GroupsTypeOK(Phases)
    /\ pending \subseteq Seqs
    /\ stage \in {"schedule", "squeezed", "process"}

(* What can_allocate, can_append_slots, can_swap_in and can_swap_out promise  *)
(* at the start of a method is enough for all of it: no allocator runs dry in *)
(* mid-loop, not even in the appends that follow a swap-in unasked, no block  *)
(* is freed twice, and the assertions of append_slots and                     *)
(* _preempt_by_recompute hold.                                                *)
ChecksSuffice == raised \notin {"OutOfMemory", "DoubleFree", "AssertionError"}

(* While the model runs, the block a sequence writes its newest token to is   *)
(* held by no other sequence: copy on write happened where it had to.         *)
WritesArePrivate ==
    \A g \in Executing : \A s \in live[g] :
        Holders(table[s][Len(table[s])]) = {s}

=============================================================================
