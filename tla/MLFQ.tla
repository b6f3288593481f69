-------------------------------- MODULE MLFQ --------------------------------
(***************************************************************************)
(* The multi-level feedback queue, vllm/core/mlfq_scheduler.py: a baseline *)
(* scheduler with a list of requests for each level beside the lists for   *)
(* each status.  A tick takes a prefix of the levels out of them, evicts   *)
(* for the memory it needs, executes the rest, and puts back afterwards    *)
(* what is unfinished, a level lower when its quantum is used up.          *)
(*                                                                         *)
(* How much memory a tick finds is left open; prevent_starvation is called *)
(* after the return of _schedule only and is not modelled.                 *)
(***************************************************************************)
EXTENDS SequencesExt

CONSTANTS
    Group,     \* the sequence groups
    Wide,      \* those with two sequences (best_of = 2) once they have run
    MaxSeqs,   \* max_num_seqs
    Levels     \* bound: how many levels there are; the last one has no quantum

ASSUME MlfqAssumption ==
    /\ Wide \subseteq Group
    /\ MaxSeqs \in Nat \ {0, 1}
    /\ Levels \in Nat \ {0}

VARIABLES
    levels,     \* priority_queues: one list for each level
    level,      \* priority of each group, counted from 1
    place,      \* status of each group, which names the list that holds it
    batch,      \* real_running: what this tick executes, or the last one left
    everTicked, \* real_running exists
    stepping,   \* between schedule and free_finished_seq_groups
    raised      \* the exception that has ended the engine

mlfqVars == <<levels, level, place, batch, everTicked, stepping, raised>>

MlfqTypeOK ==
    /\ levels \in [1 .. Levels -> Seq(Group)]
    /\ level \in [Group -> 1 .. Levels]
    /\ place \in [Group -> {"new", "waiting", "running", "swapped", "gone"}]
    /\ batch \in Seq(Group)
    /\ everTicked \in BOOLEAN
    /\ stepping \in BOOLEAN
    /\ raised \in {"no", "attribute", "tokens", "count", "space"}

MlfqInit ==
    /\ levels = [l \in 1 .. Levels |-> <<>>]
    /\ level = [g \in Group |-> 1]
    /\ place = [g \in Group |-> "new"]
    /\ batch = <<>>
    /\ everTicked = FALSE
    /\ stepping = FALSE
    /\ raised = "no"

QueueList == FlattenSeq(levels)
In(status) == {g \in Group : place[g] = status}
Unfinished == In("waiting") \union In("running") \union In("swapped")

\* The elements of s that are in S, in the order of s.
Among(s, S) ==
    FlattenSeq([i \in DOMAIN s |-> IF s[i] \in S THEN <<s[i]>> ELSE <<>>])

\* Whether a is before b in s.
Before(s, a, b) == \E i, j \in DOMAIN s : i < j /\ s[i] = a /\ s[j] = b

\* max_num_running_seqs, summed over a list.
Width(g) == IF g \in Wide THEN 2 ELSE 1
SeqsOf(s) == Len(s) + Len(Among(s, Wide))

----------------------------------------------------------------------------
(* Requests *)

PushBack(g) == [levels EXCEPT ![level[g]] = Append(@, g)]

MlfqAdd(g) ==
    /\ ~stepping
    /\ place[g] = "new"
    /\ levels' = PushBack(g)
    /\ place' = [place EXCEPT ![g] = "waiting"]
    /\ UNCHANGED <<level, batch, everTicked, stepping, raised>>

DelRequests(S) == [l \in 1 .. Levels |-> Among(levels[l], Group \ S)]

\* abort_seq_group.  Having removed the request it goes through real_running,
\* an attribute that does not exist before the first tick.
MlfqAbort(g) ==
    /\ ~stepping
    /\ place[g] # "new"
    /\ levels' = DelRequests({g})
    /\ place' = [place EXCEPT ![g] = "gone"]
    /\ raised' = IF everTicked THEN "no" ELSE "attribute"
    /\ UNCHANGED <<level, batch, everTicked, stepping>>

----------------------------------------------------------------------------
(* The tick *)

\* What the first loop selects is a prefix of the list, which ends where the
\* sequences or the tokens run out.  Room for one that is swapped in behind it
\* is left by the sequences, or by the tokens when they end at two decodes, which
\* cannot be cut to the one that is left.
Room(n) ==
    IF /\ n < Len(QueueList)
       /\ \/ SeqsOf(SubSeq(QueueList, 1, n + 1)) > MaxSeqs
          \/ QueueList[n + 1] \in Wide \ In("waiting")
    THEN MaxSeqs - SeqsOf(SubSeq(QueueList, 1, n))
    ELSE 0

\* A request that runs always finds room when it is first.
Selectable ==
    {n \in 0 .. Len(QueueList) :
        /\ SeqsOf(SubSeq(QueueList, 1, n)) <= MaxSeqs
        /\ QueueList # <<>> => n > 0}

\* Mutant of Evictions: the first of the selected are put back.
EvictionsOfFirst(selected, others) ==
    {[victims |-> ToSet(others), back |-> SubSeq(selected, 1, m),
      exec |-> SubSeq(selected, m + 1, Len(selected))] :
        m \in 0 .. Len(selected)}

\* reserve_free_blocks, for whatever memory is missing: the last of the other
\* running requests are swapped out, and when all of them are, the last of the
\* selected ones do not execute.
Evictions(selected, others) ==
    {[victims |-> ToSet(SubSeq(others, Len(others) - k + 1, Len(others))),
      back |-> <<>>, exec |-> selected] : k \in 0 .. Len(others)}
    \union
    {[victims |-> ToSet(others),
      back |-> SubSeq(selected, Len(selected) - m + 1, Len(selected)),
      exec |-> SubSeq(selected, 1, Len(selected) - m)] :
        m \in 1 .. Len(selected)}

\* The order of scheduled_seq_groups: prompts before decodes, and new, running
\* and swapped-in ones in that order.  M: the prompts that are half computed.
Executed(exec, M) ==
    Among(exec, In("waiting"))
    \o Among(exec, In("running") \intersect M)
    \o Among(exec, In("swapped") \intersect M)
    \o Among(exec, In("running") \ M)
    \o Among(exec, In("swapped") \ M)

\* Mutant of PutBack: what does not execute after all is not put back.
PutBackNothing(rest, back) == rest

\* push_front of each, from the last to the first of what was popped: the
\* order within a level is reversed.
PutBack(rest, back) ==
    [l \in 1 .. Levels |->
        Reverse(Among(back, {g \in Group : level[g] = l})) \o rest[l]]

\* A prompt is cut to the tokens that are left, so it is within prompt_limit
\* (632).  That the executed ones find their blocks (674, 695 and 716) rests on
\* the estimates of the general schedule (GeneralSchedule!TickAsserts).
MlfqTick(n, M) ==
    /\ ~stepping
    /\ Unfinished # {}
    /\ n \in Selectable
    /\ LET selected == SubSeq(QueueList, 1, n)
           others == Among(SubSeq(QueueList, n + 1, Len(QueueList)), In("running"))
       IN \E e \in Evictions(selected, others) :
             LET out == e.victims \union (ToSet(e.back) \intersect In("running"))
             IN /\ batch' = Executed(e.exec, M)
                /\ levels' = PutBack(DelRequests(ToSet(selected)), e.back)
                /\ place' = [g \in Group |->
                                IF g \in ToSet(e.exec) THEN "running"
                                ELSE IF g \in out THEN "swapped" ELSE place[g]]
                /\ raised' = IF ToSet(e.exec) \intersect Wide
                                \intersect In("swapped") \subseteq M
                             THEN "no" ELSE "tokens"
    /\ everTicked' = TRUE
    /\ stepping' = TRUE
    /\ UNCHANGED level

\* A running request is to be swapped out, and there is no space on the CPU.
TickOutOfSpace ==
    /\ ~stepping
    /\ In("running") # {}
    /\ raised' = "space"
    /\ UNCHANGED <<levels, level, place, batch, everTicked, stepping>>

\* The other half of reserve_free_blocks: when nothing has to be swapped out, a
\* swapped request from behind the selection is swapped in and executed if it
\* has room, memory and no swapped one before it on its level.  It stays in the
\* levels, and the count of the requests at the end of the tick does not hold.
ProactiveSwapIn(n) ==
    /\ ~stepping
    /\ n \in Selectable
    /\ \E l \in 1 .. Levels :
          LET behind == ToSet(SubSeq(QueueList, n + 1, Len(QueueList)))
              here == Among(levels[l], behind \intersect In("swapped"))
          IN here # <<>> /\ Width(Head(here)) <= Room(n)
    /\ raised' = "count"
    /\ UNCHANGED <<levels, level, place, batch, everTicked, stepping>>

\* Mutant of Demote: the priority number goes down with the priority.
DemoteDown(S) == [g \in Group |-> IF g \in S THEN level[g] - 1 ELSE level[g]]

Demote(S) == [g \in Group |-> IF g \in S THEN level[g] + 1 ELSE level[g]]

\* free_finished_seq_groups, after the model has run.
EndStep(finished, demoted) ==
    /\ stepping
    /\ level' = Demote(demoted)
    /\ levels' = [l \in 1 .. Levels |->
                     Reverse(Among(batch, {g \in Group \ finished : level'[g] = l}))
                     \o levels[l]]
    /\ place' = [g \in Group |-> IF g \in finished THEN "gone" ELSE place[g]]
    /\ batch' = Among(batch, Group \ finished)
    /\ stepping' = FALSE
    /\ UNCHANGED <<everTicked, raised>>

Demotable == {g \in ToSet(batch) : level[g] < Levels}

MlfqNext ==
    /\ raised = "no"
    /\ \/ \E g \in Group : MlfqAdd(g) \/ MlfqAbort(g)
       \/ \E n \in Selectable, M \in SUBSET Unfinished : MlfqTick(n, M)
       \/ TickOutOfSpace
       \/ \E n \in Selectable : ProactiveSwapIn(n)
       \/ \E finished \in SUBSET ToSet(batch) :
             \E demoted \in SUBSET (Demotable \ finished) :
                EndStep(finished, demoted)

MlfqSpec == MlfqInit /\ [][MlfqNext]_mlfqVars

----------------------------------------------------------------------------
(* Correctness *)

\* Levels and status lists hold the same requests: between ticks all that are
\* unfinished, during a step all but those that execute; each once, and on its
\* own level, through evictions, put-backs, demotions and aborts.
QueuesAgree ==
    raised = "no" =>
        /\ IsInjective(QueueList)
        /\ ToSet(QueueList) =
              IF stepping THEN Unfinished \ ToSet(batch) ELSE Unfinished
        /\ \A l \in 1 .. Levels : \A g \in ToSet(levels[l]) : level[g] = l

TickEnds == ~stepping /\ stepping' /\ raised' = "no"

\* The feedback queue's promise: no request executes while one that was before
\* it in the order does not, whatever had to be put back for memory; and memory
\* is taken from the bottom: nobody behind a request that loses its blocks in a
\* tick keeps them.
ExecutesInOrder ==
    [][TickEnds =>
          /\ \A g \in ToSet(batch'), h \in Unfinished \ ToSet(batch') :
                Before(QueueList, g, h)
          /\ \A v \in In("running"), g \in In("running") :
                place'[v] = "swapped" /\ place'[g] = "running"
                    => Before(QueueList, g, v)]_mlfqVars

\* The assertion at the end of the tick, line 787: what is left in the levels
\* is what is unfinished and does not execute.
CountAssertionHolds == raised # "count"
=============================================================================
