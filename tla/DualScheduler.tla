--------------------------- MODULE DualScheduler ---------------------------
(***************************************************************************)
(* The scoring tick of the dual scheduler, vllm/core/scheduler.py          *)
(* (_get_dual_predictor_ordered_requests), with the two predictors it      *)
(* drives through vllm/model_executor/dual_aux_model.py: the streaming CPU *)
(* predictor of StreamPredictor, whose worker thread runs between any two  *)
(* steps of a tick, and the GPU predictor (AUXLLM), which is synchronous.  *)
(*                                                                         *)
(* A tick reads the score of one request after the other and, in a         *)
(* separate read that takes no lock, whether the CPU predictor has it in   *)
(* flight; so the reads of one tick need not belong to one instant.        *)
(***************************************************************************)
EXTENDS StreamPredictor

CONSTANT Warmup   \* whether the schedule type has a warm-up (T > 0 in dual<T>)

ASSUME WarmupAssumption == Warmup \in BOOLEAN

VARIABLES
    waiting,    \* Scheduler.waiting, in arrival order
    running,    \* the groups in Scheduler.running and Scheduler.swapped
    arrived,    \* the requests ever given to the scheduler
    started,    \* serve_start_time is not None
    warm,       \* elapsed < warmup_seconds
    tick,       \* where the tick is
    todo,       \* what the current pass of the tick has not looked at yet
    picked      \* what the current pass has selected

schedVars == <<waiting, running, arrived, started, warm, tick, todo, picked>>
queueVars == <<waiting, running, arrived, started, warm>>
dualVars == <<vars, schedVars>>

Stages == {"idle", "filter", "pending", "route", "spawning", "refilter",
           "gpu", "store", "gate", "schedule", "dead"}

DualTypeOK ==
    /\ TypeOK
    /\ waiting \in Seq(Req)
    /\ running \in SUBSET Req
    /\ arrived \in SUBSET Req
    /\ started \in BOOLEAN
    /\ warm \in BOOLEAN
    /\ tick \in Stages
    /\ todo \in Seq(Req)
    /\ picked \in Seq(Req)

DualInit ==
    /\ Init
    /\ waiting = <<>>
    /\ running = {}
    /\ arrived = {}
    /\ started = FALSE
    /\ warm = Warmup
    /\ tick = "idle"
    /\ todo = <<>>
    /\ picked = <<>>

Unscored(r) == score[r] = "none"
Live == ToSet(waiting) \union running

----------------------------------------------------------------------------
(* Between ticks: requests come and go. *)

\* add_seq_group: the first one of a schedule type with a warm-up starts the
\* clock.
AddSeqGroup(r) ==
    /\ tick = "idle"
    /\ r \notin arrived
    /\ arrived' = arrived \union {r}
    /\ waiting' = Append(waiting, r)
    /\ started' = (started \/ Warmup)
    /\ UNCHANGED <<vars, running, warm, tick, todo, picked>>

\* abort_seq_group: the group leaves its queue; the CPU predictor keeps it.
AbortSeqGroup(r) ==
    /\ tick = "idle"
    /\ r \in Live
    /\ waiting' \in Filtered(waiting, Req \ {r})
    /\ running' = running \ {r}
    /\ UNCHANGED <<vars, arrived, started, warm, tick, todo, picked>>

\* free_finished_seq_groups
Finish(r) ==
    /\ tick = "idle"
    /\ r \in running
    /\ running' = running \ {r}
    /\ UNCHANGED <<vars, waiting, arrived, started, warm, tick, todo, picked>>

\* Time passes: the warm-up is over for the ticks to come.
WarmupEnds ==
    /\ started
    /\ warm
    /\ warm' = FALSE
    /\ UNCHANGED <<vars, waiting, running, arrived, started, tick, todo,
                   picked>>

----------------------------------------------------------------------------
(* The tick *)

Goto(t, rest, sel) == tick' = t /\ todo' = rest /\ picked' = sel

\* A pass over rs that starts, or a jump over one that has nothing to read.
Pass(t, rs, next) ==
    IF rs # <<>> THEN Goto(t, rs, <<>>) ELSE Goto(next, <<>>, <<>>)

\* Stage 1: every unscored request goes to the GPU predictor.  The CPU
\* predictor has been given nothing yet, so this pass is read at once.
WarmupTick ==
    /\ tick = "idle"
    /\ Live # {}
    /\ warm
    /\ \E need \in Filtered(waiting, {r \in Req : Unscored(r)}) :
          IF need # <<>> THEN Goto("gpu", need, <<>>)
                         ELSE Pass("gate", waiting, "schedule")
    /\ UNCHANGED <<vars, queueVars>>

\* Stage 2 begins.  A scheduler whose clock never started returns nothing.
DualTick ==
    /\ tick = "idle"
    /\ Live # {}
    /\ ~warm
    /\ started
    /\ Pass("filter", waiting, "schedule")
    /\ UNCHANGED <<vars, queueVars>>

\* need_aux_model_score() of the next waiting request: a scored one is not
\* looked at further.
ReadScore ==
    /\ tick = "filter"
    /\ todo # <<>>
    /\ IF Unscored(Head(todo)) THEN Goto("pending", todo, picked)
                               ELSE Goto("filter", Tail(todo), picked)
    /\ UNCHANGED <<vars, queueVars>>

\* Mutant of ReadPending: the in-flight filter is dropped.
ReadPendingUnfiltered ==
    /\ tick = "pending"
    /\ Goto("filter", Tail(todo), Append(picked, Head(todo)))
    /\ UNCHANGED <<vars, queueVars>>

\* is_pending_cpu_score() of that request, a second read without the lock.
ReadPending ==
    /\ tick = "pending"
    /\ Goto("filter", Tail(todo),
            IF Head(todo) \in inFlight THEN picked
                                       ELSE Append(picked, Head(todo)))
    /\ UNCHANGED <<vars, queueVars>>

EndFilter ==
    /\ tick = "filter"
    /\ todo = <<>>
    /\ IF picked # <<>> THEN Goto("route", picked, <<>>)
                        ELSE Pass("gate", waiting, "schedule")
    /\ UNCHANGED <<vars, queueVars>>

\* route_batch sends the whole batch to the CPU: submit_streaming, whose
\* start of a worker is a step of its own.
RouteToCpu ==
    /\ tick = "route"
    /\ Enqueue(todo)
    /\ Goto("spawning", <<>>, <<>>)
    /\ UNCHANGED queueVars

SpawnReturns ==
    /\ tick = "spawning"
    /\ caller = "idle"
    /\ Pass("gate", waiting, "schedule")
    /\ UNCHANGED <<vars, queueVars>>

\* route_batch sends the whole batch to the GPU; the batch is read again.
RouteToGpu ==
    /\ tick = "route"
    /\ Goto("refilter", todo, <<>>)
    /\ UNCHANGED <<vars, queueVars>>

Refilter ==
    /\ tick = "refilter"
    /\ todo # <<>>
    /\ Goto("refilter", Tail(todo),
            IF Unscored(Head(todo)) THEN Append(picked, Head(todo))
                                    ELSE picked)
    /\ UNCHANGED <<vars, queueVars>>

\* Mutant of EndRefilter: a batch that shrank is not sent to the GPU at all.
EndRefilterDropsShrunkBatch ==
    /\ tick = "refilter"
    /\ todo = <<>>
    /\ IF Len(picked) > 1 THEN Goto("gpu", picked, <<>>)
                          ELSE Pass("gate", waiting, "schedule")
    /\ UNCHANGED <<vars, queueVars>>

EndRefilter ==
    /\ tick = "refilter"
    /\ todo = <<>>
    /\ IF picked # <<>> THEN Goto("gpu", picked, <<>>)
                        ELSE Pass("gate", waiting, "schedule")
    /\ UNCHANGED <<vars, queueVars>>

\* AUXLLM.obtain_aux_scores runs its own engine until the batch is done ...
GpuForward ==
    /\ tick = "gpu"
    /\ Goto("store", todo, <<>>)
    /\ UNCHANGED <<vars, queueVars>>

\* Mutant of GpuStore: a score that is no score.
GpuStoreNan ==
    /\ tick = "store"
    /\ Unscored(Head(todo))
    /\ score' = [score EXCEPT ![Head(todo)] = "nan"]
    /\ IF Tail(todo) # <<>> THEN Goto("store", Tail(todo), <<>>)
                            ELSE Pass("gate", waiting, "schedule")
    /\ UNCHANGED <<lockVars, up, tasks, caller, workerVars, queueVars>>

\* ... and then stores one score after the other ...
GpuStore ==
    /\ tick = "store"
    /\ Unscored(Head(todo))
    /\ score' = [score EXCEPT ![Head(todo)] = "gpu"]
    /\ IF Tail(todo) # <<>> THEN Goto("store", Tail(todo), <<>>)
                            ELSE Pass("gate", waiting, "schedule")
    /\ UNCHANGED <<lockVars, up, tasks, caller, workerVars, queueVars>>

\* ... with an assertion that the request still needs it.  Its failure leaves
\* the scheduler and ends the engine's loop.
GpuAssertFails ==
    /\ tick = "store"
    /\ ~Unscored(Head(todo))
    /\ Goto("dead", <<>>, <<>>)
    /\ UNCHANGED <<vars, queueVars>>

\* Mutant of Gate: unscored requests are offered as well.
GateOpen ==
    /\ tick = "gate"
    /\ todo # <<>>
    /\ Goto("gate", Tail(todo), Append(picked, Head(todo)))
    /\ UNCHANGED <<vars, queueVars>>

\* The gate: only scored requests are offered to the scheduler.
Gate ==
    /\ tick = "gate"
    /\ todo # <<>>
    /\ Goto("gate", Tail(todo),
            IF Unscored(Head(todo)) THEN picked
                                    ELSE Append(picked, Head(todo)))
    /\ UNCHANGED <<vars, queueVars>>

EndGate ==
    /\ tick = "gate"
    /\ todo = <<>>
    /\ Goto("schedule", picked, <<>>)
    /\ UNCHANGED <<vars, queueVars>>

\* Sorting and _general_schedule: some of the offered requests start to run.
Schedule ==
    /\ tick = "schedule"
    /\ \E S \in SUBSET ToSet(todo) :
          /\ waiting' \in Filtered(waiting, Req \ S)
          /\ running' = running \union S
    /\ Goto("idle", <<>>, <<>>)
    /\ UNCHANGED <<vars, arrived, started, warm>>

TickStep ==
    \/ WarmupTick \/ DualTick
    \/ ReadScore \/ ReadPending \/ EndFilter
    \/ RouteToCpu \/ SpawnReturns
    \/ RouteToGpu \/ Refilter \/ EndRefilter
    \/ GpuForward \/ GpuStore \/ GpuAssertFails
    \/ Gate \/ EndGate \/ Schedule

\* The steps of the predictor that are not the caller's own.
PredictorStep ==
    /\ Spawn \/ SpawnFails \/ WorkerNext
    /\ UNCHANGED schedVars

DualNext ==
    \/ \E r \in Req : AddSeqGroup(r) \/ AbortSeqGroup(r) \/ Finish(r)
    \/ WarmupEnds
    \/ TickStep
    \/ PredictorStep

DualSpec == DualInit /\ [][DualNext]_dualVars

\* The driver calls schedule() again while requests are unfinished
\* (LLM._run_engine), and the warm-up is a finite time.  The fairness of the
\* predictor's thread is StagesFairness in WarmupStages.
DualFairness ==
    /\ WF_dualVars(TickStep)
    /\ WF_dualVars(WarmupEnds)

----------------------------------------------------------------------------
(* Correctness *)

\* Whatever is offered to the sort has a score, so its key is defined, and so
\* does whatever runs: a request passes the gate before it is admitted and no
\* thread ever takes a score away.
SchedulableIsScored ==
    /\ tick = "schedule" => \A r \in ToSet(todo) : ~Unscored(r)
    /\ \A r \in running : ~Unscored(r)

\* What the in-flight filter achieves: a request the tick still has to route
\* or is computing on the GPU is neither queued at the CPU predictor nor in a
\* chunk the worker has not released yet.
NoDoubleDispatch ==
    tick \in {"route", "refilter", "gpu", "store"} =>
        (ToSet(todo) \union ToSet(picked)) \intersect inFlight = {}

\* Nothing falls between the two predictors: when a tick schedules, every
\* waiting request it does not offer is owed a score by the CPU predictor, or
\* has got one since the tick looked.
NothingForgotten ==
    tick = "schedule" /\ ~ForwardMayFail =>
        \A r \in ToSet(waiting) \ ToSet(todo) :
            Unscored(r) => r \in inFlight \union landing

\* AUXLLM's assertion: the request handed to the GPU is still unscored when
\* the GPU's score for it is stored.
AuxAssertHolds == tick # "dead"

\* Every request that waits is scored or leaves, unless the assertion above
\* has ended the engine: no request is gated for ever.
EventuallyScored ==
    \A r \in Req :
        (r \in ToSet(waiting)) ~>
            (~Unscored(r) \/ r \notin ToSet(waiting) \/ tick = "dead")
=============================================================================
