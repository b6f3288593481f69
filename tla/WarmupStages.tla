---------------------------- MODULE WarmupStages ----------------------------
(***************************************************************************)
(* The schedule types with a first-come-first-served warm-up and a CPU     *)
(* predictor, vllm/core/scheduler.py: opt-cpu-warmup<T> (the one-batch     *)
(* API), opt-cpu-async-warmup<T> and opt-cpu-async-merged<T> (the          *)
(* streaming API).  Each is a function that says which requests the tick   *)
(* may schedule; the sort that follows is left open.                       *)
(*                                                                         *)
(* A request is of the warm-up era if its arrival_time, taken when the     *)
(* client called, lies before serve_start_time + T; it reaches the         *)
(* scheduler later, once it has been tokenized.                            *)
(***************************************************************************)
EXTENDS FuturePredictor

CONSTANTS
    Kinds,    \* the schedule types looked at
    Warmup,   \* T > 0
    Poison    \* requests on whose prompt the model always raises

ASSUME StagesAssumption ==
    /\ Kinds \subseteq {"warmup", "async-warmup", "async-merged"}
    /\ Warmup \in BOOLEAN
    /\ Poison \subseteq Req

VARIABLES
    kind,      \* schedule_type
    clock,     \* no serve_start_time, before warmup_end, or after it
    era,       \* what is_warmup_era will say of each request; "none" if unborn
    waiting,   \* Scheduler.waiting
    running,   \* Scheduler.running and Scheduler.swapped
    gone,      \* requests that finished or were aborted
    tick,      \* where the tick is
    todo,      \* what the current pass of the tick has not looked at yet
    picked     \* what the current pass has selected

stageVars == <<kind, clock, era, waiting, running, gone, tick, todo, picked>>
queueVars == <<kind, clock, era, waiting, running, gone>>
allVars == <<vars, futureVars, stageVars>>

Stages == {"idle", "submitFuture", "collect", "submit", "spawning", "build",
           "gate", "schedule", "dead"}

StagesTypeOK ==
    /\ TypeOK
    /\ FutureTypeOK
    /\ kind \in Kinds
    /\ clock \in {"off", "warm", "over"}
    /\ era \in [Req -> {"none", "warm", "post"}]
    /\ waiting \in Seq(Req)
    /\ running \in SUBSET Req
    /\ gone \in SUBSET Req
    /\ tick \in Stages
    /\ todo \in Seq(Req)
    /\ picked \in Seq(Req)

\* A scheduler with empty queues, at its start or later: requests that came
\* and went before those of the model may have started the clock.
StagesInit ==
    /\ Init
    /\ FutureInit
    /\ kind \in Kinds
    /\ clock \in IF Warmup THEN {"off", "warm", "over"} ELSE {"off"}
    /\ era = [r \in Req |-> "none"]
    /\ waiting = <<>>
    /\ running = {}
    /\ gone = {}
    /\ tick = "idle"
    /\ todo = <<>>
    /\ picked = <<>>

Unscored(r) == score[r] = "none"
WarmEra(r) == era[r] = "warm"
Queued == ToSet(waiting) \union running

----------------------------------------------------------------------------
(* Between ticks *)

\* A client calls: arrival_time is taken.
Call(r) ==
    /\ era[r] = "none"
    /\ era' = [era EXCEPT ![r] = IF clock = "over" THEN "post" ELSE "warm"]
    /\ UNCHANGED <<vars, futureVars, kind, clock, waiting, running, gone, tick,
                   todo, picked>>

\* add_seq_group: the first one starts the clock of a type that has a warm-up.
AddSeqGroup(r) ==
    /\ tick = "idle"
    /\ era[r] # "none"
    /\ r \notin Queued \union gone
    /\ waiting' = Append(waiting, r)
    /\ clock' = IF clock = "off" /\ Warmup THEN "warm" ELSE clock
    /\ UNCHANGED <<vars, futureVars, kind, era, running, gone, tick, todo,
                   picked>>

AbortSeqGroup(r) ==
    /\ tick = "idle"
    /\ r \in Queued
    /\ waiting' \in Filtered(waiting, Req \ {r})
    /\ running' = running \ {r}
    /\ gone' = gone \union {r}
    /\ UNCHANGED <<vars, futureVars, kind, clock, era, tick, todo, picked>>

\* free_finished_seq_groups
Finish(r) ==
    /\ tick = "idle"
    /\ r \in running
    /\ running' = running \ {r}
    /\ gone' = gone \union {r}
    /\ UNCHANGED <<vars, futureVars, kind, clock, era, waiting, tick, todo,
                   picked>>

WarmupEnds ==
    /\ clock = "warm"
    /\ clock' = "over"
    /\ UNCHANGED <<vars, futureVars, kind, era, waiting, running, gone, tick,
                   todo, picked>>

----------------------------------------------------------------------------
(* The tick *)

Goto(t, rest, sel) == tick' = t /\ todo' = rest /\ picked' = sel

\* Stage 1, for all three: everything is offered, in order of arrival.
WarmTick ==
    /\ tick = "idle"
    /\ Queued # {}
    /\ clock = "warm"
    /\ Goto("schedule", waiting, <<>>)
    /\ UNCHANGED <<vars, futureVars, queueVars>>

\* _get_opt_cpu_ordered_requests polls first ...
PollTick ==
    /\ tick = "idle"
    /\ Queued # {}
    /\ clock # "warm"
    /\ kind = "warmup"
    /\ PollResults
    /\ Goto("submitFuture", <<>>, <<>>)
    /\ UNCHANGED queueVars

\* ... submits whatever waits unscored unless the predictor is busy, and
\* offers everything; an unscored request sorts as if its score were 0.
SubmitFuture ==
    /\ tick = "submitFuture"
    /\ SubmitAsync({r \in ToSet(waiting) : Unscored(r)})
    /\ Goto("schedule", waiting, <<>>)
    /\ UNCHANGED queueVars

\* The streaming types without a clock: merged returns nothing, async-warmup
\* adds None to a number.
ClocklessTick ==
    /\ tick = "idle"
    /\ Queued # {}
    /\ clock = "off"
    /\ kind # "warmup"
    /\ Goto(IF kind = "async-merged" THEN "schedule" ELSE "dead", <<>>, <<>>)
    /\ UNCHANGED <<vars, futureVars, queueVars>>

StreamTick ==
    /\ tick = "idle"
    /\ Queued # {}
    /\ clock = "over"
    /\ kind # "warmup"
    /\ Goto("collect", waiting, <<>>)
    /\ UNCHANGED <<vars, futureVars, queueVars>>

\* Both streaming types submit what waits unscored and is not of the warm-up
\* era, however often it has been submitted before.
Collect ==
    /\ tick = "collect"
    /\ todo # <<>>
    /\ Goto("collect", Tail(todo),
            IF ~WarmEra(Head(todo)) /\ Unscored(Head(todo))
            THEN Append(picked, Head(todo)) ELSE picked)
    /\ UNCHANGED <<vars, futureVars, queueVars>>

EndCollect ==
    /\ tick = "collect"
    /\ todo = <<>>
    /\ Goto(IF picked # <<>> THEN "submit" ELSE "build", picked, <<>>)
    /\ UNCHANGED <<vars, futureVars, queueVars>>

Submit ==
    /\ tick = "submit"
    /\ Enqueue(todo)
    /\ Goto("spawning", <<>>, <<>>)
    /\ UNCHANGED <<futureVars, queueVars>>

SpawnReturns ==
    /\ tick = "spawning"
    /\ caller = "idle"
    /\ Goto("build", <<>>, <<>>)
    /\ UNCHANGED <<vars, futureVars, queueVars>>

WarmEraRemaining == \E r \in Queued : WarmEra(r)

\* Mutant of Drain: what has a score is offered as well.
DrainScored ==
    /\ tick = "build"
    /\ kind = "async-warmup"
    /\ WarmEraRemaining
    /\ \E offer \in Filtered(waiting, {r \in Req : WarmEra(r) \/ ~Unscored(r)}) :
          Goto("schedule", offer, <<>>)
    /\ UNCHANGED <<vars, futureVars, queueVars>>

\* Stage 2 of async-warmup, the drain: of the waiting requests only those of
\* the warm-up era are offered, scored or not.
Drain ==
    /\ tick = "build"
    /\ kind = "async-warmup"
    /\ WarmEraRemaining
    /\ \E offer \in Filtered(waiting, {r \in Req : WarmEra(r)}) :
          Goto("schedule", offer, <<>>)
    /\ UNCHANGED <<vars, futureVars, queueVars>>

\* Stage 3 of async-warmup, and all of stage 2 of async-merged.
Ranked ==
    /\ tick = "build"
    /\ kind = "async-warmup" => ~WarmEraRemaining
    /\ Goto("gate", waiting, <<>>)
    /\ UNCHANGED <<vars, futureVars, queueVars>>

\* Mutant of Gate: an unscored request passes.
GateOpen ==
    /\ tick = "gate"
    /\ todo # <<>>
    /\ Goto("gate", Tail(todo), Append(picked, Head(todo)))
    /\ UNCHANGED <<vars, futureVars, queueVars>>

\* The gate: scored requests pass, and in async-merged those of the warm-up.
Gate ==
    /\ tick = "gate"
    /\ todo # <<>>
    /\ Goto("gate", Tail(todo),
            IF WarmEra(Head(todo)) \/ ~Unscored(Head(todo))
            THEN Append(picked, Head(todo)) ELSE picked)
    /\ UNCHANGED <<vars, futureVars, queueVars>>

\* The assertion on everything that will be sorted, what runs included.
EndGate ==
    /\ tick = "gate"
    /\ todo = <<>>
    /\ LET ok(r) == ~Unscored(r) \/ (kind = "async-merged" /\ WarmEra(r))
       IN IF \A r \in ToSet(picked) \union running : ok(r)
          THEN Goto("schedule", picked, <<>>)
          ELSE Goto("dead", <<>>, <<>>)
    /\ UNCHANGED <<vars, futureVars, queueVars>>

\* _general_schedule: some of the offered requests start, and some of those
\* that ran are preempted by recomputation, back to the front of the queue.
\* A request withheld by the tick is not touched.
Schedule ==
    /\ tick = "schedule"
    /\ \E S \in SUBSET ToSet(todo), P \in SUBSET running :
          \E back \in SetToSeqs(P), rest \in Filtered(waiting, Req \ S) :
             /\ waiting' = back \o rest
             /\ running' = (running \ P) \union S
    /\ Goto("idle", <<>>, <<>>)
    /\ UNCHANGED <<vars, futureVars, kind, clock, era, gone>>

TickStep ==
    \/ WarmTick \/ PollTick \/ SubmitFuture \/ ClocklessTick \/ StreamTick
    \/ Collect \/ EndCollect \/ Submit \/ SpawnReturns
    \/ Drain \/ Ranked \/ Gate \/ EndGate \/ Schedule

----------------------------------------------------------------------------
(* The executor's thread, with prompts that make the model raise *)

StreamThread ==
    /\ \/ Spawn \/ StartLoop \/ Exit \/ Pull \/ ForwardFails \/ Release \/ Land
       \/ Forward /\ ToSet(chunk) \intersect Poison = {}
    /\ UNCHANGED futureVars

FutureThread ==
    \/ BatchScored /\ pending \intersect Poison = {}
    \/ BatchFails

PredictorStep ==
    /\ StreamThread \/ FutureThread
    /\ UNCHANGED stageVars

StagesNext ==
    \/ \E r \in Req : Call(r) \/ AddSeqGroup(r) \/ AbortSeqGroup(r) \/ Finish(r)
    \/ WarmupEnds
    \/ TickStep
    \/ PredictorStep

StagesSpec == StagesInit /\ [][StagesNext]_allVars

\* The driver calls schedule() as long as requests are unfinished, the warm-up
\* is a finite time and the executor's thread goes on.  About the environment
\* it is assumed that a request without a poisonous prompt does not find itself
\* in failing chunks for ever, that one which is offered for ever is started,
\* and that one which is started again and again finishes.
StagesFairness ==
    /\ WF_allVars(TickStep)
    /\ WF_allVars(WarmupEnds)
    /\ WF_allVars(PredictorStep)
    /\ \A r \in Req :
          /\ WF_allVars(AddSeqGroup(r))
          /\ SF_allVars(Forward /\ r \in ToSet(chunk)
                        /\ ToSet(chunk) \intersect Poison = {}
                        /\ UNCHANGED <<futureVars, stageVars>>)
          /\ SF_allVars(Schedule /\ r \in running' /\ r \notin running)
          /\ SF_allVars(Finish(r))

StagesFairSpec == StagesSpec /\ StagesFairness

----------------------------------------------------------------------------
(* Correctness *)

\* The fail-fast assertion of stage 3 never fires, although requests of the
\* warm-up era, which have no score, can still reach the scheduler after
\* others have been ranked, and although scores land while the tick reads.
StageAssertHolds == Warmup => tick # "dead"

\* Condition C2 of async-warmup: no request from after the warm-up starts
\* while one of the warm-up era is in any queue of the scheduler.
DrainBeforeRanked ==
    [][kind = "async-warmup" =>
          \A r \in running' \ running :
             ~WarmEra(r) => \A w \in Queued : ~WarmEra(w)]_allVars

\* No request is withheld for ever: what waits is offered, or leaves.
EventuallyOffered ==
    \A r \in Req \ Poison :
        (r \in ToSet(waiting)) ~>
            (r \notin ToSet(waiting) \/ (tick = "schedule" /\ r \in ToSet(todo)))
=============================================================================
