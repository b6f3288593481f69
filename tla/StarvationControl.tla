-------------------------- MODULE StarvationControl --------------------------
(***************************************************************************)
(* Starvation control, the suffix -starv<N>-period<M> of the ranked        *)
(* schedule types, vllm/core/scheduler.py: the counters idle, runs and pri *)
(* of each request, which the ordering function and the end of             *)
(* _general_schedule update.  Scores are left open: within a priority the  *)
(* order, and so who starves without this control, is arbitrary.           *)
(***************************************************************************)
EXTENDS Integers, FiniteSets

CONSTANTS
    Rival,     \* the requests, all offered on every tick
    Slots,     \* how many requests a tick can run
    Starv,     \* self.starv: ticks without a run before a promotion
    Period     \* self.period: how many runs a promotion is good for

ASSUME StarvationAssumption ==
    /\ IsFiniteSet(Rival)
    /\ Slots \in 1 .. Cardinality(Rival)
    /\ Starv \in Nat \ {0}
    /\ Period \in Nat \ {0}

VARIABLES
    idle,      \* ticks since the request last ran or was promoted
    runs,      \* runs left to a promoted request
    pri,       \* -1 for a promoted request, 0 for the others
    ran        \* running_this_step of the last tick

starvVars == <<idle, runs, pri, ran>>

\* The code bounds no counter; that idle cannot outgrow its threshold, and runs
\* not fall below zero, is a consequence of how they reset each other.
StarvTypeOK ==
    /\ idle \in [Rival -> 0 .. Starv]
    /\ runs \in [Rival -> 0 .. Period]
    /\ pri \in [Rival -> {-1, 0}]
    /\ ran \in SUBSET Rival

StarvInit ==
    /\ idle = [r \in Rival |-> 0]
    /\ runs = [r \in Rival |-> 0]
    /\ pri = [r \in Rival |-> 0]
    /\ ran = {}

\* Whom the ordering function promotes, and whom it demotes.
Starving(r) == idle[r] >= Starv

Expired(r) == ~Starving(r) /\ pri[r] = -1 /\ runs[r] <= 0

Promote ==
    [r \in Rival |-> IF Starving(r) THEN -1 ELSE IF Expired(r) THEN 0 ELSE pri[r]]

\* The end of _general_schedule: a request has run, or has been idle since it
\* ran or was promoted.
IdleAfter(r, S) ==
    IF r \in S THEN 0 ELSE IF Starving(r) THEN 1 ELSE idle[r] + 1

\* Mutant of RunsAfter: a promotion is not used up by runs.
RunsAfterFree(r, S) == IF Starving(r) THEN Period ELSE runs[r]

RunsAfter(r, S) ==
    LET paid == IF Starving(r) THEN Period ELSE runs[r]
    IN IF r \in S /\ pri'[r] = -1 THEN paid - 1 ELSE paid

\* A tick: promote and demote, sort by priority, run the first Slots.
RankedTick(S) ==
    /\ Cardinality(S) = Slots
    /\ pri' = Promote
    /\ \A r \in S, q \in Rival \ S : pri'[r] <= pri'[q]
    /\ ran' = S
    /\ runs' = [r \in Rival |-> RunsAfter(r, S)]
    /\ idle' = [r \in Rival |-> IdleAfter(r, S)]

StarvNext == \E S \in SUBSET Rival : RankedTick(S)

StarvSpec == StarvInit /\ [][StarvNext]_starvVars

\* The engine goes on ticking while requests are unfinished.
StarvFairness == WF_starvVars(StarvNext)

\* No request starves: whatever the scores, each runs again and again.  It is
\* true only if Starv is large against what the promotions of all the others
\* take; otherwise everybody is promoted all the time, and nobody is.
EventuallyRuns == \A r \in Rival : (r \notin ran) ~> (r \in ran)
=============================================================================
