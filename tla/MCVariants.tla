----------------------------- MODULE MCVariants -----------------------------
(***************************************************************************)
(* Components that replace one another or never meet (the dual schedule,   *)
(* the other schedule types with a warm-up, the MLFQ baseline, starvation  *)
(* control) on small instances, side by side: the initial state says which *)
(* one runs, and the others stand still in one of their states.            *)
(***************************************************************************)
EXTENDS WarmupStages, MLFQ, StarvationControl

CONSTANT Variants

VARIABLES
    variant,
    dWaiting, dRunning, arrived, started, warm, dTick, dTodo, dPicked

\* The dual schedule, with scheduler state of its own, over the one predictor.
Dual == INSTANCE DualScheduler WITH
            waiting <- dWaiting, running <- dRunning, tick <- dTick,
            todo <- dTodo, picked <- dPicked

dualState ==
    <<dWaiting, dRunning, arrived, started, warm, dTick, dTodo, dPicked>>

AllVariants == {"dual", "stages", "mlfq", "starvation"}
OnlyMlfq == {"mlfq"}
AllKinds == {"warmup", "async-warmup", "async-merged"}

StagesStill == kind = "warmup" /\ clock = "off"
StarvationStill == ran = Rival

\* Every variant keeps the types of its state.
VariantsTypeOK == Dual!DualTypeOK /\ StagesTypeOK /\ MlfqTypeOK /\ StarvTypeOK

\* No schedule that ranks by scores withholds a request for ever: under the
\* dual one it is scored, under the others it is offered, or it leaves.
NobodyWithheld ==
    /\ variant = "dual" => Dual!EventuallyScored
    /\ EventuallyOffered

\* A dual schedule whose engine is dead does nothing.
DualStill ==
    /\ dWaiting = <<>> /\ dTodo = <<>> /\ dPicked = <<>>
    /\ dRunning = {} /\ arrived = {}
    /\ started = FALSE /\ warm = FALSE
    /\ dTick = "dead"

VariantsInit ==
    /\ variant \in Variants
    /\ IF variant = "dual" THEN Dual!DualInit ELSE DualStill
    /\ StagesInit /\ (variant # "stages" => StagesStill)
    /\ MlfqInit
    /\ IF variant = "starvation" THEN StarvInit
       ELSE /\ StarvationStill
            /\ idle = [r \in Rival |-> 0]
            /\ runs = [r \in Rival |-> 0]
            /\ pri = [r \in Rival |-> 0]

VariantsNext ==
    \/ /\ variant = "stages"
       /\ StagesNext
       /\ UNCHANGED <<variant, dualState, mlfqVars, starvVars>>
    \/ /\ variant = "dual"
       /\ Dual!DualNext
       /\ UNCHANGED <<variant, futureVars, stageVars, mlfqVars, starvVars>>
    \/ /\ variant = "mlfq"
       /\ MlfqNext
       /\ UNCHANGED <<variant, dualState, allVars, starvVars>>
    \/ /\ variant = "starvation"
       /\ StarvNext
       /\ UNCHANGED <<variant, dualState, allVars, mlfqVars>>

variantsVars == <<variant, dualState, allVars, mlfqVars, starvVars>>

\* The predictor is one module to both kinds of schedule: StagesFairness
\* speaks of its thread under either.
VariantsSpec ==
    /\ VariantsInit
    /\ [][VariantsNext]_variantsVars
    /\ Dual!DualFairness
    /\ StagesFairness
    /\ WF_starvVars(variant = "starvation" /\ StarvNext)
=============================================================================
