--------------------------- MODULE MCDualSchedule ---------------------------
(***************************************************************************)
(* The two halves of a tick of the dual scheduler on small instances, side *)
(* by side: the scoring of the requests, and the general schedule of those *)
(* it offers.  The initial state says which half runs, and the other one   *)
(* stands still.  Blocks are numbered, the GPU's first.                    *)
(***************************************************************************)
EXTENDS DualScheduler, GeneralSchedule, TLC

CONSTANTS NumGpu, NumCpu, Halves

VARIABLE half

Gpu == 1 .. NumGpu
Cpu == 101 .. 100 + NumCpu

Greedy == [bestOf |-> 1, beam |-> FALSE]
Parallel == [bestOf |-> 2, beam |-> FALSE]

GreedyAndParallel == {Greedy, Parallel}

BothHalves == {"scoring", "scheduling"}
Scoring == {"scoring"}
Scheduling == {"scheduling"}

Symmetry == Permutations(Seqs) \cup Permutations(Groups)

TickInit == half \in Halves /\ DualInit /\ GeneralInit

TickNext ==
    \/ half = "scoring" /\ DualNext /\ UNCHANGED <<half, generalVars>>
    \/ half = "scheduling" /\ GeneralNext /\ UNCHANGED <<half, dualVars>>

tickSpecVars == <<half, dualVars, generalVars>>

TickSpec == TickInit /\ [][TickNext]_tickSpecVars

\* Between two ticks: a long prompt has had the three requests of `away` swapped
\* out after their first token, and was aborted.  Two prompts of one token wait;
\* one of them is sampled twice and is too wide for a batch with the other one.
RoomInit ==
    LET away == CHOOSE G \in SUBSET Groups : Cardinality(G) = 3
        wide == CHOOSE g \in Groups : g \notin away
        id == CHOOSE f \in Injection(Groups, Seqs) : TRUE
        page == CHOOSE f \in Injection(away, Cpu) : TRUE
    IN  /\ half = "scheduling" /\ DualInit
        /\ table = [s \in Seqs |-> IF \E g \in away : id[g] = s
                                   THEN <<page[CHOOSE g \in away : id[g] = s]>> ELSE <<>>]
        /\ ref = [b \in Blocks |-> IF b \in Range(page) THEN 1 ELSE 0]
        /\ free = Blocks \ Range(page)
        /\ kv = [b \in Blocks |-> IF b \in Range(page)
                     THEN <<CHOOSE g \in away : page[g] = b, 1>> ELSE Nobody]
        /\ phase = [g \in Groups |-> IF g \in away THEN "swapped" ELSE "waiting"]
        /\ tokens = [g \in Groups |-> IF g \in away THEN 2 ELSE 1]
        /\ left = [g \in Groups |-> IF g \in away THEN 0 ELSE 1]
        /\ live = [g \in Groups |-> {id[g]}]
        /\ ended = [g \in Groups |-> 0]
        /\ kind = [g \in Groups |-> IF g = wide THEN Parallel ELSE Greedy]
        /\ raised = "no" /\ stage = "between"
        /\ pinned = <<>> /\ rest = <<>>
        /\ take = [g \in Groups |-> 0]
        /\ budget = NoCharge /\ need = 0
        /\ uncharged = {} /\ pending = {}
        /\ swapOut = {} /\ swapIn = {} /\ copies = {}

\* The tick that follows, nobody being aborted before it.
RoomSpec ==
    /\ RoomInit
    /\ [][TickNext /\ (stage = "between" => stage' = "select")]_tickSpecVars
=============================================================================
