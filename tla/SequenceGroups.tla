--------------------------- MODULE SequenceGroups ---------------------------
(* Sequence groups over the block manager: vllm/sequence.py and the output    *)
(* processor, which forks and frees sequences.  All unfinished sequences of a *)
(* group have one length and one status, so both are kept per group.  The     *)
(* schedules, DefaultSchedule and GeneralSchedule, extend this module.        *)
EXTENDS BlockManagerV1

CONSTANTS
    Groups,      \* requests: an id that is free again is used by a new one
    Kinds,       \* sampling parameters: [bestOf |-> n, beam |-> BOOLEAN]
    BlockSize,   \* tokens of a block
    PromptLens,  \* lengths of the prompts that arrive
    MaxLen       \* max_model_len: a longer sequence is stopped

ASSUME GroupsAssumption ==
    /\ IsFiniteSet(Groups)
    /\ BlockSize \in Nat \ {0} /\ MaxLen \in Nat
    /\ PromptLens \subseteq 1 .. MaxLen
    /\ Kinds \subseteq [bestOf : Nat \ {0}, beam : BOOLEAN] /\ Kinds # {}

VARIABLES
    phase,   \* of a group: where the schedule has it
    tokens,  \* length of the unfinished sequences of a group
    live,    \* the unfinished sequences of a group
    ended,   \* number of finished sequences the group keeps as output
    kind     \* sampling parameters of a group

groupVars == <<phase, tokens, live, ended, kind>>

In(p) == {g \in Groups : phase[g] = p}
Fresh == Seqs \ UNION {live[g] : g \in Groups}
BlocksFor(n) == (n + BlockSize - 1) \div BlockSize
LogicalBlocks(g) == BlocksFor(tokens[g])
NumSeqs(g) == Cardinality(live[g]) + ended[g]
MaxRunningSeqs(g) ==
    IF kind[g].beam \/ kind[g].bestOf > NumSeqs(g)
    THEN kind[g].bestOf ELSE Cardinality(live[g])

AnyKind == CHOOSE k \in Kinds : TRUE

GroupsInit ==
    /\ phase = [g \in Groups |-> "idle"]
    /\ tokens = [g \in Groups |-> 0]
    /\ live = [g \in Groups |-> {}]
    /\ ended = [g \in Groups |-> 0]
    /\ kind = [g \in Groups |-> AnyKind]

-----------------------------------------------------------------------------
SetPhase(g, p) ==
    /\ phase' = [phase EXCEPT ![g] = p]
    /\ UNCHANGED <<tokens, live, ended, kind>>

Arrive(g) ==
    /\ phase[g] = "idle"
    /\ \E s \in Fresh, n \in PromptLens, k \in Kinds :
         /\ live' = [live EXCEPT ![g] = {s}]
         /\ tokens' = [tokens EXCEPT ![g] = n]
         /\ kind' = [kind EXCEPT ![g] = k]
    /\ phase' = [phase EXCEPT ![g] = "waiting"]
    /\ UNCHANGED <<blockVars, ended>>

Retire(g) ==
    /\ phase' = [phase EXCEPT ![g] = "idle"]
    /\ tokens' = [tokens EXCEPT ![g] = 0]
    /\ live' = [live EXCEPT ![g] = {}]
    /\ ended' = [ended EXCEPT ![g] = 0]
    /\ kind' = [kind EXCEPT ![g] = AnyKind]

(* abort_seq_group: the unfinished sequences are freed wherever they are.     *)
Leave(g) == Free(live[g]) /\ Retire(g)

\* Mutant of Sampled: nothing stops a sequence at max_model_len.
SampledForEver(g, first, children, stopped) ==
    LET extra == IF first THEN kind[g].bestOf - 1 ELSE 0
        running == Cardinality(children) + Cardinality(live[g] \ stopped)
    IN  /\ IF kind[g].beam THEN running <= kind[g].bestOf
                           ELSE Cardinality(children) <= extra
        /\ ended' = [ended EXCEPT ![g] =
              IF running = 0 THEN 0
              ELSE IF kind[g].beam THEN @
              ELSE @ + extra - Cardinality(children) + Cardinality(stopped)]

(* The output processor.  Without beam search a prompt is sampled bestOf      *)
(* times and every later step once per sequence; with it, any bestOf of the   *)
(* candidates of the running sequences go on.                                 *)
Sampled(g, first, children, stopped) ==
    LET extra == IF first THEN kind[g].bestOf - 1 ELSE 0
        running == Cardinality(children) + Cardinality(live[g] \ stopped)
    IN  /\ IF kind[g].beam THEN running <= kind[g].bestOf
                           ELSE Cardinality(children) <= extra
        /\ tokens[g] >= MaxLen => running = 0
        /\ ended' = [ended EXCEPT ![g] =
              IF running = 0 THEN 0
              ELSE IF kind[g].beam THEN @
              ELSE @ + extra - Cardinality(children) + Cardinality(stopped)]

(* Forks come before frees; a group without running sequences is finished and *)
(* free_finished_seq_groups drops it.  `first` says that a prompt is sampled. *)
SampleAndStop(g, first) ==
    \E children \in SUBSET Fresh, stopped \in SUBSET live[g] :
        /\ Sampled(g, first, children, stopped)
        /\ \E parentOf \in [children -> live[g]] : ForkAndFree(parentOf, stopped)
        /\ LET running == children \cup (live[g] \ stopped)
           IN  /\ live' = [live EXCEPT ![g] = running]
               /\ tokens' = [tokens EXCEPT ![g] = IF running = {} THEN 0 ELSE @ + 1]
               /\ phase' = [phase EXCEPT ![g] =
                     IF running = {} THEN "idle" ELSE "ready"]
               /\ kind' = [kind EXCEPT ![g] = IF running = {} THEN AnyKind ELSE @]

-----------------------------------------------------------------------------
(* The group state keeps its types. *)
GroupsTypeOK(phases) ==
    /\ phase \in [Groups -> phases]
    /\ tokens \in [Groups -> 0 .. MaxLen]
    /\ live \in [Groups -> SUBSET Seqs]
    /\ ended \in [Groups -> Nat]
    /\ kind \in [Groups -> Kinds]

(* Through forks, copies on write, preemptions and swaps of groups that share *)
(* blocks, a block's count is the number of sequences that hold it, and a     *)
(* block is in its free list exactly when nobody does: none leaks when        *)
(* sequences finish, are aborted or move, and none is handed out twice.       *)
RefCountsExact == \A b \in Blocks : ref[b] = Cardinality(Holders(b))
FreeListExact == \A b \in Blocks : (b \in free) <=> (Holders(b) = {})
PoolExact == RefCountsExact /\ FreeListExact
=============================================================================
