------------------------------ MODULE MCParts ------------------------------
(***************************************************************************)
(* Parts of the system that the others reach by calls only, on small       *)
(* instances side by side: the streaming predictor, the block manager v1   *)
(* with prefix caching, and the block tables of the manager v2.  The       *)
(* initial state says which part runs, and the others stand still.         *)
(***************************************************************************)
EXTENDS StreamPredictor, PrefixCache, BlockManagerV2

CONSTANT Parts

VARIABLE part

\* The sequences of the prefix cache differ by what they are given only.
Symmetry == Permutations(Conv)

AllParts == {"stream", "prefix", "v2"}
OnlyPrefix == {"prefix"}

\* Prefix caching: a prompt of one page and a half and one of half a page; or
\* the latter only.
TwoOpenings == {<<1, 2, 1>>, <<2>>}
ShortOpening == {<<1>>}

\* v2
FirstBlocks == 1 .. 3
SmallPrompts == {<<1>>, <<1, 2>>, <<1, 2, 1>>}
LookaheadSlots == {0, 2}

PrefixStill ==
    /\ ~swaps
    /\ \A c \in Conv : words[c] = CHOOSE o \in Openings : TRUE
    /\ \A n \in GpuSizes : gpu.size <= n

\* Every part keeps the types of its state.
PartsTypeOK == TypeOK /\ PrefixTypeOK /\ V2TypeOK

PartsInit ==
    /\ part \in Parts
    /\ Init
    /\ PrefixInit /\ (part # "prefix" => PrefixStill)
    /\ V2Init /\ (part # "v2" => ~caching)

PartsNext ==
    \/ part = "stream" /\ Next /\ UNCHANGED <<part, prefixVars, v2Vars>>
    \/ part = "prefix" /\ PrefixNext /\ UNCHANGED <<part, vars, v2Vars>>
    \/ part = "v2" /\ V2Next /\ UNCHANGED <<part, vars, prefixVars>>

PartsSpec == PartsInit /\ [][PartsNext]_<<part, vars, prefixVars, v2Vars>>
=============================================================================
