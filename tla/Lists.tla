-------------------------------- MODULE Lists --------------------------------
(***************************************************************************)
(* The lists the scheduler and the predictors pass around: sequences       *)
(* without repetition.  Python's list comprehensions over them are stated  *)
(* by what they return instead of by recursion, so that the modules built  *)
(* on them stay within reach of the proof system.                          *)
(***************************************************************************)
EXTENDS SequencesExt

\* [x for x in s if x in S]: the one list of the elements of s that are in S,
\* in the order of s.
Filtered(s, S) ==
    {f \in UNION {[1 .. n -> ToSet(s) \intersect S] : n \in 0 .. Len(s)} :
        /\ IsInjective(f)
        /\ ToSet(f) = ToSet(s) \intersect S
        /\ \A i, j \in DOMAIN f :
              i < j => \E k, l \in DOMAIN s :
                          k < l /\ s[k] = f[i] /\ s[l] = f[j]}

\* The non-empty lists a caller can draw from S.
Batches(S) ==
    {s \in UNION {[1 .. n -> S] : n \in 1 .. Cardinality(S)} : IsInjective(s)}
==============================================================================
