---------------------------- MODULE MCAsyncEngine ----------------------------
(* AsyncEngine on small instances. *)
EXTENDS AsyncEngine

CONSTANTS a, b

\* Every call has an id of its own, or the two share one.
UniqueIds == [x \in Call |-> x]
SharedIds == [x \in Call |-> a]
Distinct == {UniqueIds}
AnyIds == {UniqueIds, SharedIds}
==============================================================================
