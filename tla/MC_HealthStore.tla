--------------------------- MODULE MC_HealthStore ---------------------------
(***************************************************************************)
(* Instances of HealthStore for TLC.                                       *)
(***************************************************************************)
EXTENDS HealthStore, TLC

CONSTANTS d1, d2, a1, a2

\* Dispatchers and attempt ids are interchangeable, and only safety is checked.
Interchangeable == Permutations({d1, d2}) \cup Permutations({a1, a2})
=============================================================================
