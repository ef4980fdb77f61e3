------------------------- MODULE MC_StorySupervisor -------------------------
(***************************************************************************)
(* Instances of StorySupervisor.  A story may declare a file, src/x_a.py,  *)
(* or one of two globs, each with a file of its own.  The globs (files of  *)
(* src that end in _a.py, and that begin with x_) both match src/x_a.py;   *)
(* neither matches the text of the other.                                  *)
(***************************************************************************)
EXTENDS StorySupervisor, TLC

CONSTANTS xa, yb, zc, anyA, xAny

Declared == {{}, {xa}, {anyA, yb}, {xAny, zc}}

Files == {xa, yb, zc}

KindOf == [e \in Files \cup {anyA, xAny} |-> IF e \in Files THEN "file" ELSE "glob"]

Matched == [e \in Files \cup {anyA, xAny} |-> IF e \in Files THEN {} ELSE {xa}]

Written == [e \in Files \cup {anyA, xAny} |-> IF e \in Files THEN {e} ELSE {xa}]

\* The two globs may be swapped together with the files beside them.
Swapped == anyA :> xAny @@ xAny :> anyA @@ yb :> zc @@ zc :> yb

Interchangeable == Permutations(Supervisors) \cup Permutations(Stories) \cup {Swapped}
=============================================================================
