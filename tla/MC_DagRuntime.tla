---------------------------- MODULE MC_DagRuntime ----------------------------
(***************************************************************************)
(* Instances of DagRuntime for TLC.                                        *)
(***************************************************************************)
EXTENDS DagRuntime, TLC

CONSTANTS n1, n2, n3, r1, r2, r3, p1, p2

\* One node, two independent nodes, a chain.
Solo     == n1 :> {}
Parallel == n1 :> {} @@ n2 :> {}
Chain3   == n1 :> {} @@ n2 :> {n1} @@ n3 :> {n2}

\* One pool per route, and two routes that share a pool.
OnePool    == r1 :> p1
OwnPools   == r1 :> p1 @@ r2 :> p2
SharedPool == r1 :> p1 @@ r2 :> p1 @@ r3 :> p2
=============================================================================
