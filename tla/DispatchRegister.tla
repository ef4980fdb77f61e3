-------------------------- MODULE DispatchRegister --------------------------
(***************************************************************************)
(* What every dispatcher is promised of the shared dispatch records,       *)
(* whatever number of processes keeps copies of them: one atomic register. *)
(* A revocation raises the epoch of its scope by one, an attempt id is     *)
(* consumed once, against the epoch in force, and nothing else happens:    *)
(* no epoch falls, no consumed attempt is forgotten.                       *)
(***************************************************************************)
EXTENDS Naturals

CONSTANTS Routes, Attempts

VARIABLES epoch, consumed

RInit ==
    /\ epoch = [r \in Routes |-> 0]
    /\ consumed = {}

Revokes(r) ==
    /\ epoch' = [epoch EXCEPT ![r] = @ + 1]
    /\ UNCHANGED consumed

Consumes(a) ==
    /\ a \notin consumed
    /\ consumed' = consumed \cup {a}
    /\ UNCHANGED epoch

RNext ==
    \/ \E r \in Routes : Revokes(r)
    \/ \E a \in Attempts : Consumes(a)

RSpec == RInit /\ [][RNext]_<<epoch, consumed>>
=============================================================================
