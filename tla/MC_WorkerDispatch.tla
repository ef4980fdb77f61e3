-------------------------- MODULE MC_WorkerDispatch --------------------------
(***************************************************************************)
(* Instances of WorkerDispatch for TLC.                                    *)
(***************************************************************************)
EXTENDS WorkerDispatch

\* Three routes of two providers, the second with the widest window.
Pool == << [provider |-> 1, window |-> 1],
           [provider |-> 2, window |-> 2],
           [provider |-> 1, window |-> 1] >>
=============================================================================
