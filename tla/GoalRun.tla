------------------------------ MODULE GoalRun ------------------------------
(***************************************************************************)
(* What a run of a work graph promises to whoever started it, whatever     *)
(* routes, retries, cancellations and controller deaths it goes through:   *)
(*   - a node is validated only over validated dependencies, and a         *)
(*     validated node is never given up or redone;                         *)
(*   - a node given up (blocked) comes back only by a retry while the run  *)
(*     is open, or by a resume of the run;                                 *)
(*   - a run is published COMPLETE only when every node is validated, a    *)
(*     published outcome is final, and only a run that is not COMPLETE can *)
(*     be resumed.                                                         *)
(* DagRuntime is shown to implement this specification.                    *)
(***************************************************************************)
CONSTANTS Nodes, Deps

VARIABLES phase, outcome

goalVars == <<phase, outcome>>

Outcomes == {"COMPLETE", "BLOCKED", "CANCELLED"}

GoalInit ==
    /\ phase = [n \in Nodes |-> "open"]
    /\ outcome = "none"

Validate(n) ==
    /\ outcome = "none"
    /\ phase[n] = "open"
    /\ \A d \in Deps[n] : phase[d] = "validated"
    /\ phase' = [phase EXCEPT ![n] = "validated"]
    /\ UNCHANGED outcome

\* The open nodes in S are given up.
Block(S) ==
    phase' = [n \in Nodes |-> IF n \in S /\ phase[n] = "open" THEN "blocked" ELSE phase[n]]

GiveUp(S) ==
    /\ outcome = "none"
    /\ Block(S)
    /\ UNCHANGED outcome

Retry(n) ==
    /\ outcome = "none"
    /\ phase[n] = "blocked"
    /\ phase' = [phase EXCEPT ![n] = "open"]
    /\ UNCHANGED outcome

\* Publishing an outcome may give up the nodes still open.
Finish(o, S) ==
    /\ outcome = "none"
    /\ o = "COMPLETE" => S = {} /\ \A n \in Nodes : phase[n] = "validated"
    /\ Block(S)
    /\ outcome' = o

ResumeRun ==
    /\ outcome # "COMPLETE"
    /\ phase' = [n \in Nodes |-> IF phase[n] = "validated" THEN "validated" ELSE "open"]
    /\ outcome' = "none"

GoalNext ==
    \/ \E n \in Nodes : Validate(n) \/ Retry(n)
    \/ \E S \in SUBSET Nodes : GiveUp(S)
    \/ \E S \in SUBSET Nodes, o \in Outcomes : Finish(o, S)
    \/ ResumeRun

GoalSpec == GoalInit /\ [][GoalNext]_goalVars
=============================================================================
