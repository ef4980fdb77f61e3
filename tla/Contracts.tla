------------------------------ MODULE Contracts ------------------------------
(***************************************************************************)
(* The shared contracts of the orchestration package: the node lifecycle   *)
(* (contracts.py), what the failure classifier can tell the driver         *)
(* (recovery.py, FailureIntelligence) and the recovery budget that gates   *)
(* an operator's retry (recovery.py, RecoveryBudget).  No state.           *)
(*                                                                         *)
(* A failure is represented by its category.  Categories that every reader *)
(* of a failure treats alike share one name: route_failure stands for the  *)
(* sixteen REROUTE categories that cool the exact route, pool_failure for  *)
(* POOL_COOLDOWN_CATEGORIES, ownership_refused for every BLOCK category a  *)
(* worker terminal can be classified as.                                   *)
(***************************************************************************)
EXTENDS Naturals, Sequences, FiniteSets

NodeState ==
    {"PLANNED", "ADMITTED", "DISPATCHED", "RUNNING", "TERMINAL_SUCCESS",
     "TERMINAL_FAILURE", "VALIDATED", "REJECTED", "BLOCKED"}

\* contracts.py TRANSITIONS: the only moves check_transition lets pass.
TRANSITIONS ==
    [s \in NodeState |->
        CASE s = "PLANNED"          -> {"ADMITTED", "BLOCKED"}
          [] s = "ADMITTED"         -> {"DISPATCHED", "TERMINAL_FAILURE"}
          [] s = "DISPATCHED"       -> {"RUNNING", "TERMINAL_FAILURE"}
          [] s = "RUNNING"          -> {"TERMINAL_SUCCESS", "TERMINAL_FAILURE"}
          [] s = "TERMINAL_SUCCESS" -> {"VALIDATED", "REJECTED"}
          [] s = "TERMINAL_FAILURE" -> {"PLANNED", "BLOCKED"}
          [] s = "REJECTED"         -> {"PLANNED", "BLOCKED"}
          [] s = "VALIDATED"        -> {}
          [] s = "BLOCKED"          -> {}]

check_transition(current, target) == target \in TRANSITIONS[current]

\* The states from which a node can still be cancelled by the operator.
ActiveStates == {"PLANNED", "ADMITTED", "DISPATCHED", "RUNNING"}

-----------------------------------------------------------------------------
(* Failure categories. *)

\* What a worker's terminal can be classified as before validation.
TerminalCategories ==
    {"gateway_busy", "context_length", "worker_blocked", "route_failure",
     "pool_failure", "ownership_refused"}

\* What the validation barriers of a finished worker report.
BarrierCategories == {"verification_failed", "ownership_violation"}

\* What their report can be classified as: classify looks for a context limit, a busy gateway
\* and the words of transport faults in it, the tail of the verifier's output included,
\* before it looks at the prefix that names the barrier.
RejectedCategories ==
    BarrierCategories \cup {"gateway_busy", "context_length", "route_failure"}

\* What the runtime itself records without a worker's answer, or against it.
LocalCategories ==
    {"context_input_rejected", "dispatch_denied", "permit_denied",
     "permit_revoked_after_commit"}

Category == TerminalCategories \cup BarrierCategories \cup LocalCategories

\* The recovery action attached to a category.
ActionOf(c) ==
    CASE c = "gateway_busy"                            -> "RETRY_INFRA"
      [] c \in {"verification_failed", "worker_blocked"} -> "CORRECT_IMPLEMENTATION"
      [] c = "ownership_violation"                     -> "REHYDRATE"
      [] c \in {"ownership_refused", "dispatch_denied"}  -> "BLOCK"
      [] c = "context_input_rejected"                  -> "FAIL_CLOSED"
      [] OTHER                                         -> "REROUTE"

\* How much a failure may cool: one route, its credential pool and the route, or nothing.  A
\* quota or a denied permission is about the credential unless its text names one model.
Scopes(c) ==
    CASE c = "route_failure" -> {"route"}
      [] c = "pool_failure"  -> {"provider", "route"}
      [] OTHER               -> {"none"}

-----------------------------------------------------------------------------
(* RecoveryBudget.decide *)

VerificationFailures(history) ==
    Cardinality({i \in 1 .. Len(history) : history[i] = "verification_failed"})

\* "REASSIGN", "REPAIR" or "FAIL_CLOSED" for a node with these failures.
decide(history, attempts, maxAttempts, maxRepairs) ==
    LET last         == history[Len(history)]
        exhausted    == Len(history) >= maxAttempts \/ attempts >= maxAttempts
        blocker      == history # <<>> /\ ActionOf(last) = "BLOCK"
        verification == history # <<>> /\ last = "verification_failed"
        repairsSpent == verification /\ VerificationFailures(history) > maxRepairs
    IN  IF exhausted \/ blocker \/ repairsSpent THEN "FAIL_CLOSED"
        ELSE IF verification THEN "REPAIR" ELSE "REASSIGN"
=============================================================================
