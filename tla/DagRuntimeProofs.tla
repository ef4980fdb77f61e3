-------------------------- MODULE DagRuntimeProofs --------------------------
(***************************************************************************)
(* Proofs about DagRuntime, for every finite acyclic graph, every set of   *)
(* routes and every bound: TypeOK, SendBudget, DependencyBarrier,          *)
(* SettledAtConclusion and DispatchNumbersIncrease.                        *)
(*                                                                         *)
(* They all follow from one inductive invariant, IInv.  There is a lemma   *)
(* per action, and in it a step per conjunct of IInv.                      *)
(***************************************************************************)
EXTENDS DagRuntime, TLAPS

-----------------------------------------------------------------------------
(* The inductive invariant. *)

\* What _drive has in its local variables at an await: a driver past selection
\* has chosen a route, and one past binding has made it the node's route.
Locals ==
    \A n \in Nodes :
        /\ drv[n] \in {"bind", "proof"} => choice[n] \in Routes
        /\ drv[n] \in {"slot", "base", "permit", "running", "epoch", "validate", "failing"}
              => route[n] \in Routes

\* Sends are covered by dispatches in the event log, the log by the attempts of the
\* node, and a driver that may still dispatch has an attempt number above the log
\* and within the policy.
Budget ==
    \A n \in Nodes :
        /\ sends[n] <= logAttempt[n]
        /\ drv[n] = "permit" => sends[n] < logAttempt[n]
        /\ logAttempt[n] <= MaxAttempts
        /\ n \notin logValidated => logAttempt[n] <= attempt[n]
        /\ n \in logValidated => drv[n] \in {"none", "done"} /\ state[n] = "VALIDATED"
        /\ drv[n] \in {"slot", "base"} => logAttempt[n] < attempt[n] /\ attempt[n] <= MaxAttempts
        /\ drv[n] \in {"select", "cooldown", "bind", "proof"} => attempt[n] < MaxAttempts

\* A node is VALIDATED exactly when the log says so, and every node that is, or that
\* has a driver, has its dependencies in the log.
Validation ==
    \A n \in Nodes :
        /\ state[n] = "VALIDATED" <=> n \in logValidated
        /\ n \in logValidated \/ drv[n] # "none" => Deps[n] \subseteq logValidated

\* What the controller can find when it polls: a node without a driver is not in the
\* middle of an attempt, a driver that ended without an exception left its node
\* settled, and one that is being cancelled belongs to a blocked node.  When the
\* controller concludes, nothing is left open.
Settlement ==
    /\ \A n \in Nodes : drv[n] = "cleanup" => state[n] = "BLOCKED"
    /\ ctl \in {"poll", "wait"} =>
          \A n \in Nodes :
              /\ drv[n] = "none" => state[n] \in {"PLANNED", "VALIDATED", "BLOCKED"}
              /\ drv[n] = "done" /\ ~crashed[n] => state[n] \in {"VALIDATED", "BLOCKED"}
              /\ cancelling[n] => state[n] = "BLOCKED" /\ drv[n] # "none"
    /\ ctl \in {"conclude", "review"} =>
          \A n \in Nodes : state[n] \in {"VALIDATED", "BLOCKED"}

\* The inductive invariant.
IInv == TypeOK /\ Locals /\ Budget /\ Validation /\ Settlement

-----------------------------------------------------------------------------
(* Facts about the operators of the model. *)

\* Reading a control request (ControlReader.pending) advances the offset.
LEMMA ReadTypes ==
    ASSUME ControllerTypes, NEW kind, Read(kind)
    PROVE  offset' \in Nat
BY DEF Read, ControllerTypes

\* The request ControlReader.pending hands out is one an operator wrote; a request
\* about a node names one of the graph.
LEMMA ReadRequest ==
    ASSUME DurableTypes, ControllerTypes, NEW kind, Read(kind)
    PROVE  /\ controls[offset + 1] \in Requests
           /\ kind \in {"cancel_node", "retry_node"} => controls[offset + 1].node \in Nodes
<1>1. controls[offset + 1] \in Requests
  BY DEF Read, DurableTypes, ControllerTypes
<1> QED
  BY <1>1 DEF Requests, Read

\* _propagate_blocks is closed: a PLANNED node with a dependency that is BLOCKED, or
\* about to be, is about to be BLOCKED.
LEMMA BlockedDependents ==
    ASSUME NEW m \in Planned, NEW d \in Deps[m],
           state[d] = "BLOCKED" \/ d \in DependencyBlocked
    PROVE  m \in DependencyBlocked
<1>1. SUFFICES ASSUME NEW S \in SUBSET Planned,
                      \A k \in Planned :
                         (\E e \in Deps[k] : state[e] = "BLOCKED" \/ e \in S) => k \in S
               PROVE  m \in S
  BY DEF DependencyBlocked
<1>2. state[d] = "BLOCKED" \/ d \in S
  BY <1>1 DEF DependencyBlocked
<1> QED
  BY <1>1, <1>2

\* _propagate_blocks and _ready leave nothing behind: with no task and no ready node,
\* every PLANNED node is blocked by a dependency.  This is where the graph must be
\* acyclic: of the nodes left over, one would have no dependency among them.
LEMMA NothingLeft ==
    ASSUME \A n \in Nodes : state[n] \in {"PLANNED", "VALIDATED", "BLOCKED"},
           Pending = {}, Ready = {}
    PROVE  Planned \subseteq DependencyBlocked
<1> DEFINE Stuck == Planned \ DependencyBlocked
<1>1. SUFFICES ASSUME Stuck # {} PROVE FALSE
  OBVIOUS
<1>2. PICK n \in Stuck : Deps[n] \cap Stuck = {}
  <2>1. Stuck \in (SUBSET Nodes) \ {{}}
    BY <1>1 DEF Planned
  <2> QED
    BY <2>1, GraphAssumption
<1>3. \A d \in Deps[n] : d \in Nodes /\ state[d] # "BLOCKED" /\ d \notin DependencyBlocked
  BY <1>2, BlockedDependents, GraphAssumption DEF Planned
<1>4. \A d \in Deps[n] : state[d] = "VALIDATED"
  BY <1>2, <1>3 DEF Planned
<1>5. n \in Ready
  BY <1>2, <1>4 DEF Ready, Planned
<1> QED
  BY <1>5

-----------------------------------------------------------------------------
(* The driver. *)

\* The selector thread answers with a route: only the local choice changes.
LEMMA SelectStep ==
    ASSUME IInv, NEW n \in Nodes, Select(n)
    PROVE  IInv'
<1>a. NodeTypes /\ DriverTypes /\ ControllerTypes /\ DurableTypes /\ HistoryTypes /\
      Locals /\ Budget /\ Validation /\ Settlement
  BY DEF IInv, TypeOK
<1>b. /\ drv[n] = "select"
      /\ ~cancelling[n]
      /\ ctl \in {"wait", "gather", "drain"}
      /\ UNCHANGED <<nodeVars, previous, waited, revocations, cancelling, crashed, ctlVars,
                     inflight, cooling, logVars, envVars, workVars>>
  BY DEF Select, Steps
<1>c. PICK r \in Usable(n) : choice' = [choice EXCEPT ![n] = r]
  BY DEF Select
<1>d. r \in Routes /\ drv' = [drv EXCEPT ![n] = "bind"]
  BY DEF Usable, Select
<1>1. DriverTypes'
  BY <1>a, <1>b, <1>c, <1>d DEF DriverTypes, DriverPc, DriverAwait
<1>2. NodeTypes' /\ ControllerTypes' /\ DurableTypes' /\ HistoryTypes'
  BY <1>a, <1>b, <1>c, <1>d
     DEF NodeTypes, ControllerTypes, DurableTypes, HistoryTypes, nodeVars, ctlVars,
         logVars, envVars, workVars
<1>3. Locals'
  BY <1>a, <1>b, <1>c, <1>d DEF Locals, DriverTypes, nodeVars
<1>4. Budget'
  BY <1>a, <1>b, <1>c, <1>d DEF Budget, nodeVars, logVars, workVars
<1>5. Validation'
  BY <1>a, <1>b, <1>c, <1>d DEF Validation, nodeVars, logVars
<1>6. Settlement'
  BY <1>a, <1>b, <1>c, <1>d DEF Settlement, nodeVars, ctlVars
<1> QED
  BY <1>1, <1>2, <1>3, <1>4, <1>5, <1>6 DEF IInv, TypeOK

\* The selector finds only cooling routes: the driver waits, nothing else changes.
LEMMA SelectWaitsStep ==
    ASSUME IInv, NEW n \in Nodes, SelectWaits(n)
    PROVE  IInv'
<1>a. NodeTypes /\ DriverTypes /\ ControllerTypes /\ DurableTypes /\ HistoryTypes /\
      Locals /\ Budget /\ Validation /\ Settlement
  BY DEF IInv, TypeOK
<1>1. DriverTypes'
  BY <1>a DEF DriverTypes, DriverPc, DriverAwait, SelectWaits, Steps
<1>2. NodeTypes' /\ ControllerTypes' /\ DurableTypes' /\ HistoryTypes'
  BY <1>a
     DEF NodeTypes, ControllerTypes, DurableTypes, HistoryTypes, SelectWaits, Steps,
         nodeVars, ctlVars, logVars, envVars, workVars
<1>3. Locals'
  BY <1>a DEF Locals, SelectWaits, Steps, nodeVars
<1>4. Budget'
  BY <1>a DEF Budget, SelectWaits, Steps, nodeVars, logVars, workVars
<1>5. Validation'
  BY <1>a DEF Validation, SelectWaits, Steps, nodeVars, logVars
<1>6. Settlement'
  BY <1>a DEF Settlement, SelectWaits, Steps, nodeVars, ctlVars
<1> QED
  BY <1>1, <1>2, <1>3, <1>4, <1>5, <1>6 DEF IInv, TypeOK

\* The wait for a cooling route ends: back to selection.
LEMMA CooldownOverStep ==
    ASSUME IInv, NEW n \in Nodes, CooldownOver(n)
    PROVE  IInv'
<1>a. NodeTypes /\ DriverTypes /\ ControllerTypes /\ DurableTypes /\ HistoryTypes /\
      Locals /\ Budget /\ Validation /\ Settlement
  BY DEF IInv, TypeOK
<1>1. DriverTypes'
  BY <1>a DEF DriverTypes, DriverPc, DriverAwait, CooldownOver, Steps
<1>2. NodeTypes' /\ ControllerTypes' /\ DurableTypes' /\ HistoryTypes'
  BY <1>a
     DEF NodeTypes, ControllerTypes, DurableTypes, HistoryTypes, CooldownOver, Steps,
         nodeVars, ctlVars, logVars, envVars, workVars
<1>3. Locals'
  BY <1>a DEF Locals, CooldownOver, Steps, nodeVars
<1>4. Budget'
  BY <1>a DEF Budget, CooldownOver, Steps, nodeVars, logVars, workVars
<1>5. Validation'
  BY <1>a DEF Validation, CooldownOver, Steps, nodeVars, logVars
<1>6. Settlement'
  BY <1>a DEF Settlement, CooldownOver, Steps, nodeVars, ctlVars
<1> QED
  BY <1>1, <1>2, <1>3, <1>4, <1>5, <1>6 DEF IInv, TypeOK

\* Nothing is eligible: the node is BLOCKED and its driver ends, which settles it.
LEMMA SelectNoneStep ==
    ASSUME IInv, NEW n \in Nodes, SelectNone(n)
    PROVE  IInv'
<1>a. NodeTypes /\ DriverTypes /\ ControllerTypes /\ DurableTypes /\ HistoryTypes /\
      Locals /\ Budget /\ Validation /\ Settlement
  BY DEF IInv, TypeOK
<1>1. NodeTypes'
  BY <1>a DEF NodeTypes, NodeState, SelectNone, Steps
<1>2. DriverTypes'
  BY <1>a DEF DriverTypes, DriverPc, SelectNone, Steps
<1>3. ControllerTypes' /\ DurableTypes' /\ HistoryTypes'
  BY <1>a
     DEF ControllerTypes, DurableTypes, HistoryTypes, SelectNone, Steps, ctlVars, logVars,
         envVars, workVars
<1>4. Locals'
  BY <1>a DEF Locals, SelectNone, Steps
<1>5. Budget'
  BY <1>a DEF Budget, SelectNone, Steps, logVars, workVars
<1>6. Validation'
  BY <1>a DEF Validation, Budget, SelectNone, Steps, logVars
<1>7. Settlement'
  BY <1>a DEF Settlement, NodeTypes, SelectNone, Steps, ctlVars
<1> QED
  BY <1>1, <1>2, <1>3, <1>4, <1>5, <1>6, <1>7 DEF IInv, TypeOK

\* Back from selection: the route is withdrawn, bound or sent to the proof.  Binding
\* counts an attempt, which is then above the log and within the policy.
LEMMA BindStep ==
    ASSUME IInv, NEW n \in Nodes, Bind(n)
    PROVE  IInv'
<1>a. NodeTypes /\ DriverTypes /\ ControllerTypes /\ DurableTypes /\ HistoryTypes /\
      Locals /\ Budget /\ Validation /\ Settlement
  BY DEF IInv, TypeOK
<1>b. /\ drv[n] = "bind"
      /\ ~cancelling[n]
      /\ ctl \in {"wait", "gather", "drain"}
      /\ UNCHANGED <<failures, poolsOut, repacked, rehydrated, shrinks, hist, cancelled,
                     choice, waited, cancelling, crashed, ctlVars, cooling, logVars,
                     envVars, workVars>>
  BY DEF Bind, Steps
<1>1. ASSUME RevokeSelection(n, choice[n]), UNCHANGED <<attempt, previous, route, inflight>>
     PROVE  IInv'
  <2>1. NodeTypes'
    BY <1>a, <1>b, <1>1 DEF NodeTypes, Locals, NodeState, RevokeSelection
  <2>2. DriverTypes'
    BY <1>a, <1>b, <1>1 DEF DriverTypes, DriverPc, DriverAwait, RevokeSelection
  <2>3. ControllerTypes' /\ DurableTypes' /\ HistoryTypes'
    BY <1>a, <1>b, <1>1
       DEF ControllerTypes, DurableTypes, HistoryTypes, RevokeSelection, ctlVars, logVars,
           envVars, workVars
  <2>4. Locals'
    BY <1>a, <1>b, <1>1 DEF Locals, RevokeSelection
  <2>5. Budget'
    BY <1>a, <1>b, <1>1 DEF Budget, RevokeSelection, logVars, workVars
  <2>6. Validation'
    BY <1>a, <1>b, <1>1 DEF Validation, Budget, RevokeSelection, logVars
  <2>7. Settlement'
    BY <1>a, <1>b, <1>1 DEF Settlement, NodeTypes, RevokeSelection, ctlVars
  <2> QED
    BY <2>1, <2>2, <2>3, <2>4, <2>5, <2>6, <2>7 DEF IInv, TypeOK
<1>2. ASSUME BindRoute(n)
     PROVE  IInv'
  <2>1. NodeTypes'
    BY <1>a, <1>b, <1>2 DEF NodeTypes, DriverTypes, BindRoute
  <2>2. DriverTypes'
    BY <1>a, <1>b, <1>2 DEF DriverTypes, NodeTypes, DriverPc, DriverAwait, BindRoute
  <2>3. ControllerTypes'
    BY <1>a, <1>b, <1>2 DEF ControllerTypes, DriverTypes, BindRoute, ctlVars
  <2>4. DurableTypes' /\ HistoryTypes'
    BY <1>a, <1>b, <1>2
       DEF DurableTypes, HistoryTypes, BindRoute, logVars, envVars, workVars
  <2>5. Locals'
    BY <1>a, <1>b, <1>2 DEF Locals, NodeTypes, BindRoute
  <2>6. Budget'
    BY <1>a, <1>b, <1>2, BoundAssumption
       DEF Budget, NodeTypes, DriverTypes, DurableTypes, BindRoute, logVars, workVars
  <2>7. Validation'
    BY <1>a, <1>b, <1>2 DEF Validation, BindRoute, logVars
  <2>8. Settlement'
    BY <1>a, <1>b, <1>2 DEF Settlement, BindRoute, ctlVars
  <2> QED
    BY <2>1, <2>2, <2>3, <2>4, <2>5, <2>6, <2>7, <2>8 DEF IInv, TypeOK
<1>3. ASSUME drv' = [drv EXCEPT ![n] = "proof"],
             UNCHANGED <<state, tried, revocations, attempt, previous, route, inflight>>
      PROVE  IInv'
  <2>1. DriverTypes'
    BY <1>a, <1>b, <1>3 DEF DriverTypes, DriverPc, DriverAwait
  <2>2. NodeTypes' /\ ControllerTypes' /\ DurableTypes' /\ HistoryTypes'
    BY <1>a, <1>b, <1>3
       DEF NodeTypes, ControllerTypes, DurableTypes, HistoryTypes, ctlVars, logVars,
           envVars, workVars
  <2>3. Locals'
    BY <1>a, <1>b, <1>3 DEF Locals
  <2>4. Budget'
    BY <1>a, <1>b, <1>3 DEF Budget, logVars, workVars
  <2>5. Validation'
    BY <1>a, <1>b, <1>3 DEF Validation, logVars
  <2>6. Settlement'
    BY <1>a, <1>b, <1>3 DEF Settlement, ctlVars
  <2> QED
    BY <2>1, <2>2, <2>3, <2>4, <2>5, <2>6 DEF IInv, TypeOK
<1> QED
  BY <1>1, <1>2, <1>3 DEF Bind

\* The proof is fresh, and the route bound, or it is not, and the route withdrawn.
LEMMA ProofStep ==
    ASSUME IInv, NEW n \in Nodes, Proof(n)
    PROVE  IInv'
<1>a. NodeTypes /\ DriverTypes /\ ControllerTypes /\ DurableTypes /\ HistoryTypes /\
      Locals /\ Budget /\ Validation /\ Settlement
  BY DEF IInv, TypeOK
<1>b. /\ drv[n] = "proof"
      /\ ~cancelling[n]
      /\ ctl \in {"wait", "gather", "drain"}
      /\ UNCHANGED <<failures, poolsOut, repacked, rehydrated, shrinks, hist, cancelled,
                     choice, waited, cancelling, crashed, ctlVars, cooling, logVars,
                     envVars, workVars>>
  BY DEF Proof, Steps
<1>1. ASSUME BindRoute(n)
     PROVE  IInv'
  <2>1. NodeTypes'
    BY <1>a, <1>b, <1>1 DEF NodeTypes, DriverTypes, BindRoute
  <2>2. DriverTypes'
    BY <1>a, <1>b, <1>1 DEF DriverTypes, NodeTypes, DriverPc, DriverAwait, BindRoute
  <2>3. ControllerTypes'
    BY <1>a, <1>b, <1>1 DEF ControllerTypes, DriverTypes, BindRoute, ctlVars
  <2>4. DurableTypes' /\ HistoryTypes'
    BY <1>a, <1>b, <1>1
       DEF DurableTypes, HistoryTypes, BindRoute, logVars, envVars, workVars
  <2>5. Locals'
    BY <1>a, <1>b, <1>1 DEF Locals, NodeTypes, BindRoute
  <2>6. Budget'
    BY <1>a, <1>b, <1>1, BoundAssumption
       DEF Budget, NodeTypes, DriverTypes, DurableTypes, BindRoute, logVars, workVars
  <2>7. Validation'
    BY <1>a, <1>b, <1>1 DEF Validation, BindRoute, logVars
  <2>8. Settlement'
    BY <1>a, <1>b, <1>1 DEF Settlement, BindRoute, ctlVars
  <2> QED
    BY <2>1, <2>2, <2>3, <2>4, <2>5, <2>6, <2>7, <2>8 DEF IInv, TypeOK
<1>2. ASSUME RevokeSelection(n, choice[n]), UNCHANGED <<attempt, previous, route, inflight>>
     PROVE  IInv'
  <2>1. NodeTypes'
    BY <1>a, <1>b, <1>2 DEF NodeTypes, Locals, NodeState, RevokeSelection
  <2>2. DriverTypes'
    BY <1>a, <1>b, <1>2 DEF DriverTypes, DriverPc, DriverAwait, RevokeSelection
  <2>3. ControllerTypes' /\ DurableTypes' /\ HistoryTypes'
    BY <1>a, <1>b, <1>2
       DEF ControllerTypes, DurableTypes, HistoryTypes, RevokeSelection, ctlVars, logVars,
           envVars, workVars
  <2>4. Locals'
    BY <1>a, <1>b, <1>2 DEF Locals, RevokeSelection
  <2>5. Budget'
    BY <1>a, <1>b, <1>2 DEF Budget, RevokeSelection, logVars, workVars
  <2>6. Validation'
    BY <1>a, <1>b, <1>2 DEF Validation, Budget, RevokeSelection, logVars
  <2>7. Settlement'
    BY <1>a, <1>b, <1>2 DEF Settlement, NodeTypes, RevokeSelection, ctlVars
  <2> QED
    BY <2>1, <2>2, <2>3, <2>4, <2>5, <2>6, <2>7 DEF IInv, TypeOK
<1> QED
  BY <1>1, <1>2 DEF Proof

\* A slot is free: the binding is undone, which gives back a number that was counted,
\* or the node is ADMITTED.
LEMMA AcquireSlotStep ==
    ASSUME IInv, NEW n \in Nodes, AcquireSlot(n)
    PROVE  IInv'
<1>a. NodeTypes /\ DriverTypes /\ ControllerTypes /\ DurableTypes /\ HistoryTypes /\
      Locals /\ Budget /\ Validation /\ Settlement
  BY DEF IInv, TypeOK
<1>b. /\ drv[n] = "slot"
      /\ ~cancelling[n]
      /\ ctl \in {"wait", "gather", "drain"}
      /\ UNCHANGED <<failures, poolsOut, repacked, rehydrated, shrinks, hist, cancelled,
                     choice, previous, waited, cancelling, crashed, ctlVars, cooling,
                     logVars, envVars, workVars>>
  BY DEF AcquireSlot, Steps
<1>1. ASSUME attempt' = [attempt EXCEPT ![n] = @ - 1],
             route' = [route EXCEPT ![n] = previous[n]],
             inflight' = [inflight EXCEPT ![n] = NoRoute],
             RevokeSelection(n, route[n])
      PROVE  IInv'
  <2>1. NodeTypes'
    BY <1>a, <1>b, <1>1, BoundAssumption
       DEF NodeTypes, DriverTypes, DurableTypes, Locals, Budget, NodeState,
           RevokeSelection, envVars
  <2>2. DriverTypes'
    BY <1>a, <1>b, <1>1 DEF DriverTypes, DriverPc, DriverAwait, RevokeSelection
  <2>3. ControllerTypes'
    BY <1>a, <1>b, <1>1 DEF ControllerTypes, RevokeSelection, ctlVars
  <2>4. DurableTypes' /\ HistoryTypes'
    BY <1>a, <1>b, <1>1
       DEF DurableTypes, HistoryTypes, RevokeSelection, logVars, envVars, workVars
  <2>5. Locals'
    BY <1>a, <1>b, <1>1 DEF Locals, DriverTypes, RevokeSelection
  <2>6. Budget'
    BY <1>a, <1>b, <1>1, BoundAssumption
       DEF Budget, NodeTypes, DriverTypes, DurableTypes, RevokeSelection, logVars, workVars
  <2>7. Validation'
    BY <1>a, <1>b, <1>1 DEF Validation, Budget, RevokeSelection, logVars
  <2>8. Settlement'
    BY <1>a, <1>b, <1>1 DEF Settlement, NodeTypes, RevokeSelection, ctlVars
  <2> QED
    BY <2>1, <2>2, <2>3, <2>4, <2>5, <2>6, <2>7, <2>8 DEF IInv, TypeOK
<1>2. ASSUME state' = [state EXCEPT ![n] = "ADMITTED"],
             drv' = [drv EXCEPT ![n] = "base"],
             UNCHANGED <<attempt, route, inflight, tried, revocations>>
      PROVE  IInv'
  <2>1. NodeTypes'
    BY <1>a, <1>b, <1>2 DEF NodeTypes, NodeState
  <2>2. DriverTypes'
    BY <1>a, <1>b, <1>2 DEF DriverTypes, DriverPc, DriverAwait
  <2>3. ControllerTypes' /\ DurableTypes' /\ HistoryTypes'
    BY <1>a, <1>b, <1>2
       DEF ControllerTypes, DurableTypes, HistoryTypes, ctlVars, logVars, envVars, workVars
  <2>4. Locals'
    BY <1>a, <1>b, <1>2 DEF Locals
  <2>5. Budget'
    BY <1>a, <1>b, <1>2 DEF Budget, logVars, workVars
  <2>6. Validation'
    BY <1>a, <1>b, <1>2 DEF Validation, Budget, logVars
  <2>7. Settlement'
    BY <1>a, <1>b, <1>2 DEF Settlement, ctlVars
  <2> QED
    BY <2>1, <2>2, <2>3, <2>4, <2>5, <2>6, <2>7 DEF IInv, TypeOK
<1> QED
  BY <1>1, <1>2 DEF AcquireSlot

\* The dispatch of an attempt: its number is above the log, so the log stays within the
\* policy and one more send is covered by it.
LEMMA LaunchStep ==
    ASSUME IInv, NEW n \in Nodes, Launch(n)
    PROVE  IInv'
<1>a. NodeTypes /\ DriverTypes /\ ControllerTypes /\ DurableTypes /\ HistoryTypes /\
      Locals /\ Budget /\ Validation /\ Settlement
  BY DEF IInv, TypeOK
<1>b. /\ drv[n] = "base"
      /\ ~cancelling[n]
      /\ ctl \in {"wait", "gather", "drain"}
      /\ UNCHANGED <<attempt, route, failures, tried, poolsOut, repacked, rehydrated,
                     shrinks, cancelled, choice, previous, waited, revocations, cancelling,
                     crashed, ctlVars, cooling, logValidated, logRoute, envVars, salvage,
                     stopped>>
  BY DEF Launch, Steps
<1>c. /\ state' = [state EXCEPT ![n] = "RUNNING"]
      /\ inflight' = [inflight EXCEPT ![n] = route[n]]
      /\ logAttempt' = [logAttempt EXCEPT ![n] = attempt[n]]
      /\ hist' = [hist EXCEPT ![n] = IF Restored(n) = {} THEN @ ELSE @ \cup {route[n]}]
  BY DEF Launch
<1>d. Restored(n) \in SUBSET Routes
  BY <1>a DEF Restored, DurableTypes
<1>1. ASSUME Authority = "off", Send(n, Restored(n))
     PROVE  IInv'
  <2>1. NodeTypes'
    BY <1>a, <1>b, <1>1, <1>c, <1>d DEF NodeTypes, Locals, NodeState, Send
  <2>2. DriverTypes'
    BY <1>a, <1>b, <1>1, <1>c, <1>d DEF DriverTypes, DriverPc, DriverAwait, Send
  <2>3. ControllerTypes'
    BY <1>a, <1>b, <1>1, <1>c, <1>d DEF ControllerTypes, NodeTypes, Send, ctlVars
  <2>4. DurableTypes'
    BY <1>a, <1>b, <1>1, <1>c, <1>d DEF DurableTypes, NodeTypes, Send, envVars
  <2>5. HistoryTypes'
    BY <1>a, <1>b, <1>1, <1>c, <1>d DEF HistoryTypes, Locals, Send
  <2>6. Locals'
    BY <1>a, <1>b, <1>1, <1>c, <1>d DEF Locals, Send
  <2>7. Budget'
    BY <1>a, <1>b, <1>1, <1>c, <1>d
       DEF Budget, NodeTypes, DriverTypes, DurableTypes, HistoryTypes, Send
  <2>8. Validation'
    BY <1>a, <1>b, <1>1, <1>c, <1>d DEF Validation, Budget, Send
  <2>9. Settlement'
    BY <1>a, <1>b, <1>1, <1>c, <1>d DEF Settlement, Send, ctlVars
  <2> QED
    BY <2>1, <2>2, <2>3, <2>4, <2>5, <2>6, <2>7, <2>8, <2>9 DEF IInv, TypeOK
<1>2. ASSUME Authority = "on",
             drv' = [drv EXCEPT ![n] = "permit"],
             authors' = [authors EXCEPT ![n] = Restored(n)],
             UNCHANGED sends
      PROVE  IInv'
  <2>1. NodeTypes'
    BY <1>a, <1>b, <1>2, <1>c, <1>d DEF NodeTypes, Locals, NodeState
  <2>2. DriverTypes'
    BY <1>a, <1>b, <1>2, <1>c, <1>d DEF DriverTypes, DriverPc, DriverAwait
  <2>3. ControllerTypes'
    BY <1>a, <1>b, <1>2, <1>c, <1>d DEF ControllerTypes, NodeTypes, ctlVars
  <2>4. DurableTypes'
    BY <1>a, <1>b, <1>2, <1>c, <1>d DEF DurableTypes, NodeTypes, envVars
  <2>5. HistoryTypes'
    BY <1>a, <1>b, <1>2, <1>c, <1>d DEF HistoryTypes
  <2>6. Locals'
    BY <1>a, <1>b, <1>2, <1>c, <1>d DEF Locals
  <2>7. Budget'
    BY <1>a, <1>b, <1>2, <1>c, <1>d
       DEF Budget, NodeTypes, DriverTypes, DurableTypes, HistoryTypes
  <2>8. Validation'
    BY <1>a, <1>b, <1>2, <1>c, <1>d DEF Validation, Budget
  <2>9. Settlement'
    BY <1>a, <1>b, <1>2, <1>c, <1>d DEF Settlement, ctlVars
  <2> QED
    BY <2>1, <2>2, <2>3, <2>4, <2>5, <2>6, <2>7, <2>8, <2>9 DEF IInv, TypeOK
<1> QED
  BY <1>1, <1>2 DEF Launch

\* An attempt settled without a send: the dispatch is logged, the node BLOCKED.
LEMMA RejectLocallyStep ==
    ASSUME IInv, NEW n \in Nodes, RejectLocally(n)
    PROVE  IInv'
<1>a. NodeTypes /\ DriverTypes /\ ControllerTypes /\ DurableTypes /\ HistoryTypes /\
      Locals /\ Budget /\ Validation /\ Settlement
  BY DEF IInv, TypeOK
<1>b. /\ drv[n] = "base"
      /\ ~cancelling[n]
      /\ ctl \in {"wait", "gather", "drain"}
      /\ UNCHANGED <<attempt, route, tried, poolsOut, repacked, rehydrated, shrinks,
                     cancelled, choice, previous, waited, revocations, cancelling, crashed,
                     ctlVars, cooling, logValidated, logRoute, envVars, workVars>>
  BY DEF RejectLocally, Steps
<1>c. PICK c \in Category : Record(n, c)
  BY DEF RejectLocally, Category, LocalCategories
<1>d. /\ state' = [state EXCEPT ![n] = "BLOCKED"]
      /\ inflight' = [inflight EXCEPT ![n] = route[n]]
      /\ logAttempt' = [logAttempt EXCEPT ![n] = attempt[n]]
      /\ drv' = [drv EXCEPT ![n] = "cleanup"]
  BY DEF RejectLocally
<1>1. NodeTypes'
  BY <1>a, <1>b, <1>c, <1>d DEF NodeTypes, Locals, NodeState, Record
<1>2. DriverTypes'
  BY <1>a, <1>b, <1>c, <1>d DEF DriverTypes, DriverPc, DriverAwait, Record
<1>3. ControllerTypes'
  BY <1>a, <1>b, <1>c, <1>d DEF ControllerTypes, NodeTypes, Record, ctlVars
<1>4. DurableTypes'
  BY <1>a, <1>b, <1>c, <1>d DEF DurableTypes, NodeTypes, Record, envVars, workVars
<1>5. HistoryTypes'
  BY <1>a, <1>b, <1>c, <1>d DEF HistoryTypes, Record, workVars
<1>6. Locals'
  BY <1>a, <1>b, <1>c, <1>d DEF Locals, Record
<1>7. Budget'
  BY <1>a, <1>b, <1>c, <1>d
     DEF Budget, NodeTypes, DriverTypes, DurableTypes, HistoryTypes, Record, workVars
<1>8. Validation'
  BY <1>a, <1>b, <1>c, <1>d DEF Validation, Budget, Record
<1>9. Settlement'
  BY <1>a, <1>b, <1>c, <1>d DEF Settlement, NodeTypes, Record, ctlVars
<1> QED
  BY <1>1, <1>2, <1>3, <1>4, <1>5, <1>6, <1>7, <1>8, <1>9 DEF IInv, TypeOK

\* The driver of a locally settled attempt ends with its node BLOCKED.
LEMMA CleanupStep ==
    ASSUME IInv, NEW n \in Nodes, Cleanup(n)
    PROVE  IInv'
<1>a. NodeTypes /\ DriverTypes /\ ControllerTypes /\ DurableTypes /\ HistoryTypes /\
      Locals /\ Budget /\ Validation /\ Settlement
  BY DEF IInv, TypeOK
<1>1. DriverTypes'
  BY <1>a DEF DriverTypes, DriverPc, Cleanup, Steps
<1>2. ControllerTypes'
  BY <1>a DEF ControllerTypes, Cleanup, Steps, ctlVars
<1>3. NodeTypes' /\ DurableTypes' /\ HistoryTypes'
  BY <1>a
     DEF NodeTypes, DurableTypes, HistoryTypes, Cleanup, Steps, nodeVars, logVars, envVars,
         workVars
<1>4. Locals'
  BY <1>a DEF Locals, Cleanup, Steps, nodeVars
<1>5. Budget'
  BY <1>a DEF Budget, Cleanup, Steps, nodeVars, logVars, workVars
<1>6. Validation'
  BY <1>a DEF Validation, Cleanup, Steps, nodeVars, logVars
<1>7. Settlement'
  BY <1>a DEF Settlement, Cleanup, Steps, nodeVars, ctlVars
<1> QED
  BY <1>1, <1>2, <1>3, <1>4, <1>5, <1>6, <1>7 DEF IInv, TypeOK

\* The permit is committed, and the send is the one the log was ahead by, or denied.
LEMMA PermitStep ==
    ASSUME IInv, NEW n \in Nodes, Permit(n)
    PROVE  IInv'
<1>a. NodeTypes /\ DriverTypes /\ ControllerTypes /\ DurableTypes /\ HistoryTypes /\
      Locals /\ Budget /\ Validation /\ Settlement
  BY DEF IInv, TypeOK
<1>b. /\ drv[n] = "permit"
      /\ ~cancelling[n]
      /\ ctl \in {"wait", "gather", "drain"}
      /\ UNCHANGED <<attempt, route, tried, poolsOut, repacked, rehydrated, shrinks,
                     cancelled, choice, previous, waited, revocations, cancelling, crashed,
                     ctlVars, inflight, cooling, logVars, envVars, salvage, stopped>>
  BY DEF Permit, Steps
<1>1. ASSUME Send(n, authors[n]), UNCHANGED <<state, failures, hist>>
     PROVE  IInv'
  <2>1. DriverTypes'
    BY <1>a, <1>b, <1>1 DEF DriverTypes, DriverPc, DriverAwait, Send
  <2>2. HistoryTypes'
    BY <1>a, <1>b, <1>1 DEF HistoryTypes, Locals, Send
  <2>3. NodeTypes' /\ ControllerTypes' /\ DurableTypes'
    BY <1>a, <1>b, <1>1
       DEF NodeTypes, ControllerTypes, DurableTypes, Send, ctlVars, logVars, envVars
  <2>4. Locals'
    BY <1>a, <1>b, <1>1 DEF Locals, Send
  <2>5. Budget'
    BY <1>a, <1>b, <1>1 DEF Budget, DriverTypes, DurableTypes, HistoryTypes, Send, logVars
  <2>6. Validation'
    BY <1>a, <1>b, <1>1 DEF Validation, Send, logVars
  <2>7. Settlement'
    BY <1>a, <1>b, <1>1 DEF Settlement, Send, ctlVars
  <2> QED
    BY <2>1, <2>2, <2>3, <2>4, <2>5, <2>6, <2>7 DEF IInv, TypeOK
<1>2. ASSUME Record(n, "permit_denied"),
             state' = [state EXCEPT ![n] = "TERMINAL_FAILURE"],
             drv' = [drv EXCEPT ![n] = "failing"],
             UNCHANGED <<sends, authors>>
      PROVE  IInv'
  <2>1. NodeTypes'
    BY <1>a, <1>b, <1>2
       DEF NodeTypes, Locals, NodeState, Category, Record, LocalCategories, envVars
  <2>2. DriverTypes'
    BY <1>a, <1>b, <1>2 DEF DriverTypes, DriverPc, DriverAwait, Record
  <2>3. ControllerTypes' /\ DurableTypes' /\ HistoryTypes'
    BY <1>a, <1>b, <1>2
       DEF ControllerTypes, DurableTypes, HistoryTypes, Record, ctlVars, logVars, envVars
  <2>4. Locals'
    BY <1>a, <1>b, <1>2 DEF Locals, Record
  <2>5. Budget'
    BY <1>a, <1>b, <1>2 DEF Budget, Record, logVars
  <2>6. Validation'
    BY <1>a, <1>b, <1>2 DEF Validation, Budget, Record, logVars
  <2>7. Settlement'
    BY <1>a, <1>b, <1>2 DEF Settlement, Record, ctlVars
  <2> QED
    BY <2>1, <2>2, <2>3, <2>4, <2>5, <2>6, <2>7 DEF IInv, TypeOK
<1> QED
  BY <1>1, <1>2 DEF Permit

\* The infrastructure wait ends: the node is BLOCKED for good, or selects again with
\* budget left.
LEMMA InfraOverStep ==
    ASSUME IInv, NEW n \in Nodes, InfraOver(n)
    PROVE  IInv'
<1>a. NodeTypes /\ DriverTypes /\ ControllerTypes /\ DurableTypes /\ HistoryTypes /\
      Locals /\ Budget /\ Validation /\ Settlement
  BY DEF IInv, TypeOK
<1>1. NodeTypes'
  BY <1>a DEF NodeTypes, NodeState, InfraOver, LoopTop, Steps
<1>2. DriverTypes'
  BY <1>a DEF DriverTypes, DriverPc, DriverAwait, InfraOver, LoopTop, Steps
<1>3. ControllerTypes' /\ DurableTypes' /\ HistoryTypes'
  BY <1>a
     DEF ControllerTypes, DurableTypes, HistoryTypes, InfraOver, LoopTop, Steps, ctlVars,
         logVars, envVars, workVars
<1>4. Locals'
  BY <1>a DEF Locals, InfraOver, LoopTop, Steps
<1>5. Budget'
  BY <1>a, BoundAssumption
     DEF Budget, NodeTypes, InfraOver, LoopTop, Steps, logVars, workVars
<1>6. Validation'
  BY <1>a DEF Validation, Budget, InfraOver, LoopTop, Steps, logVars
<1>7. Settlement'
  BY <1>a DEF Settlement, NodeTypes, InfraOver, LoopTop, Steps, ctlVars
<1> QED
  BY <1>1, <1>2, <1>3, <1>4, <1>5, <1>6, <1>7 DEF IInv, TypeOK

\* The leaves of a barrier are merged, or the barrier is BLOCKED.
LEMMA BarrierMergeStep ==
    ASSUME IInv, NEW n \in Nodes, BarrierMerge(n)
    PROVE  IInv'
<1>a. NodeTypes /\ DriverTypes /\ ControllerTypes /\ DurableTypes /\ HistoryTypes /\
      Locals /\ Budget /\ Validation /\ Settlement
  BY DEF IInv, TypeOK
<1>b. /\ drv[n] = "merge"
      /\ ~cancelling[n]
      /\ ctl \in {"wait", "gather", "drain"}
      /\ UNCHANGED <<attempt, route, failures, tried, poolsOut, repacked, rehydrated,
                     shrinks, hist, cancelled, choice, previous, waited, revocations,
                     cancelling, crashed, ctlVars, inflight, cooling, logVars, envVars,
                     workVars>>
  BY DEF BarrierMerge, Steps
<1>1. ASSUME state' = [state EXCEPT ![n] = "TERMINAL_SUCCESS"],
             drv' = [drv EXCEPT ![n] = "verify"]
      PROVE  IInv'
  <2>1. NodeTypes'
    BY <1>a, <1>b, <1>1 DEF NodeTypes, NodeState
  <2>2. DriverTypes'
    BY <1>a, <1>b, <1>1 DEF DriverTypes, DriverPc, DriverAwait
  <2>3. ControllerTypes' /\ DurableTypes' /\ HistoryTypes'
    BY <1>a, <1>b, <1>1
       DEF ControllerTypes, DurableTypes, HistoryTypes, ctlVars, logVars, envVars, workVars
  <2>4. Locals'
    BY <1>a, <1>b, <1>1 DEF Locals
  <2>5. Budget'
    BY <1>a, <1>b, <1>1 DEF Budget, logVars, workVars
  <2>6. Validation'
    BY <1>a, <1>b, <1>1 DEF Validation, Budget, logVars
  <2>7. Settlement'
    BY <1>a, <1>b, <1>1 DEF Settlement, ctlVars
  <2> QED
    BY <2>1, <2>2, <2>3, <2>4, <2>5, <2>6, <2>7 DEF IInv, TypeOK
<1>2. ASSUME state' = [state EXCEPT ![n] = "BLOCKED"], drv' = [drv EXCEPT ![n] = "done"]
     PROVE  IInv'
  <2>1. NodeTypes'
    BY <1>a, <1>b, <1>2 DEF NodeTypes, NodeState
  <2>2. DriverTypes'
    BY <1>a, <1>b, <1>2 DEF DriverTypes, DriverPc
  <2>3. ControllerTypes' /\ DurableTypes' /\ HistoryTypes'
    BY <1>a, <1>b, <1>2
       DEF ControllerTypes, DurableTypes, HistoryTypes, ctlVars, logVars, envVars, workVars
  <2>4. Locals'
    BY <1>a, <1>b, <1>2 DEF Locals
  <2>5. Budget'
    BY <1>a, <1>b, <1>2 DEF Budget, logVars, workVars
  <2>6. Validation'
    BY <1>a, <1>b, <1>2 DEF Validation, Budget, logVars
  <2>7. Settlement'
    BY <1>a, <1>b, <1>2 DEF Settlement, NodeTypes, ctlVars
  <2> QED
    BY <2>1, <2>2, <2>3, <2>4, <2>5, <2>6, <2>7 DEF IInv, TypeOK
<1> QED
  BY <1>1, <1>2 DEF BarrierMerge

\* A barrier is validated over dependencies that are, or BLOCKED.
LEMMA BarrierVerifyStep ==
    ASSUME IInv, NEW n \in Nodes, BarrierVerify(n)
    PROVE  IInv'
<1>a. NodeTypes /\ DriverTypes /\ ControllerTypes /\ DurableTypes /\ HistoryTypes /\
      Locals /\ Budget /\ Validation /\ Settlement
  BY DEF IInv, TypeOK
<1>b. /\ drv[n] = "verify"
      /\ ~cancelling[n]
      /\ ctl \in {"wait", "gather", "drain"}
      /\ UNCHANGED <<attempt, route, tried, poolsOut, repacked, rehydrated, shrinks, hist,
                     cancelled, choice, previous, waited, revocations, cancelling, crashed,
                     ctlVars, inflight, cooling, logAttempt, logRoute, envVars, workVars>>
  BY DEF BarrierVerify, Steps
<1>c. drv' = [drv EXCEPT ![n] = "done"]
  BY DEF BarrierVerify
<1>1. ASSUME state' = [state EXCEPT ![n] = "VALIDATED"],
             logValidated' = logValidated \cup {n},
             UNCHANGED failures
      PROVE  IInv'
  <2>1. NodeTypes'
    BY <1>a, <1>b, <1>1, <1>c DEF NodeTypes, NodeState
  <2>2. DriverTypes'
    BY <1>a, <1>b, <1>1, <1>c DEF DriverTypes, DriverPc
  <2>3. DurableTypes'
    BY <1>a, <1>b, <1>1, <1>c DEF DurableTypes, envVars, workVars
  <2>4. ControllerTypes' /\ HistoryTypes'
    BY <1>a, <1>b, <1>1, <1>c DEF ControllerTypes, HistoryTypes, ctlVars, workVars
  <2>5. Locals'
    BY <1>a, <1>b, <1>1, <1>c DEF Locals
  <2>6. Budget'
    BY <1>a, <1>b, <1>1, <1>c DEF Budget, NodeTypes, DriverTypes, workVars
  <2>7. Validation'
    BY <1>a, <1>b, <1>1, <1>c DEF Validation, NodeTypes
  <2>8. Settlement'
    BY <1>a, <1>b, <1>1, <1>c DEF Settlement, NodeTypes, ctlVars
  <2> QED
    BY <2>1, <2>2, <2>3, <2>4, <2>5, <2>6, <2>7, <2>8 DEF IInv, TypeOK
<1>2. ASSUME state' = [state EXCEPT ![n] = "BLOCKED"],
             failures' = [failures EXCEPT ![n] = Append(@, "verification_failed")],
             UNCHANGED logValidated
      PROVE  IInv'
  <2>1. NodeTypes'
    BY <1>a, <1>b, <1>2, <1>c DEF NodeTypes, NodeState, Category, BarrierCategories
  <2>2. DriverTypes'
    BY <1>a, <1>b, <1>2, <1>c DEF DriverTypes, DriverPc
  <2>3. ControllerTypes' /\ DurableTypes' /\ HistoryTypes'
    BY <1>a, <1>b, <1>2, <1>c
       DEF ControllerTypes, DurableTypes, HistoryTypes, ctlVars, envVars, workVars
  <2>4. Locals'
    BY <1>a, <1>b, <1>2, <1>c DEF Locals
  <2>5. Budget'
    BY <1>a, <1>b, <1>2, <1>c DEF Budget, workVars
  <2>6. Validation'
    BY <1>a, <1>b, <1>2, <1>c DEF Validation, Budget
  <2>7. Settlement'
    BY <1>a, <1>b, <1>2, <1>c DEF Settlement, NodeTypes, ctlVars
  <2> QED
    BY <2>1, <2>2, <2>3, <2>4, <2>5, <2>6, <2>7 DEF IInv, TypeOK
<1> QED
  BY <1>1, <1>2 DEF BarrierVerify

\* A node is validated, in its state and in the log at once.
LEMMA ValidationPassesStep ==
    ASSUME IInv, NEW n \in Nodes, ValidationPasses(n)
    PROVE  IInv'
<1>a. NodeTypes /\ DriverTypes /\ ControllerTypes /\ DurableTypes /\ HistoryTypes /\
      Locals /\ Budget /\ Validation /\ Settlement
  BY DEF IInv, TypeOK
<1>1. NodeTypes'
  BY <1>a DEF NodeTypes, Locals, NodeState, ValidationPasses, Steps
<1>2. DriverTypes'
  BY <1>a DEF DriverTypes, DriverPc, ValidationPasses, Steps
<1>3. DurableTypes'
  BY <1>a DEF DurableTypes, NodeTypes, ValidationPasses, Steps, envVars, workVars
<1>4. ControllerTypes' /\ HistoryTypes'
  BY <1>a DEF ControllerTypes, HistoryTypes, ValidationPasses, Steps, ctlVars, workVars
<1>5. Locals'
  BY <1>a DEF Locals, ValidationPasses, Steps
<1>6. Budget'
  BY <1>a DEF Budget, NodeTypes, DriverTypes, ValidationPasses, Steps, workVars
<1>7. Validation'
  BY <1>a DEF Validation, NodeTypes, ValidationPasses, Steps
<1>8. Settlement'
  BY <1>a DEF Settlement, NodeTypes, ValidationPasses, Steps, ctlVars
<1> QED
  BY <1>1, <1>2, <1>3, <1>4, <1>5, <1>6, <1>7, <1>8 DEF IInv, TypeOK

\* A rejected attempt goes on to _fail.
LEMMA ValidationFailsStep ==
    ASSUME IInv, NEW n \in Nodes, ValidationFails(n)
    PROVE  IInv'
<1>a. NodeTypes /\ DriverTypes /\ ControllerTypes /\ DurableTypes /\ HistoryTypes /\
      Locals /\ Budget /\ Validation /\ Settlement
  BY DEF IInv, TypeOK
<1>b. /\ drv[n] = "validate"
      /\ ~cancelling[n]
      /\ ctl \in {"wait", "gather", "drain"}
      /\ UNCHANGED <<attempt, route, tried, poolsOut, repacked, rehydrated, shrinks,
                     cancelled, choice, previous, waited, revocations, cancelling, crashed,
                     ctlVars, inflight, logVars, envVars, workVars>>
  BY DEF ValidationFails, Steps
<1>c. PICK c \in Category : Record(n, c) /\ Cools(n, c)
  BY DEF ValidationFails, Category, RejectedCategories, TerminalCategories
<1>d. /\ state' = [state EXCEPT ![n] = "REJECTED"]
      /\ drv' = [drv EXCEPT ![n] = "failing"]
  BY DEF ValidationFails
<1>1. NodeTypes'
  BY <1>a, <1>b, <1>c, <1>d DEF NodeTypes, Locals, NodeState, Record
<1>2. DriverTypes'
  BY <1>a, <1>b, <1>c, <1>d DEF DriverTypes, DriverPc, DriverAwait, Record
<1>3. ControllerTypes' /\ DurableTypes' /\ HistoryTypes'
  <2>1. ControllerTypes' /\ HistoryTypes'
    BY <1>a, <1>b, <1>c, <1>d DEF ControllerTypes, HistoryTypes, Record, ctlVars, workVars
  <2>2. DurableTypes'
    BY <1>a, <1>b, <1>c
       DEF DurableTypes, Locals, Pools, Cools, Cooled, Scopes, logVars, envVars, workVars
  <2> QED
    BY <2>1, <2>2
<1>4. Locals'
  BY <1>a, <1>b, <1>c, <1>d DEF Locals, Record
<1>5. Budget'
  BY <1>a, <1>b, <1>c, <1>d DEF Budget, Record, logVars, workVars
<1>6. Validation'
  BY <1>a, <1>b, <1>c, <1>d DEF Validation, Budget, Record, logVars
<1>7. Settlement'
  BY <1>a, <1>b, <1>c, <1>d DEF Settlement, Record, ctlVars
<1> QED
  BY <1>1, <1>2, <1>3, <1>4, <1>5, <1>6, <1>7 DEF IInv, TypeOK

\* A cancelled driver ends; its node was blocked when it was cancelled.
LEMMA CancelDeliveredStep ==
    ASSUME IInv, NEW n \in Nodes, CancelDelivered(n)
    PROVE  IInv'
<1>a. NodeTypes /\ DriverTypes /\ ControllerTypes /\ DurableTypes /\ HistoryTypes /\
      Locals /\ Budget /\ Validation /\ Settlement
  BY DEF IInv, TypeOK
<1>1. DriverTypes'
  BY <1>a DEF DriverTypes, DriverPc, CancelDelivered, Unwind, Steps
<1>2. ControllerTypes'
  BY <1>a DEF ControllerTypes, CancelDelivered, Unwind, Steps, ctlVars
<1>3. NodeTypes' /\ DurableTypes' /\ HistoryTypes'
  BY <1>a
     DEF NodeTypes, DurableTypes, HistoryTypes, CancelDelivered, Unwind, Steps, nodeVars,
         logVars, envVars, workVars
<1>4. Locals'
  BY <1>a DEF Locals, CancelDelivered, Unwind, Steps, nodeVars
<1>5. Budget'
  BY <1>a DEF Budget, CancelDelivered, Unwind, Steps, nodeVars, logVars, workVars
<1>6. Validation'
  BY <1>a DEF Validation, CancelDelivered, Unwind, DriverAwait, Steps, nodeVars, logVars
<1>7. Settlement'
  BY <1>a DEF Settlement, CancelDelivered, Unwind, Steps, nodeVars, ctlVars
<1> QED
  BY <1>1, <1>2, <1>3, <1>4, <1>5, <1>6, <1>7 DEF IInv, TypeOK

\* A swallowed cancellation only changes that the driver may step again.
LEMMA CancelLostStep ==
    ASSUME IInv, NEW n \in Nodes, CancelLost(n)
    PROVE  IInv'
<1>a. NodeTypes /\ DriverTypes /\ ControllerTypes /\ DurableTypes /\ HistoryTypes /\
      Locals /\ Budget /\ Validation /\ Settlement
  BY DEF IInv, TypeOK
<1>1. DriverTypes'
  BY <1>a DEF DriverTypes, CancelLost, Steps
<1>2. NodeTypes' /\ ControllerTypes' /\ DurableTypes' /\ HistoryTypes'
  BY <1>a
     DEF NodeTypes, ControllerTypes, DurableTypes, HistoryTypes, CancelLost, Steps,
         nodeVars, ctlVars, logVars, envVars, workVars
<1>3. Locals'
  BY <1>a DEF Locals, CancelLost, Steps, nodeVars
<1>4. Budget'
  BY <1>a DEF Budget, CancelLost, Steps, nodeVars, logVars, workVars
<1>5. Validation'
  BY <1>a DEF Validation, CancelLost, Steps, nodeVars, logVars
<1>6. Settlement'
  BY <1>a DEF Settlement, CancelLost, Steps, nodeVars, ctlVars
<1> QED
  BY <1>1, <1>2, <1>3, <1>4, <1>5, <1>6 DEF IInv, TypeOK

\* A driver raises: its node may be in the middle of an attempt, which crashed records.
LEMMA CrashStep ==
    ASSUME IInv, NEW n \in Nodes, Crash(n)
    PROVE  IInv'
<1>a. NodeTypes /\ DriverTypes /\ ControllerTypes /\ DurableTypes /\ HistoryTypes /\
      Locals /\ Budget /\ Validation /\ Settlement
  BY DEF IInv, TypeOK
<1>1. DriverTypes'
  BY <1>a DEF DriverTypes, DriverPc, Crash, Unwind, Raise, Steps
<1>2. ControllerTypes'
  BY <1>a DEF ControllerTypes, Crash, Unwind, Raise, Steps, ctlVars
<1>3. NodeTypes' /\ DurableTypes' /\ HistoryTypes'
  BY <1>a
     DEF NodeTypes, DurableTypes, HistoryTypes, Crash, Unwind, Raise, Steps, nodeVars,
         logVars, envVars, workVars
<1>4. Locals'
  BY <1>a DEF Locals, Crash, Unwind, Raise, Steps, nodeVars
<1>5. Budget'
  BY <1>a DEF Budget, Crash, Unwind, Raise, Steps, nodeVars, logVars, workVars
<1>6. Validation'
  BY <1>a DEF Validation, Crash, Unwind, DriverAwait, Raise, Steps, nodeVars, logVars
<1>7. Settlement'
  BY <1>a DEF Settlement, DriverTypes, Crash, Unwind, Raise, Steps, nodeVars, ctlVars
<1> QED
  BY <1>1, <1>2, <1>3, <1>4, <1>5, <1>6, <1>7 DEF IInv, TypeOK

\* A failed terminal: recorded and cooled, or, in a node that was cancelled meanwhile,
\* an exception of the driver.
LEMMA WorkerFailsStep ==
    ASSUME IInv, NEW n \in Nodes, WorkerFails(n)
    PROVE  IInv'
<1>a. NodeTypes /\ DriverTypes /\ ControllerTypes /\ DurableTypes /\ HistoryTypes /\
      Locals /\ Budget /\ Validation /\ Settlement
  BY DEF IInv, TypeOK
<1>b. /\ drv[n] = "running"
      /\ ~cancelling[n]
      /\ ctl \in {"wait", "gather", "drain"}
      /\ UNCHANGED <<attempt, route, tried, poolsOut, repacked, rehydrated, shrinks,
                     cancelled, choice, previous, waited, revocations, cancelling, ctlVars,
                     logVars, envVars, workVars>>
  BY DEF WorkerFails, Steps
<1>c. PICK c \in Category : RecordFailure(n, c)
  BY DEF WorkerFails, Category
<1>d. inflight' = [inflight EXCEPT ![n] = NoRoute]
  BY DEF WorkerFails
<1>1. ASSUME Record(n, c),
             state' = [state EXCEPT ![n] = "TERMINAL_FAILURE"],
             Cools(n, c),
             drv' = [drv EXCEPT ![n] = "failing"],
             UNCHANGED crashed
      PROVE  IInv'
  <2>1. NodeTypes'
    BY <1>a, <1>b, <1>1, <1>c, <1>d DEF NodeTypes, Locals, NodeState, Record
  <2>2. DriverTypes'
    BY <1>a, <1>b, <1>1, <1>c, <1>d DEF DriverTypes, DriverPc, DriverAwait, Record
  <2>3. ControllerTypes'
    BY <1>a, <1>b, <1>1, <1>c, <1>d DEF ControllerTypes, Record, ctlVars
  <2>4. DurableTypes'
    BY <1>a, <1>b, <1>1, <1>c, <1>d
       DEF DurableTypes, Locals, Pools, Cools, Cooled, Scopes, logVars, envVars, workVars
  <2>5. HistoryTypes'
    BY <1>a, <1>b, <1>1, <1>c, <1>d DEF HistoryTypes, Record, workVars
  <2>6. Locals'
    BY <1>a, <1>b, <1>1, <1>c, <1>d DEF Locals, Record
  <2>7. Budget'
    BY <1>a, <1>b, <1>1, <1>c, <1>d DEF Budget, Record, logVars, workVars
  <2>8. Validation'
    BY <1>a, <1>b, <1>1, <1>c, <1>d DEF Validation, Budget, Record, logVars
  <2>9. Settlement'
    BY <1>a, <1>b, <1>1, <1>c, <1>d DEF Settlement, Record, ctlVars
  <2> QED
    BY <2>1, <2>2, <2>3, <2>4, <2>5, <2>6, <2>7, <2>8, <2>9 DEF IInv, TypeOK
<1>2. ASSUME failures' = [failures EXCEPT ![n] = Append(@, c)],
             Raise(n),
             UNCHANGED <<state, hist, cooling>>
      PROVE  IInv'
  <2>1. NodeTypes'
    BY <1>a, <1>b, <1>2, <1>c, <1>d DEF NodeTypes, Raise
  <2>2. DriverTypes'
    BY <1>a, <1>b, <1>2, <1>c, <1>d DEF DriverTypes, DriverPc, Raise
  <2>3. ControllerTypes'
    BY <1>a, <1>b, <1>2, <1>c, <1>d DEF ControllerTypes, Raise, ctlVars
  <2>4. DurableTypes' /\ HistoryTypes'
    BY <1>a, <1>b, <1>2, <1>c, <1>d
       DEF DurableTypes, HistoryTypes, Raise, logVars, envVars, workVars
  <2>5. Locals'
    BY <1>a, <1>b, <1>2, <1>c, <1>d DEF Locals, Raise
  <2>6. Budget'
    BY <1>a, <1>b, <1>2, <1>c, <1>d DEF Budget, Raise, logVars, workVars
  <2>7. Validation'
    BY <1>a, <1>b, <1>2, <1>c, <1>d DEF Validation, Raise, logVars
  <2>8. Settlement'
    BY <1>a, <1>b, <1>2, <1>c, <1>d DEF Settlement, DriverTypes, Raise, ctlVars
  <2> QED
    BY <2>1, <2>2, <2>3, <2>4, <2>5, <2>6, <2>7, <2>8 DEF IInv, TypeOK
<1> QED
  BY <1>c, <1>1, <1>2 DEF RecordFailure

\* A worker answers: TERMINAL_SUCCESS, the epoch read, or an exception in a node that
\* was cancelled meanwhile.
LEMMA WorkerSucceedsStep ==
    ASSUME IInv, NEW n \in Nodes, WorkerSucceeds(n)
    PROVE  IInv'
<1>a. NodeTypes /\ DriverTypes /\ ControllerTypes /\ DurableTypes /\ HistoryTypes /\
      Locals /\ Budget /\ Validation /\ Settlement
  BY DEF IInv, TypeOK
<1>b. /\ drv[n] = "running"
      /\ ~cancelling[n]
      /\ ctl \in {"wait", "gather", "drain"}
      /\ UNCHANGED <<attempt, route, failures, tried, poolsOut, repacked, rehydrated,
                     shrinks, hist, cancelled, choice, previous, waited, revocations,
                     cancelling, ctlVars, cooling, logVars, envVars, workVars>>
  BY DEF WorkerSucceeds, Steps
<1>d. inflight' = [inflight EXCEPT ![n] = NoRoute]
  BY DEF WorkerSucceeds
<1>1. ASSUME state' = [state EXCEPT ![n] = "TERMINAL_SUCCESS"],
             drv' = [drv EXCEPT ![n] = "validate"],
             UNCHANGED crashed
      PROVE  IInv'
  <2>1. NodeTypes'
    BY <1>a, <1>b, <1>1, <1>d DEF NodeTypes, NodeState
  <2>2. DriverTypes'
    BY <1>a, <1>b, <1>1, <1>d DEF DriverTypes, DriverPc, DriverAwait
  <2>3. ControllerTypes'
    BY <1>a, <1>b, <1>1, <1>d DEF ControllerTypes, ctlVars
  <2>4. DurableTypes' /\ HistoryTypes'
    BY <1>a, <1>b, <1>1, <1>d DEF DurableTypes, HistoryTypes, logVars, envVars, workVars
  <2>5. Locals'
    BY <1>a, <1>b, <1>1, <1>d DEF Locals
  <2>6. Budget'
    BY <1>a, <1>b, <1>1, <1>d DEF Budget, logVars, workVars
  <2>7. Validation'
    BY <1>a, <1>b, <1>1, <1>d DEF Validation, Budget, logVars
  <2>8. Settlement'
    BY <1>a, <1>b, <1>1, <1>d DEF Settlement, ctlVars
  <2> QED
    BY <2>1, <2>2, <2>3, <2>4, <2>5, <2>6, <2>7, <2>8 DEF IInv, TypeOK
<1>2. ASSUME Raise(n), UNCHANGED state
     PROVE  IInv'
  <2>1. DriverTypes'
    BY <1>a, <1>b, <1>2, <1>d DEF DriverTypes, DriverPc, Raise
  <2>2. ControllerTypes'
    BY <1>a, <1>b, <1>2, <1>d DEF ControllerTypes, Raise, ctlVars
  <2>3. NodeTypes' /\ DurableTypes' /\ HistoryTypes'
    BY <1>a, <1>b, <1>2, <1>d
       DEF NodeTypes, DurableTypes, HistoryTypes, Raise, logVars, envVars, workVars
  <2>4. Locals'
    BY <1>a, <1>b, <1>2, <1>d DEF Locals, Raise
  <2>5. Budget'
    BY <1>a, <1>b, <1>2, <1>d DEF Budget, Raise, logVars, workVars
  <2>6. Validation'
    BY <1>a, <1>b, <1>2, <1>d DEF Validation, Raise, logVars
  <2>7. Settlement'
    BY <1>a, <1>b, <1>2, <1>d DEF Settlement, DriverTypes, Raise, ctlVars
  <2> QED
    BY <2>1, <2>2, <2>3, <2>4, <2>5, <2>6, <2>7 DEF IInv, TypeOK
<1>3. ASSUME drv' = [drv EXCEPT ![n] = "epoch"], UNCHANGED <<state, crashed>>
     PROVE  IInv'
  <2>1. DriverTypes'
    BY <1>a, <1>b, <1>3, <1>d DEF DriverTypes, DriverPc, DriverAwait
  <2>2. ControllerTypes'
    BY <1>a, <1>b, <1>3, <1>d DEF ControllerTypes, ctlVars
  <2>3. NodeTypes' /\ DurableTypes' /\ HistoryTypes'
    BY <1>a, <1>b, <1>3, <1>d
       DEF NodeTypes, DurableTypes, HistoryTypes, logVars, envVars, workVars
  <2>4. Locals'
    BY <1>a, <1>b, <1>3, <1>d DEF Locals
  <2>5. Budget'
    BY <1>a, <1>b, <1>3, <1>d DEF Budget, logVars, workVars
  <2>6. Validation'
    BY <1>a, <1>b, <1>3, <1>d DEF Validation, logVars
  <2>7. Settlement'
    BY <1>a, <1>b, <1>3, <1>d DEF Settlement, ctlVars
  <2> QED
    BY <2>1, <2>2, <2>3, <2>4, <2>5, <2>6, <2>7 DEF IInv, TypeOK
<1> QED
  BY <1>1, <1>2, <1>3 DEF WorkerSucceeds, Succeed

\* The epoch was read: the answer counts, or is discarded as a failure; in a cancelled
\* node either raises.
LEMMA EpochReadStep ==
    ASSUME IInv, NEW n \in Nodes, EpochRead(n)
    PROVE  IInv'
<1>a. NodeTypes /\ DriverTypes /\ ControllerTypes /\ DurableTypes /\ HistoryTypes /\
      Locals /\ Budget /\ Validation /\ Settlement
  BY DEF IInv, TypeOK
<1>b. /\ drv[n] = "epoch"
      /\ ~cancelling[n]
      /\ ctl \in {"wait", "gather", "drain"}
      /\ UNCHANGED <<attempt, route, tried, poolsOut, repacked, rehydrated, shrinks,
                     cancelled, choice, previous, waited, revocations, cancelling, ctlVars,
                     inflight, logVars, envVars, workVars>>
  BY DEF EpochRead, Steps
<1>1. ASSUME state' = [state EXCEPT ![n] = "TERMINAL_SUCCESS"],
             drv' = [drv EXCEPT ![n] = "validate"],
             UNCHANGED crashed,
             UNCHANGED <<failures, hist, cooling>>
      PROVE  IInv'
  <2>1. NodeTypes'
    BY <1>a, <1>b, <1>1 DEF NodeTypes, NodeState
  <2>2. DriverTypes'
    BY <1>a, <1>b, <1>1 DEF DriverTypes, DriverPc, DriverAwait
  <2>3. ControllerTypes' /\ DurableTypes' /\ HistoryTypes'
    BY <1>a, <1>b, <1>1
       DEF ControllerTypes, DurableTypes, HistoryTypes, ctlVars, logVars, envVars, workVars
  <2>4. Locals'
    BY <1>a, <1>b, <1>1 DEF Locals
  <2>5. Budget'
    BY <1>a, <1>b, <1>1 DEF Budget, logVars, workVars
  <2>6. Validation'
    BY <1>a, <1>b, <1>1 DEF Validation, Budget, logVars
  <2>7. Settlement'
    BY <1>a, <1>b, <1>1 DEF Settlement, ctlVars
  <2> QED
    BY <2>1, <2>2, <2>3, <2>4, <2>5, <2>6, <2>7 DEF IInv, TypeOK
<1>2. ASSUME Raise(n), UNCHANGED state, UNCHANGED <<failures, hist, cooling>>
     PROVE  IInv'
  <2>1. DriverTypes'
    BY <1>a, <1>b, <1>2 DEF DriverTypes, DriverPc, Raise
  <2>2. NodeTypes' /\ ControllerTypes' /\ DurableTypes' /\ HistoryTypes'
    BY <1>a, <1>b, <1>2
       DEF NodeTypes, ControllerTypes, DurableTypes, HistoryTypes, Raise, ctlVars, logVars,
           envVars, workVars
  <2>3. Locals'
    BY <1>a, <1>b, <1>2 DEF Locals, Raise
  <2>4. Budget'
    BY <1>a, <1>b, <1>2 DEF Budget, Raise, logVars, workVars
  <2>5. Validation'
    BY <1>a, <1>b, <1>2 DEF Validation, Raise, logVars
  <2>6. Settlement'
    BY <1>a, <1>b, <1>2 DEF Settlement, DriverTypes, Raise, ctlVars
  <2> QED
    BY <2>1, <2>2, <2>3, <2>4, <2>5, <2>6 DEF IInv, TypeOK
<1>3. ASSUME Record(n, "permit_revoked_after_commit"),
             state' = [state EXCEPT ![n] = "TERMINAL_FAILURE"],
             Cools(n, "permit_revoked_after_commit"),
             drv' = [drv EXCEPT ![n] = "failing"],
             UNCHANGED crashed
      PROVE  IInv'
  <2>1. NodeTypes'
    BY <1>a, <1>b, <1>3 DEF NodeTypes, Locals, NodeState, Category, Record, LocalCategories
  <2>2. DriverTypes'
    BY <1>a, <1>b, <1>3 DEF DriverTypes, DriverPc, DriverAwait, Record
  <2>3. DurableTypes'
    BY <1>a, <1>b, <1>3 DEF DurableTypes, Cools, Cooled, Scopes, logVars, envVars, workVars
  <2>4. ControllerTypes' /\ HistoryTypes'
    BY <1>a, <1>b, <1>3 DEF ControllerTypes, HistoryTypes, Record, ctlVars, workVars
  <2>5. Locals'
    BY <1>a, <1>b, <1>3 DEF Locals, Record
  <2>6. Budget'
    BY <1>a, <1>b, <1>3 DEF Budget, Record, logVars, workVars
  <2>7. Validation'
    BY <1>a, <1>b, <1>3 DEF Validation, Budget, Record, logVars
  <2>8. Settlement'
    BY <1>a, <1>b, <1>3 DEF Settlement, Record, ctlVars
  <2> QED
    BY <2>1, <2>2, <2>3, <2>4, <2>5, <2>6, <2>7, <2>8 DEF IInv, TypeOK
<1>4. ASSUME failures' = [failures EXCEPT ![n] = Append(@, "permit_revoked_after_commit")],
             Raise(n),
             UNCHANGED <<state, hist, cooling>>
      PROVE  IInv'
  <2>1. NodeTypes'
    BY <1>a, <1>b, <1>4 DEF NodeTypes, Budget, Category, Raise, LocalCategories, envVars
  <2>2. DriverTypes'
    BY <1>a, <1>b, <1>4 DEF DriverTypes, DriverPc, Raise
  <2>3. ControllerTypes' /\ DurableTypes' /\ HistoryTypes'
    BY <1>a, <1>b, <1>4
       DEF ControllerTypes, DurableTypes, HistoryTypes, Raise, ctlVars, logVars, envVars,
           workVars
  <2>4. Locals'
    BY <1>a, <1>b, <1>4 DEF Locals, Raise
  <2>5. Budget'
    BY <1>a, <1>b, <1>4 DEF Budget, Raise, logVars, workVars
  <2>6. Validation'
    BY <1>a, <1>b, <1>4 DEF Validation, Raise, logVars
  <2>7. Settlement'
    BY <1>a, <1>b, <1>4 DEF Settlement, DriverTypes, Raise, ctlVars
  <2> QED
    BY <2>1, <2>2, <2>3, <2>4, <2>5, <2>6, <2>7 DEF IInv, TypeOK
<1> QED
  BY <1>1, <1>2, <1>3, <1>4 DEF EpochRead, Succeed, RecordFailure

\* After a failed attempt: wait, block, or select again with budget left.
LEMMA AttemptFailedStep ==
    ASSUME IInv, NEW n \in Nodes, AttemptFailed(n)
    PROVE  IInv'
<1>a. NodeTypes /\ DriverTypes /\ ControllerTypes /\ DurableTypes /\ HistoryTypes /\
      Locals /\ Budget /\ Validation /\ Settlement
  BY DEF IInv, TypeOK
<1>1. NodeTypes'
  <2>1. state' \in [Nodes -> NodeState]
    BY <1>a DEF AttemptFailed, LoopTop, Repack, Rehydrate, Steps, NodeTypes, NodeState
  <2>2. tried' \in [Nodes -> SUBSET Routes]
    BY <1>a DEF AttemptFailed, LoopTop, Repack, Rehydrate, Steps, NodeTypes, Locals
  <2>3. poolsOut' \in [Nodes -> SUBSET Pools]
    BY <1>a DEF AttemptFailed, LoopTop, Repack, Rehydrate, Steps, NodeTypes, Locals, Pools
  <2>4. repacked' \in [Nodes -> SUBSET Routes]
    BY <1>a DEF AttemptFailed, LoopTop, Repack, Rehydrate, Steps, NodeTypes, Locals
  <2>5. rehydrated' \in [Nodes -> SUBSET Routes]
    BY <1>a DEF AttemptFailed, LoopTop, Repack, Rehydrate, Steps, NodeTypes, Locals
  <2>6. shrinks' \in [Nodes -> Nat]
    BY <1>a DEF AttemptFailed, LoopTop, Repack, Rehydrate, Steps, NodeTypes
  <2> QED
    BY <1>a, <2>1, <2>2, <2>3, <2>4, <2>5, <2>6 DEF AttemptFailed, NodeTypes, nodeVars
<1>2. DriverTypes'
  BY <1>a
     DEF DriverTypes, DriverPc, DriverAwait, AttemptFailed, Salvage, LoopTop, Repack,
         Rehydrate, Steps
<1>3. ControllerTypes'
  BY <1>a
     DEF ControllerTypes, AttemptFailed, Salvage, LoopTop, Repack, Rehydrate, Steps,
         ctlVars
<1>4. DurableTypes'
  <2>1. salvage' \in [Nodes -> SUBSET Routes]
    BY <1>a DEF AttemptFailed, Salvage, DurableTypes, HistoryTypes
  <2> QED
    BY <1>a, <2>1 DEF AttemptFailed, DurableTypes, logVars, envVars
<1>5. HistoryTypes'
  BY <1>a DEF HistoryTypes, AttemptFailed, Salvage, LoopTop, Repack, Rehydrate, Steps
<1>6. Locals'
  BY <1>a DEF Locals, DriverTypes, AttemptFailed, Salvage, LoopTop, Repack, Rehydrate, Steps
<1>7. Budget'
  BY <1>a, BoundAssumption
     DEF Budget, NodeTypes, DriverTypes, AttemptFailed, Salvage, LoopTop, Repack,
         Rehydrate, Steps, logVars
<1>8. Validation'
  BY <1>a
     DEF Validation, NodeTypes, DriverTypes, Budget, AttemptFailed, Salvage, LoopTop,
         Repack, Rehydrate, Steps, logVars
<1>9. Settlement'
  <2>a. /\ drv[n] = "failing" /\ ~cancelling[n] /\ ctl \notin {"conclude", "review"}
        /\ ctl' = ctl /\ cancelling' = cancelling /\ crashed' = crashed
    BY DEF AttemptFailed, Steps, ctlVars
  <2>b. \/ state' = state /\ drv' = [drv EXCEPT ![n] = "infra"]
        \/ /\ state' = [state EXCEPT ![n] = "BLOCKED"]
           /\ drv' = [drv EXCEPT ![n] = "done"]
        \/ /\ state' = [state EXCEPT ![n] = "PLANNED"]
           /\ drv' = [drv EXCEPT ![n] = "select"]
    BY DEF AttemptFailed, LoopTop
  <2>1. CASE state' = state /\ drv' = [drv EXCEPT ![n] = "infra"]
    BY <1>a, <2>a, <2>1 DEF Settlement, DriverTypes
  <2>2. CASE /\ state' = [state EXCEPT ![n] = "BLOCKED"]
             /\ drv' = [drv EXCEPT ![n] = "done"]
    BY <1>a, <2>a, <2>2 DEF Settlement, NodeTypes, DriverTypes
  <2>3. CASE /\ state' = [state EXCEPT ![n] = "PLANNED"]
             /\ drv' = [drv EXCEPT ![n] = "select"]
    BY <1>a, <2>a, <2>3 DEF Settlement, NodeTypes, DriverTypes
  <2> QED
    BY <2>b, <2>1, <2>2, <2>3
<1> QED
  BY <1>1, <1>2, <1>3, <1>4, <1>5, <1>6, <1>7, <1>8, <1>9 DEF IInv, TypeOK

-----------------------------------------------------------------------------
(* The controller and its environment. *)

\* The cancellation is published.
LEMMA GatheredStep ==
    ASSUME IInv, Gathered
    PROVE  IInv'
<1>a. NodeTypes /\ DriverTypes /\ ControllerTypes /\ DurableTypes /\ HistoryTypes /\
      Locals /\ Budget /\ Validation /\ Settlement
  BY DEF IInv, TypeOK
<1>1. ControllerTypes'
  BY <1>a DEF ControllerTypes, Gathered
<1>2. NodeTypes' /\ DriverTypes' /\ DurableTypes' /\ HistoryTypes'
  BY <1>a
     DEF NodeTypes, DriverTypes, DurableTypes, HistoryTypes, Gathered, nodeVars, drvVars,
         logVars, envVars, workVars
<1>3. Locals'
  BY <1>a DEF Locals, Gathered, nodeVars, drvVars
<1>4. Budget'
  BY <1>a DEF Budget, Gathered, nodeVars, drvVars, logVars, workVars
<1>5. Validation'
  BY <1>a DEF Validation, Gathered, nodeVars, drvVars, logVars
<1>6. Settlement'
  BY <1>a DEF Settlement, Gathered, nodeVars, drvVars
<1> QED
  BY <1>1, <1>2, <1>3, <1>4, <1>5, <1>6 DEF IInv, TypeOK

\* The tasks cancelled at the deadline have ended.
LEMMA DrainedStep ==
    ASSUME IInv, Drained
    PROVE  IInv'
<1>a. NodeTypes /\ DriverTypes /\ ControllerTypes /\ DurableTypes /\ HistoryTypes /\
      Locals /\ Budget /\ Validation /\ Settlement
  BY DEF IInv, TypeOK
<1>1. ControllerTypes'
  BY <1>a DEF ControllerTypes, Drained
<1>2. NodeTypes' /\ DriverTypes' /\ DurableTypes' /\ HistoryTypes'
  BY <1>a
     DEF NodeTypes, DriverTypes, DurableTypes, HistoryTypes, Drained, nodeVars, drvVars,
         logVars, envVars, workVars
<1>3. Locals'
  BY <1>a DEF Locals, Drained, nodeVars, drvVars
<1>4. Budget'
  BY <1>a DEF Budget, Drained, nodeVars, drvVars, logVars, workVars
<1>5. Validation'
  BY <1>a DEF Validation, Drained, nodeVars, drvVars, logVars
<1>6. Settlement'
  BY <1>a DEF Settlement, Drained, nodeVars, drvVars
<1> QED
  BY <1>1, <1>2, <1>3, <1>4, <1>5, <1>6 DEF IInv, TypeOK

\* _conclude publishes BLOCKED, goes on to the review or raises.
LEMMA ConcludeStep ==
    ASSUME IInv, Conclude
    PROVE  IInv'
<1>a. NodeTypes /\ DriverTypes /\ ControllerTypes /\ DurableTypes /\ HistoryTypes /\
      Locals /\ Budget /\ Validation /\ Settlement
  BY DEF IInv, TypeOK
<1>1. ControllerTypes'
  BY <1>a DEF ControllerTypes, Conclude
<1>2. NodeTypes' /\ DriverTypes' /\ DurableTypes' /\ HistoryTypes'
  BY <1>a
     DEF NodeTypes, DriverTypes, DurableTypes, HistoryTypes, Conclude, nodeVars, drvVars,
         logVars, envVars, workVars
<1>3. Locals'
  BY <1>a DEF Locals, Conclude, nodeVars, drvVars
<1>4. Budget'
  BY <1>a DEF Budget, Conclude, nodeVars, drvVars, logVars, workVars
<1>5. Validation'
  BY <1>a DEF Validation, Conclude, nodeVars, drvVars, logVars
<1>6. Settlement'
  BY <1>a DEF Settlement, Conclude, nodeVars, drvVars
<1> QED
  BY <1>1, <1>2, <1>3, <1>4, <1>5, <1>6 DEF IInv, TypeOK

\* A cooldown runs out.
LEMMA CooldownExpiresStep ==
    ASSUME IInv, CooldownExpires
    PROVE  IInv'
<1>a. NodeTypes /\ DriverTypes /\ ControllerTypes /\ DurableTypes /\ HistoryTypes /\
      Locals /\ Budget /\ Validation /\ Settlement
  BY DEF IInv, TypeOK
<1>1. DurableTypes'
  BY <1>a DEF DurableTypes, CooldownExpires, logVars, envVars, workVars
<1>2. NodeTypes' /\ DriverTypes' /\ ControllerTypes' /\ HistoryTypes'
  BY <1>a
     DEF NodeTypes, DriverTypes, ControllerTypes, HistoryTypes, CooldownExpires, nodeVars,
         drvVars, ctlVars, workVars
<1>3. Locals'
  BY <1>a DEF Locals, CooldownExpires, nodeVars, drvVars
<1>4. Budget'
  BY <1>a DEF Budget, CooldownExpires, nodeVars, drvVars, logVars, workVars
<1>5. Validation'
  BY <1>a DEF Validation, CooldownExpires, nodeVars, drvVars, logVars
<1>6. Settlement'
  BY <1>a DEF Settlement, CooldownExpires, nodeVars, drvVars, ctlVars
<1> QED
  BY <1>1, <1>2, <1>3, <1>4, <1>5, <1>6 DEF IInv, TypeOK

\* The review publishes the outcome.
LEMMA ReviewStep ==
    ASSUME IInv, Review
    PROVE  IInv'
<1>a. NodeTypes /\ DriverTypes /\ ControllerTypes /\ DurableTypes /\ HistoryTypes /\
      Locals /\ Budget /\ Validation /\ Settlement
  BY DEF IInv, TypeOK
<1>b. /\ UNCHANGED <<nodeVars, drvVars, cancelRequested, offset, inflight,
                     cooling, logVars, envVars, workVars>>
  BY DEF Review
<1>c. ctl' = "done"
  BY DEF Review
<1>1. ASSUME NEW r \in Routes, reviewer' = r, finished' = "COMPLETE"
     PROVE  IInv'
  <2>1. ControllerTypes'
    BY <1>a, <1>b, <1>1, <1>c DEF ControllerTypes
  <2>2. NodeTypes' /\ DriverTypes' /\ DurableTypes' /\ HistoryTypes'
    BY <1>a, <1>b, <1>1, <1>c
       DEF NodeTypes, DriverTypes, DurableTypes, HistoryTypes, nodeVars, drvVars, logVars,
           envVars, workVars
  <2>3. Locals'
    BY <1>a, <1>b, <1>1, <1>c DEF Locals, nodeVars, drvVars
  <2>4. Budget'
    BY <1>a, <1>b, <1>1, <1>c DEF Budget, nodeVars, drvVars, logVars, workVars
  <2>5. Validation'
    BY <1>a, <1>b, <1>1, <1>c DEF Validation, nodeVars, drvVars, logVars
  <2>6. Settlement'
    BY <1>a, <1>b, <1>1, <1>c DEF Settlement, nodeVars, drvVars
  <2> QED
    BY <2>1, <2>2, <2>3, <2>4, <2>5, <2>6 DEF IInv, TypeOK
<1>2. ASSUME finished' = "BLOCKED", UNCHANGED reviewer
     PROVE  IInv'
  <2>1. ControllerTypes'
    BY <1>a, <1>b, <1>2, <1>c DEF ControllerTypes
  <2>2. NodeTypes' /\ DriverTypes' /\ DurableTypes' /\ HistoryTypes'
    BY <1>a, <1>b, <1>2, <1>c
       DEF NodeTypes, DriverTypes, DurableTypes, HistoryTypes, nodeVars, drvVars, logVars,
           envVars, workVars
  <2>3. Locals'
    BY <1>a, <1>b, <1>2, <1>c DEF Locals, nodeVars, drvVars
  <2>4. Budget'
    BY <1>a, <1>b, <1>2, <1>c DEF Budget, nodeVars, drvVars, logVars, workVars
  <2>5. Validation'
    BY <1>a, <1>b, <1>2, <1>c DEF Validation, nodeVars, drvVars, logVars
  <2>6. Settlement'
    BY <1>a, <1>b, <1>2, <1>c DEF Settlement, nodeVars, drvVars
  <2> QED
    BY <2>1, <2>2, <2>3, <2>4, <2>5, <2>6 DEF IInv, TypeOK
<1> QED
  BY <1>1, <1>2 DEF Review

\* Finished tasks are reaped: a crashed one blocks its node, any other left it settled.
LEMMA WakeStep ==
    ASSUME IInv, Wake
    PROVE  IInv'
<1>a. NodeTypes /\ DriverTypes /\ ControllerTypes /\ DurableTypes /\ HistoryTypes /\
      Locals /\ Budget /\ Validation /\ Settlement
  BY DEF IInv, TypeOK
<1>1. NodeTypes'
  BY <1>a DEF NodeTypes, NodeState, Wake, Reap, ReapedState, ReapedDriver
<1>2. DriverTypes'
  BY <1>a DEF DriverTypes, DriverPc, Wake, Reap, ReapedState, ReapedDriver
<1>3. ControllerTypes'
  BY <1>a DEF ControllerTypes, Wake, Reap, ReapedState, ReapedDriver
<1>4. DurableTypes' /\ HistoryTypes'
  BY <1>a
     DEF DurableTypes, HistoryTypes, Wake, Reap, ReapedState, ReapedDriver, logVars,
         envVars, workVars
<1>5. Locals'
  BY <1>a DEF Locals, Wake, Reap, ReapedState, ReapedDriver
<1>6. Budget'
  BY <1>a DEF Budget, Wake, Reap, ReapedState, ReapedDriver, logVars, workVars
<1>7. Validation'
  BY <1>a DEF Validation, Wake, Reap, ReapedState, ReapedDriver, logVars
<1>8. Settlement'
  BY <1>a DEF Settlement, Wake, Reap, ReapedState, ReapedDriver
<1> QED
  BY <1>1, <1>2, <1>3, <1>4, <1>5, <1>6, <1>7, <1>8 DEF IInv, TypeOK

\* The deadline: tasks are reaped or cancelled, and the outcome published.
LEMMA WakeDeadlineStep ==
    ASSUME IInv, WakeDeadline
    PROVE  IInv'
<1>a. NodeTypes /\ DriverTypes /\ ControllerTypes /\ DurableTypes /\ HistoryTypes /\
      Locals /\ Budget /\ Validation /\ Settlement
  BY DEF IInv, TypeOK
<1>1. NodeTypes'
  BY <1>a DEF NodeTypes, NodeState, WakeDeadline, Reap, ReapedState, ReapedDriver
<1>2. DriverTypes'
  BY <1>a DEF DriverTypes, DriverPc, WakeDeadline, Reap, ReapedState, ReapedDriver
<1>3. ControllerTypes'
  BY <1>a DEF ControllerTypes, WakeDeadline, Reap, ReapedState, ReapedDriver
<1>4. DurableTypes' /\ HistoryTypes'
  BY <1>a
     DEF DurableTypes, HistoryTypes, WakeDeadline, Reap, ReapedState, ReapedDriver,
         logVars, envVars, workVars
<1>5. Locals'
  BY <1>a DEF Locals, WakeDeadline, Reap, ReapedState, ReapedDriver
<1>6. Budget'
  BY <1>a DEF Budget, WakeDeadline, Reap, ReapedState, ReapedDriver, logVars, workVars
<1>7. Validation'
  BY <1>a DEF Validation, WakeDeadline, Reap, ReapedState, ReapedDriver, logVars
<1>8. Settlement'
  BY <1>a DEF Settlement, WakeDeadline, Reap, ReapedState, ReapedDriver
<1> QED
  BY <1>1, <1>2, <1>3, <1>4, <1>5, <1>6, <1>7, <1>8 DEF IInv, TypeOK

\* An operator writes a request.
LEMMA request_controlStep ==
    ASSUME IInv, request_control
    PROVE  IInv'
<1>a. NodeTypes /\ DriverTypes /\ ControllerTypes /\ DurableTypes /\ HistoryTypes /\
      Locals /\ Budget /\ Validation /\ Settlement
  BY DEF IInv, TypeOK
<1>1. DurableTypes'
  BY <1>a DEF DurableTypes, request_control, logVars, workVars
<1>2. NodeTypes' /\ DriverTypes' /\ ControllerTypes' /\ HistoryTypes'
  BY <1>a
     DEF NodeTypes, DriverTypes, ControllerTypes, HistoryTypes, request_control, nodeVars,
         drvVars, ctlVars, workVars
<1>3. Locals'
  BY <1>a DEF Locals, request_control, nodeVars, drvVars
<1>4. Budget'
  BY <1>a DEF Budget, request_control, nodeVars, drvVars, logVars, workVars
<1>5. Validation'
  BY <1>a DEF Validation, request_control, nodeVars, drvVars, logVars
<1>6. Settlement'
  BY <1>a DEF Settlement, request_control, nodeVars, drvVars, ctlVars
<1> QED
  BY <1>1, <1>2, <1>3, <1>4, <1>5, <1>6 DEF IInv, TypeOK

\* cancel_run changes no VALIDATED node and leaves the poll.
LEMMA CancelRunStep ==
    ASSUME IInv, CancelRun
    PROVE  IInv'
<1>a. NodeTypes /\ DriverTypes /\ ControllerTypes /\ DurableTypes /\ HistoryTypes /\
      Locals /\ Budget /\ Validation /\ Settlement
  BY DEF IInv, TypeOK
<1>1. NodeTypes'
  BY <1>a DEF NodeTypes, NodeState, CancelRun, Read, ActiveStates
<1>2. DriverTypes'
  BY <1>a DEF DriverTypes, CancelRun, Read, ActiveStates
<1>3. ControllerTypes'
  BY <1>a, ReadTypes DEF CancelRun, ControllerTypes
<1>4. HistoryTypes'
  BY <1>a DEF HistoryTypes, CancelRun, Read, ActiveStates
<1>5. DurableTypes'
  BY <1>a DEF DurableTypes, CancelRun, Read, ActiveStates, logVars, envVars
<1>6. Locals'
  BY <1>a DEF Locals, CancelRun, Read, ActiveStates
<1>7. Budget'
  BY <1>a DEF Budget, CancelRun, Read, ActiveStates, logVars
<1>8. Validation'
  BY <1>a DEF Validation, CancelRun, Read, ActiveStates, logVars
<1>9. Settlement'
  BY <1>a DEF Settlement, CancelRun, Read, ActiveStates
<1> QED
  BY <1>1, <1>2, <1>3, <1>4, <1>5, <1>6, <1>7, <1>8, <1>9 DEF IInv, TypeOK

\* cancel_node blocks an active node, and cancels its driver if it has one.
LEMMA CancelNodeStep ==
    ASSUME IInv, CancelNode
    PROVE  IInv'
<1>a. NodeTypes /\ DriverTypes /\ ControllerTypes /\ DurableTypes /\ HistoryTypes /\
      Locals /\ Budget /\ Validation /\ Settlement
  BY DEF IInv, TypeOK
<1>1. NodeTypes'
  BY <1>a DEF NodeTypes, NodeState, CancelNode, Read, ActiveStates
<1>2. DriverTypes'
  BY <1>a DEF DriverTypes, CancelNode, Read, ActiveStates
<1>3. ControllerTypes'
  BY <1>a, ReadTypes DEF CancelNode, ControllerTypes
<1>4. HistoryTypes'
  BY <1>a, ReadRequest DEF CancelNode, HistoryTypes
<1>5. DurableTypes'
  BY <1>a DEF DurableTypes, CancelNode, Read, ActiveStates, logVars, envVars
<1>6. Locals'
  BY <1>a DEF Locals, CancelNode, Read, ActiveStates
<1>7. Budget'
  <2>1. PICK m \in Nodes : m = controls[offset + 1].node
    BY <1>a, ReadRequest DEF CancelNode
  <2> QED
    BY <1>a, <2>1 DEF CancelNode, ActiveStates, Budget, NodeTypes, logVars
<1>8. Validation'
  BY <1>a DEF Validation, NodeTypes, CancelNode, Read, ActiveStates, logVars
<1>9. Settlement'
  BY <1>a, BoundAssumption
     DEF Settlement, NodeTypes, DriverTypes, CancelNode, Read, ActiveStates, logVars,
         envVars
<1> QED
  BY <1>1, <1>2, <1>3, <1>4, <1>5, <1>6, <1>7, <1>8, <1>9 DEF IInv, TypeOK

\* retry_node takes a node back to PLANNED only when it has no driver.
LEMMA RetryNodeStep ==
    ASSUME IInv, RetryNode
    PROVE  IInv'
<1>a. NodeTypes /\ DriverTypes /\ ControllerTypes /\ DurableTypes /\ HistoryTypes /\
      Locals /\ Budget /\ Validation /\ Settlement
  BY DEF IInv, TypeOK
<1>1. NodeTypes'
  BY <1>a DEF NodeTypes, NodeState, RetryNode, Read, Retryable
<1>2. ControllerTypes'
  BY <1>a, ReadTypes DEF RetryNode, ControllerTypes
<1>3. DriverTypes' /\ DurableTypes' /\ HistoryTypes'
  BY <1>a
     DEF DriverTypes, DurableTypes, HistoryTypes, RetryNode, Read, Retryable, drvVars,
         logVars, envVars, workVars
<1>4. Locals'
  BY <1>a DEF Locals, RetryNode, Read, Retryable, drvVars
<1>5. Budget'
  BY <1>a DEF Budget, NodeTypes, RetryNode, Read, Retryable, drvVars, logVars, workVars
<1>6. Validation'
  BY <1>a, BoundAssumption
     DEF Validation, NodeTypes, RetryNode, Read, Retryable, drvVars, logVars
<1>7. Settlement'
  BY <1>a DEF Settlement, NodeTypes, RetryNode, Read, Retryable, drvVars
<1> QED
  BY <1>1, <1>2, <1>3, <1>4, <1>5, <1>6, <1>7 DEF IInv, TypeOK

\* Drivers are started only over validated dependencies and within the budget; with
\* nothing left to run every node is settled (NothingLeft).
LEMMA ScheduleStep ==
    ASSUME IInv, Schedule
    PROVE  IInv'
<1>a. NodeTypes /\ DriverTypes /\ ControllerTypes /\ DurableTypes /\ HistoryTypes /\
      Locals /\ Budget /\ Validation /\ Settlement
  BY DEF IInv, TypeOK
<1>1. NodeTypes'
  <2>1. state' \in [Nodes -> NodeState]
    <3>1. \A n \in Nodes : FirstState(n) \in NodeState /\ state[n] \in NodeState
      BY <1>a, BoundAssumption DEF FirstState, NodeState, NodeTypes
    <3>2. "BLOCKED" \in NodeState
      BY DEF NodeState
    <3> QED
      BY <3>1, <3>2 DEF Schedule
  <2>2. attempt' \in [Nodes -> Nat]
    BY <1>a DEF Schedule, NodeTypes
  <2> QED
    BY <1>a, <2>1, <2>2 DEF Schedule, NodeTypes
<1>2. DriverTypes'
  BY <1>a, BoundAssumption
     DEF DriverTypes, NodeTypes, Locals, DriverPc, DriverAwait, Schedule, Ready,
         DependencyBlocked, Planned, FirstState, FirstAwait, Pending, workVars
<1>3. ControllerTypes'
  BY <1>a
     DEF ControllerTypes, Schedule, Ready, DependencyBlocked, Planned, FirstState,
         FirstAwait, Pending
<1>4. DurableTypes' /\ HistoryTypes'
  BY <1>a
     DEF DurableTypes, HistoryTypes, Schedule, Ready, DependencyBlocked, Planned,
         FirstState, FirstAwait, Pending, logVars, envVars, workVars
<1>5. Locals'
  BY <1>a, BoundAssumption
     DEF Locals, NodeTypes, Schedule, Ready, DependencyBlocked, Planned, FirstState,
         FirstAwait, Pending, workVars
<1>6. Budget'
  <2>1. ASSUME NEW n \in Nodes, n \notin Ready
       PROVE  /\ drv'[n] = drv[n] /\ attempt'[n] = attempt[n]
              /\ state[n] = "VALIDATED" => state'[n] = "VALIDATED"
    BY <1>a, <2>1 DEF Schedule, DependencyBlocked, Planned
  <2>2. ASSUME NEW n \in Nodes, n \in Ready
       PROVE  /\ n \notin logValidated
              /\ drv'[n] = FirstAwait(n)
              /\ attempt'[n] = IF n \in Barriers THEN attempt[n] + 1 ELSE attempt[n]
    BY <1>a, <2>2 DEF Schedule, Ready, Planned, Budget
  <2>3. \A n \in Nodes : FirstAwait(n) \in {"merge", "done", "select"} /\
                         (FirstAwait(n) = "select" => n \notin Barriers /\ attempt[n] < MaxAttempts)
    BY <1>a, BoundAssumption DEF FirstAwait, NodeTypes
  <2> QED
    BY <1>a, <2>1, <2>2, <2>3, BoundAssumption
       DEF Schedule, Budget, NodeTypes, DurableTypes, logVars, workVars
<1>7. Validation'
  <2>1. ASSUME NEW n \in Nodes
       PROVE  state'[n] = "VALIDATED" <=> state[n] = "VALIDATED"
    <3>1. CASE n \in DependencyBlocked \cup Ready
      <4>1. state[n] = "PLANNED"
        BY <3>1 DEF DependencyBlocked, Ready, Planned
      <4>2. state'[n] \in {"BLOCKED", FirstState(n)}
        BY <3>1 DEF Schedule
      <4>3. FirstState(n) # "VALIDATED"
        BY <1>a, BoundAssumption DEF FirstState, NodeTypes
      <4> QED
        BY <4>1, <4>2, <4>3
    <3>2. CASE n \notin DependencyBlocked \cup Ready
      BY <3>2 DEF Schedule
    <3> QED
      BY <3>1, <3>2
  <2>2. ASSUME NEW n \in Nodes, drv'[n] # "none"
       PROVE  Deps[n] \subseteq logValidated
    <3>1. CASE n \in Ready
      BY <1>a, <3>1, GraphAssumption DEF Ready, Validation
    <3>2. CASE n \notin Ready
      BY <1>a, <2>2, <3>2 DEF Schedule, Validation
    <3> QED
      BY <3>1, <3>2
  <2>3. logValidated' = logValidated
    BY DEF Schedule, logVars
  <2> QED
    BY <1>a, <2>1, <2>2, <2>3 DEF Validation
<1>8. Settlement'
  <2>1. ASSUME NEW n \in Nodes
       PROVE  /\ n \in Ready => drv'[n] = FirstAwait(n) /\ state'[n] \in {"BLOCKED", FirstState(n)}
              /\ n \in Ready => drv[n] = "none"
              /\ n \notin Ready => drv'[n] = drv[n]
              /\ n \notin Ready => state'[n] = state[n] \/ (state[n] = "PLANNED" /\ state'[n] = "BLOCKED")
    BY <1>a, <2>1 DEF Schedule, DependencyBlocked, Planned, Ready, Pending
  <2>2. ASSUME NEW n \in Nodes
       PROVE  /\ FirstAwait(n) \in {"merge", "done", "select"}
              /\ FirstAwait(n) = "done" => FirstState(n) = "BLOCKED"
    BY <1>a, <2>2, BoundAssumption DEF FirstAwait, FirstState, NodeTypes
  <2>3. ctl = "poll" /\ ctl' \in {"conclude", "wait"} /\ UNCHANGED <<crashed, cancelling>>
    BY DEF Schedule
  <2>4. ASSUME ctl' = "conclude", NEW n \in Nodes
       PROVE  state'[n] \in {"VALIDATED", "BLOCKED"}
    <3>1. Pending = {} /\ Ready = {}
      BY <2>4 DEF Schedule
    <3>2. \A m \in Nodes : state[m] \in {"PLANNED", "VALIDATED", "BLOCKED"}
      BY <1>a, <3>1, <2>3 DEF Settlement, Pending
    <3>3. Planned \subseteq DependencyBlocked
      BY <3>1, <3>2, NothingLeft
    <3>4. state'[n] = IF n \in DependencyBlocked THEN "BLOCKED" ELSE state[n]
      BY <3>1 DEF Schedule
    <3> QED
      BY <3>2, <3>3, <3>4 DEF Planned
  <2>5. \A n \in Nodes : drv'[n] = "cleanup" => state'[n] = "BLOCKED"
    BY <1>a, <2>1, <2>2 DEF Settlement
  <2>6. ASSUME NEW n \in Nodes
       PROVE  /\ drv'[n] = "none" => state'[n] \in {"PLANNED", "VALIDATED", "BLOCKED"}
              /\ drv'[n] = "done" /\ ~crashed'[n] => state'[n] \in {"VALIDATED", "BLOCKED"}
              /\ cancelling'[n] => state'[n] = "BLOCKED" /\ drv'[n] # "none"
    BY <1>a, <2>1, <2>2, <2>3 DEF Settlement
  <2> QED
    BY <2>3, <2>4, <2>5, <2>6 DEF Settlement
<1> QED
  BY <1>1, <1>2, <1>3, <1>4, <1>5, <1>6, <1>7, <1>8 DEF IInv, TypeOK

\* A new controller rebuilds from the log what the invariant says of the nodes.
LEMMA ResumeStep ==
    ASSUME IInv, Resume
    PROVE  IInv'
<1>a. NodeTypes /\ DriverTypes /\ ControllerTypes /\ DurableTypes /\ HistoryTypes /\
      Locals /\ Budget /\ Validation /\ Settlement
  BY DEF IInv, TypeOK
<1>1. NodeTypes'
  BY <1>a
     DEF NodeTypes, DurableTypes, NodeState, Resume, prior_validated, prior_attempts,
         ReaderStart
<1>2. DriverTypes'
  BY <1>a DEF DriverTypes, DriverPc, Resume, prior_validated, prior_attempts, ReaderStart
<1>3. ControllerTypes'
  BY <1>a DEF ControllerTypes, Resume, prior_validated, prior_attempts, ReaderStart
<1>4. DurableTypes'
  BY <1>a DEF DurableTypes, Resume, prior_validated, prior_attempts, ReaderStart, logVars
<1>5. HistoryTypes'
  BY <1>a DEF HistoryTypes, Resume, prior_validated, prior_attempts, ReaderStart
<1>6. Locals'
  BY <1>a DEF Locals, Resume, prior_validated, prior_attempts, ReaderStart
<1>7. Budget'
  BY <1>a
     DEF Budget, DurableTypes, Resume, prior_validated, prior_attempts, ReaderStart,
         logVars
<1>8. Validation'
  BY <1>a DEF Validation, Resume, prior_validated, prior_attempts, ReaderStart, logVars
<1>9. Settlement'
  BY <1>a DEF Settlement, Resume, prior_validated, prior_attempts, ReaderStart
<1> QED
  BY <1>1, <1>2, <1>3, <1>4, <1>5, <1>6, <1>7, <1>8, <1>9 DEF IInv, TypeOK

-----------------------------------------------------------------------------
(* The invariant. *)

\* A new run starts in the invariant.
LEMMA InitIInv == Init => IInv
<1> SUFFICES ASSUME Init PROVE IInv
  OBVIOUS
<1>1. NodeTypes
  BY DEF Init, NodeTypes, NodeState
<1>2. DriverTypes
  BY DEF Init, DriverTypes, DriverPc
<1>3. ControllerTypes
  BY DEF Init, ControllerTypes
<1>4. DurableTypes
  BY DEF Init, DurableTypes
<1>5. HistoryTypes
  BY DEF Init, HistoryTypes
<1>6. Locals
  BY DEF Init, Locals
<1>7. Budget
  BY BoundAssumption DEF Init, Budget
<1>8. Validation
  BY DEF Init, Validation
<1>9. Settlement
  BY DEF Init, Settlement
<1> QED
  BY <1>1, <1>2, <1>3, <1>4, <1>5, <1>6, <1>7, <1>8, <1>9 DEF IInv, TypeOK

\* A step that changes nothing keeps the invariant.
LEMMA StutterStep == ASSUME IInv, UNCHANGED vars PROVE IInv'
<1>1. (NodeTypes /\ DriverTypes /\ ControllerTypes /\ DurableTypes /\ HistoryTypes)'
  BY DEF IInv, TypeOK, NodeTypes, DriverTypes, ControllerTypes, DurableTypes, HistoryTypes,
         vars, nodeVars, drvVars, ctlVars, logVars, envVars, workVars
<1>2. (Locals /\ Budget /\ Validation /\ Settlement)'
  BY DEF IInv, Locals, Budget, Validation, Settlement, vars, nodeVars, drvVars, ctlVars,
         logVars, envVars, workVars
<1> QED
  BY <1>1, <1>2 DEF IInv, TypeOK

\* Every step of the runtime keeps the invariant.
LEMMA NextIInv == IInv /\ [Next]_vars => IInv'
<1> SUFFICES ASSUME IInv, [Next]_vars PROVE IInv'
  OBVIOUS
<1>1. ASSUME NEW n \in Nodes, DriverStep(n) PROVE IInv'
  BY <1>1, SelectStep, SelectWaitsStep, SelectNoneStep, CooldownOverStep, BindStep,
     ProofStep, AcquireSlotStep, LaunchStep, RejectLocallyStep, CleanupStep, PermitStep,
     WorkerFailsStep, WorkerSucceedsStep, EpochReadStep, ValidationPassesStep,
     ValidationFailsStep, AttemptFailedStep, InfraOverStep, BarrierMergeStep,
     BarrierVerifyStep, CancelDeliveredStep
     DEF DriverStep
<1>2. ASSUME NEW n \in Nodes, Crash(n) \/ CancelLost(n) PROVE IInv'
  BY <1>2, CrashStep, CancelLostStep
<1>3. ASSUME ControllerStep PROVE IInv'
  BY <1>3, WakeStep, WakeDeadlineStep, CancelRunStep, CancelNodeStep, RetryNodeStep,
     ScheduleStep, GatheredStep, DrainedStep, ConcludeStep, ReviewStep
     DEF ControllerStep
<1>4. ASSUME request_control \/ CooldownExpires \/ Resume PROVE IInv'
  BY <1>4, request_controlStep, CooldownExpiresStep, ResumeStep
<1>5. ASSUME Terminated \/ UNCHANGED vars PROVE IInv'
  BY <1>5, StutterStep DEF Terminated
<1> QED
  BY <1>1, <1>2, <1>3, <1>4, <1>5 DEF Next

\* The invariant holds in every state of every run.
THEOREM Invariance == Spec => []IInv
<1> QED
  BY InitIInv, NextIInv, PTL DEF Spec

-----------------------------------------------------------------------------
(* What follows from it. *)

\* Every variable keeps its type (TypeOK): what _drive records as tried, failed or
\* reserved is a route, and undoing a binding keeps the attempt number natural.
THEOREM TypeCorrect == Spec => []TypeOK
<1>1. IInv => TypeOK
  BY DEF IInv
<1> QED
  BY <1>1, Invariance, PTL

\* No node is sent more often than policy.max_attempts_per_node (SendBudget), through
\* retries of _drive, retry_node and any number of resumed controllers.
THEOREM SendsBounded == Spec => []SendBudget
<1>1. IInv => SendBudget
  <2> SUFFICES ASSUME IInv, NEW n \in Nodes PROVE sends[n] <= MaxAttempts
    BY DEF SendBudget
  <2>1. sends[n] \in Nat /\ logAttempt[n] \in Nat
    BY DEF IInv, TypeOK, HistoryTypes, DurableTypes
  <2>2. sends[n] <= logAttempt[n] /\ logAttempt[n] <= MaxAttempts
    BY DEF IInv, Budget
  <2> QED
    BY <2>1, <2>2, BoundAssumption
<1> QED
  BY <1>1, Invariance, PTL

\* A node has a driver, or is VALIDATED, only over VALIDATED dependencies
\* (DependencyBarrier): _ready, _propagate_blocks and prior_validated together.
THEOREM DependenciesFirst == Spec => []DependencyBarrier
<1>1. IInv => DependencyBarrier
  BY GraphAssumption DEF IInv, Validation, DependencyBarrier
<1> QED
  BY <1>1, Invariance, PTL

\* run concludes only when every node is VALIDATED or BLOCKED (SettledAtConclusion),
\* whatever crashed or was cancelled on the way.
THEOREM ConcludesSettled == Spec => []SettledAtConclusion
<1>1. IInv => SettledAtConclusion
  BY DEF IInv, Settlement, SettledAtConclusion
<1> QED
  BY <1>1, Invariance, PTL

\* Only Launch and RejectLocally take a driver from its worktree to a dispatch, and both
\* log a number above the log.
LEMMA DispatchStep ==
    ASSUME IInv, Next, NEW n \in Nodes, drv[n] = "base",
           drv'[n] \in {"permit", "running", "cleanup"}
    PROVE  logAttempt'[n] > logAttempt[n]
<1>1. /\ drv \in [Nodes -> DriverPc] /\ attempt[n] \in Nat /\ logAttempt \in [Nodes -> Nat]
      /\ logAttempt[n] < attempt[n]
  BY DEF IInv, TypeOK, NodeTypes, DriverTypes, DurableTypes, Budget
<1>2. CASE Launch(n) \/ RejectLocally(n)
  BY <1>1, <1>2 DEF Launch, RejectLocally
<1>3. ASSUME NEW m \in Nodes, m # n, Launch(m) \/ RejectLocally(m) PROVE FALSE
  BY <1>1, <1>3 DEF Launch, RejectLocally, Send
<1>4. ASSUME NEW m \in Nodes,
             Select(m)
             \/ SelectWaits(m)
             \/ SelectNone(m)
             \/ CooldownOver(m)
             \/ Cleanup(m)
      PROVE  FALSE
  BY <1>1, <1>4 DEF Select, SelectWaits, SelectNone, CooldownOver, Cleanup, Steps
<1>5. ASSUME NEW m \in Nodes, Bind(m) \/ Proof(m) \/ AcquireSlot(m) PROVE FALSE
  BY <1>1, <1>5 DEF Bind, Proof, AcquireSlot, Steps, RevokeSelection, BindRoute
<1>6. ASSUME NEW m \in Nodes,
             Permit(m)
             \/ ValidationPasses(m)
             \/ ValidationFails(m)
             \/ BarrierMerge(m)
             \/ BarrierVerify(m)
      PROVE  FALSE
  BY <1>1, <1>6
     DEF Permit, ValidationPasses, ValidationFails, BarrierMerge, BarrierVerify, Steps,
         Send
<1>7. ASSUME NEW m \in Nodes,
             WorkerFails(m) \/ WorkerSucceeds(m) \/ EpochRead(m)
      PROVE  FALSE
  BY <1>1, <1>7
     DEF WorkerFails, WorkerSucceeds, EpochRead, Steps, RecordFailure, Succeed, Raise
<1>8. ASSUME NEW m \in Nodes, AttemptFailed(m) \/ InfraOver(m) PROVE FALSE
  BY <1>1, <1>8 DEF AttemptFailed, InfraOver, Steps, LoopTop
<1>9. ASSUME NEW m \in Nodes, CancelDelivered(m) \/ Crash(m) \/ CancelLost(m) PROVE FALSE
  BY <1>1, <1>9 DEF CancelDelivered, Crash, CancelLost, Raise
<1>10. ASSUME ControllerStep PROVE FALSE
  <2>1. CASE Wake \/ WakeDeadline
    BY <1>1, <2>1 DEF Wake, WakeDeadline, Reap, ReapedDriver
  <2>2. CASE Schedule
    BY <1>1, <2>2 DEF Schedule, Ready, Pending
  <2>3. CASE CancelRun \/ CancelNode \/ RetryNode \/ Gathered \/ Drained \/ Conclude \/ Review
    BY <1>1, <2>3
       DEF CancelRun, CancelNode, RetryNode, Gathered, Drained, Conclude, Review, drvVars
  <2> QED
    BY <1>10, <2>1, <2>2, <2>3 DEF ControllerStep
<1>11. ASSUME request_control \/ CooldownExpires \/ Resume \/ Terminated PROVE FALSE
  BY <1>1, <1>11 DEF request_control, CooldownExpires, Resume, Terminated, vars, drvVars
<1> QED
  BY <1>2, <1>3, <1>4, <1>5, <1>6, <1>7, <1>8, <1>9, <1>10, <1>11 DEF Next, DriverStep

\* Attempt numbers are dispatched in increasing order across controller lives
\* (DispatchNumbersIncrease), so no worktree, lease or permit id is used again.
THEOREM NumbersIncrease == Spec => DispatchNumbersIncrease
<1>1. IInv /\ [Next]_vars =>
        [\A n \in Nodes : drv[n] = "base" /\ drv'[n] \in {"permit", "running", "cleanup"}
            => logAttempt'[n] > logAttempt[n]]_vars
  BY DispatchStep
<1> QED
  BY <1>1, Invariance, PTL DEF Spec, DispatchNumbersIncrease
=============================================================================
