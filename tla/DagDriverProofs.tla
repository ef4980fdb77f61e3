-------------------------- MODULE DagDriverProofs --------------------------
(***************************************************************************)
(* More proofs about DagRuntime, for every finite acyclic graph, every set *)
(* of routes and every bound: DriverOwnsState, LoadCoversSends and         *)
(* PublishedAfterWorkersStop.                                              *)
(*                                                                         *)
(* They rest on the invariant of DagRuntimeProofs and on one more, JInv,   *)
(* about what a driver and the controller leave to each other.  A driver   *)
(* touches its own node only (DriverFrame), so each conjunct of JInv needs *)
(* an argument for that node, and one for the controller.                  *)
(***************************************************************************)
EXTENDS DagRuntimeProofs

-----------------------------------------------------------------------------
(* The inductive invariant. *)

\* An outcome is published by the last steps of the controller, and only _conclude
\* over validated nodes leads to the review.
Published ==
    /\ finished # "none" <=> ctl \in {"drain", "done"}
    /\ ctl = "review" => AllValidated
    /\ finished = "CANCELLED" => ctl = "done" /\ Live = {}

\* A crashed task is one that ended; a poll finds no ended task, and no cancelled one
\* but those of nodes that an accepted control stopped.
Ended(n) ==
    /\ crashed[n] => drv[n] = "done" /\ state[n] # "VALIDATED"
    /\ ctl = "poll" => ~crashed[n] /\ drv[n] # "done"
    /\ ctl \in {"poll", "wait"} /\ cancelling[n] => n \in stopped

\* The node of a live driver is in the state the driver left it in, even when the
\* driver is being cancelled, unless a control stopped the node.
Owned(n) ==
    drv[n] \in DriverAwait /\ n \notin stopped => state[n] \in StateAt(drv[n])

\* Barriers are merged and never sent: they hold no reservation.
Merged(n) ==
    /\ drv[n] \in {"merge", "verify"} => n \in Barriers
    /\ n \in Barriers => drv[n] \in {"none", "merge", "verify", "done"} /\ inflight[n] = NoRoute

\* Which awaits hold a reservation, which hold none, and who may leave one behind: a
\* crash before the send, whose node _reap blocks.
Reserves(n) ==
    /\ drv[n] \in {"slot", "base", "permit", "running"} => inflight[n] = route[n]
    /\ drv[n] \in {"epoch", "validate", "infra"} => inflight[n] = NoRoute
    /\ n \notin stopped =>
          /\ drv[n] \in {"none", "select", "cooldown", "bind", "proof"} /\ ~LeftByCrash(n)
                => inflight[n] = NoRoute
          /\ ctl \in {"poll", "wait"} /\ drv[n] = "done"
                => \/ inflight[n] = NoRoute
                   \/ DriversCrash /\ (crashed[n] \/ state[n] = "BLOCKED")

Handover(n) == Ended(n) /\ Owned(n) /\ Merged(n) /\ Reserves(n)

\* The inductive invariant.
JInv == Published /\ \A n \in Nodes : Handover(n)

-----------------------------------------------------------------------------
(* What a driver can touch. *)

\* What node n is to the properties below.
View(n) == <<state[n], attempt[n], route[n], failures[n], hist[n], cancelled[n], drv[n],
             cancelling[n], crashed[n], inflight[n], salvage[n], sends[n], authors[n]>>

\* A step of a driver, or of what ends it, leaves every other node alone.
LEMMA DriverFrame ==
    ASSUME TypeOK, NEW n \in Nodes, DriverStep(n) \/ Crash(n) \/ CancelLost(n),
           NEW m \in Nodes, m # n
    PROVE  View(m)' = View(m) /\ (m \in logValidated' <=> m \in logValidated)
<1> USE DEF TypeOK, NodeTypes, DriverTypes, ControllerTypes, DurableTypes, HistoryTypes,
            nodeVars, drvVars, logVars, workVars, View
<1>1. CASE Select(n) \/ SelectWaits(n) \/ SelectNone(n) \/ CooldownOver(n) \/ Cleanup(n)
  BY <1>1 DEF Select, SelectWaits, SelectNone, CooldownOver, Cleanup
<1>2. CASE Bind(n) \/ Proof(n)
  BY <1>2 DEF Bind, Proof, RevokeSelection, BindRoute
<1>3. CASE AcquireSlot(n)
  BY <1>3 DEF AcquireSlot, RevokeSelection
<1>4. CASE Launch(n) \/ RejectLocally(n)
  BY <1>4 DEF Launch, RejectLocally, Send, Record
<1>5. CASE Permit(n)
  BY <1>5 DEF Permit, Send, Record
<1>6. CASE WorkerFails(n)
  BY <1>6 DEF WorkerFails, RecordFailure, Record, Raise
<1>7. CASE WorkerSucceeds(n)
  BY <1>7 DEF WorkerSucceeds, Succeed, Raise
<1>8. CASE EpochRead(n)
  BY <1>8 DEF EpochRead, Succeed, RecordFailure, Record, Raise
<1>9. CASE ValidationPasses(n) \/ ValidationFails(n)
  BY <1>9 DEF ValidationPasses, ValidationFails, Record
<1>10. CASE AttemptFailed(n)
  BY <1>10 DEF AttemptFailed, LoopTop, Salvage
<1>11. CASE InfraOver(n) \/ BarrierMerge(n) \/ BarrierVerify(n)
  BY <1>11 DEF InfraOver, BarrierMerge, BarrierVerify, LoopTop
<1>12. CASE CancelDelivered(n) \/ Crash(n) \/ CancelLost(n)
  BY <1>12 DEF CancelDelivered, Crash, CancelLost, Unwind, Raise
<1> QED
  BY <1>1, <1>2, <1>3, <1>4, <1>5, <1>6, <1>7, <1>8, <1>9, <1>10, <1>11, <1>12
     DEF DriverStep

\* Drivers step only while the controller waits, on a live task, and leave the
\* controller alone.
LEMMA DriverWaits ==
    ASSUME NEW n \in Nodes, DriverStep(n) \/ Crash(n) \/ CancelLost(n)
    PROVE  /\ ctl \in {"wait", "gather", "drain"} /\ drv[n] \in DriverAwait
           /\ UNCHANGED <<ctlVars, envVars, stopped>>
           /\ cancelling[n] => CancelDelivered(n) \/ CancelLost(n)
<1> USE DEF Steps, DriverAwait, ctlVars, envVars, workVars
<1>1. CASE Select(n) \/ SelectWaits(n) \/ SelectNone(n) \/ CooldownOver(n) \/ Cleanup(n)
  BY <1>1 DEF Select, SelectWaits, SelectNone, CooldownOver, Cleanup
<1>2. CASE Bind(n) \/ Proof(n) \/ AcquireSlot(n)
  BY <1>2 DEF Bind, Proof, AcquireSlot
<1>3. CASE Launch(n) \/ RejectLocally(n) \/ Permit(n)
  BY <1>3 DEF Launch, RejectLocally, Permit
<1>4. CASE WorkerFails(n) \/ WorkerSucceeds(n) \/ EpochRead(n)
  BY <1>4 DEF WorkerFails, WorkerSucceeds, EpochRead
<1>5. CASE ValidationPasses(n) \/ ValidationFails(n) \/ AttemptFailed(n) \/ InfraOver(n)
  BY <1>5 DEF ValidationPasses, ValidationFails, AttemptFailed, InfraOver
<1>6. CASE BarrierMerge(n) \/ BarrierVerify(n)
  BY <1>6 DEF BarrierMerge, BarrierVerify
<1>7. CASE CancelDelivered(n) \/ Crash(n) \/ CancelLost(n)
  BY <1>7 DEF CancelDelivered, Crash, CancelLost
<1> QED
  BY <1>1, <1>2, <1>3, <1>4, <1>5, <1>6, <1>7 DEF DriverStep

\* The states of StateAt, await by await.
LEMMA StatesAt ==
    /\ \A pc \in {"select", "cooldown", "bind", "proof", "slot"} : StateAt(pc) = {"PLANNED"}
    /\ StateAt("base") = {"ADMITTED"}
    /\ \A pc \in {"permit", "running", "epoch", "merge"} : StateAt(pc) = {"RUNNING"}
    /\ \A pc \in {"validate", "verify"} : StateAt(pc) = {"TERMINAL_SUCCESS"}
    /\ \A pc \in {"failing", "infra"} : StateAt(pc) = {"TERMINAL_FAILURE", "REJECTED"}
    /\ StateAt("cleanup") = {"BLOCKED"}
BY DEF StateAt

-----------------------------------------------------------------------------
(* A driver keeps the invariant of its own node. *)

\* Selection and binding: the reservation is made with the binding.
LEMMA BindingHandover ==
    ASSUME IInv, JInv, NEW n \in Nodes,
           \/ Select(n) \/ SelectWaits(n) \/ SelectNone(n) \/ CooldownOver(n)
           \/ Bind(n) \/ Proof(n)
    PROVE  Handover(n)'
<1>1. /\ state \in [Nodes -> NodeState] /\ drv \in [Nodes -> DriverPc]
      /\ inflight \in [Nodes -> Routes \cup {NoRoute}] /\ route \in [Nodes -> Routes \cup {NoRoute}]
      /\ Handover(n)
      /\ DriverStep(n)
  BY DEF IInv, TypeOK, NodeTypes, DriverTypes, ControllerTypes, JInv, DriverStep
<1>2. /\ ctl \in {"wait", "gather", "drain"} /\ ctl' = ctl /\ stopped' = stopped
      /\ drv[n] \in {"select", "cooldown", "bind", "proof"}
      /\ UNCHANGED <<crashed, failures, cancelling>>
  BY <1>1, DriverWaits DEF Select, SelectWaits, SelectNone, CooldownOver, Bind, Proof, Steps, ctlVars, nodeVars
<1>3. \/ /\ drv'[n] \in {"select", "cooldown", "bind", "proof"}
         /\ state'[n] = state[n] /\ inflight'[n] = inflight[n]
      \/ /\ drv'[n] = "done"
         /\ state'[n] = "BLOCKED" /\ inflight'[n] = inflight[n]
      \/ /\ drv'[n] = "slot"
         /\ state'[n] = state[n] /\ inflight'[n] = route'[n]
  <2>1. CASE Select(n) \/ SelectWaits(n) \/ SelectNone(n) \/ CooldownOver(n)
    BY <1>1, <2>1 DEF Select, SelectWaits, SelectNone, CooldownOver, nodeVars
  <2>2. CASE Bind(n) \/ Proof(n)
    BY <1>1, <2>2 DEF Bind, Proof, RevokeSelection, BindRoute
  <2> QED
    BY <2>1, <2>2
<1>4. Owned(n)'
  BY <1>1, <1>2, <1>3, StatesAt DEF Handover, Owned, DriverAwait
<1>5. Ended(n)' /\ Merged(n)'
  BY <1>1, <1>2, <1>3 DEF Handover, Ended, Merged
<1>6. Reserves(n)'
  BY <1>1, <1>2, <1>3 DEF Handover, Ended, Reserves, LeftByCrash
<1> QED
  BY <1>4, <1>5, <1>6 DEF Handover

\* A slot is taken or the binding undone; the attempt is dispatched or settled locally.
LEMMA DispatchHandover ==
    ASSUME IInv, JInv, NEW n \in Nodes,
           AcquireSlot(n) \/ Launch(n) \/ RejectLocally(n) \/ Cleanup(n) \/ Permit(n)
    PROVE  Handover(n)'
<1>1. /\ state \in [Nodes -> NodeState] /\ drv \in [Nodes -> DriverPc]
      /\ inflight \in [Nodes -> Routes \cup {NoRoute}] /\ route \in [Nodes -> Routes \cup {NoRoute}]
      /\ Handover(n)
      /\ DriverStep(n)
  BY DEF IInv, TypeOK, NodeTypes, DriverTypes, ControllerTypes, JInv, DriverStep
<1>2. /\ ctl \in {"wait", "gather", "drain"} /\ ctl' = ctl /\ stopped' = stopped
      /\ UNCHANGED <<crashed, cancelling>>
  BY <1>1, DriverWaits DEF AcquireSlot, Launch, RejectLocally, Cleanup, Permit, ctlVars
<1>3. \/ /\ drv[n] = "slot" /\ drv'[n] = "select"
         /\ state'[n] = state[n] /\ inflight'[n] = NoRoute
      \/ /\ drv[n] = "slot" /\ drv'[n] = "done"
         /\ state'[n] = "BLOCKED" /\ inflight'[n] = NoRoute
      \/ /\ drv[n] = "slot" /\ drv'[n] = "base"
         /\ state'[n] = "ADMITTED" /\ inflight'[n] = inflight[n] /\ route'[n] = route[n]
      \/ /\ drv[n] = "base" /\ drv'[n] \in {"permit", "running"}
         /\ state'[n] = "RUNNING" /\ inflight'[n] = route'[n]
      \/ /\ drv[n] = "base" /\ drv'[n] = "cleanup"
         /\ state'[n] = "BLOCKED"
      \/ /\ drv[n] = "cleanup" /\ drv'[n] = "done"
         /\ state'[n] = state[n] /\ inflight'[n] = NoRoute
      \/ /\ drv[n] = "permit" /\ drv'[n] = "running"
         /\ state'[n] = state[n] /\ inflight'[n] = inflight[n] /\ route'[n] = route[n]
      \/ /\ drv[n] = "permit" /\ drv'[n] = "failing"
         /\ state'[n] = "TERMINAL_FAILURE"
  <2>1. CASE AcquireSlot(n)
    BY <1>1, <2>1 DEF AcquireSlot, RevokeSelection, Steps
  <2>2. CASE Launch(n) \/ RejectLocally(n)
    BY <1>1, <2>2 DEF Launch, RejectLocally, Send, Steps
  <2>3. CASE Cleanup(n) \/ Permit(n)
    BY <1>1, <2>3 DEF Cleanup, Permit, Send, Steps, nodeVars
  <2> QED
    BY <2>1, <2>2, <2>3
<1>4. Owned(n)'
  BY <1>1, <1>2, <1>3, StatesAt DEF Handover, Owned, DriverAwait
<1>5. Ended(n)' /\ Merged(n)'
  BY <1>1, <1>2, <1>3 DEF Handover, Ended, Merged
<1>6. Reserves(n)'
  BY <1>1, <1>2, <1>3 DEF Handover, Reserves
<1> QED
  BY <1>4, <1>5, <1>6 DEF Handover

\* The worker answers, and its answer is validated.
LEMMA AnswerHandover ==
    ASSUME IInv, JInv, NEW n \in Nodes,
           \/ WorkerFails(n) \/ WorkerSucceeds(n) \/ EpochRead(n)
           \/ ValidationPasses(n) \/ ValidationFails(n)
    PROVE  Handover(n)'
<1>1. /\ state \in [Nodes -> NodeState] /\ drv \in [Nodes -> DriverPc]
      /\ inflight \in [Nodes -> Routes \cup {NoRoute}] /\ crashed \in [Nodes -> BOOLEAN]
      /\ Handover(n) /\ Validation /\ Budget
      /\ DriverStep(n)
  BY DEF IInv, TypeOK, NodeTypes, DriverTypes, ControllerTypes, JInv, DriverStep
<1>2. /\ ctl \in {"wait", "gather", "drain"} /\ ctl' = ctl /\ stopped' = stopped
      /\ UNCHANGED <<cancelling>>
  BY <1>1, DriverWaits
     DEF WorkerFails, WorkerSucceeds, EpochRead, ValidationPasses, ValidationFails, ctlVars
<1>3. \/ /\ drv[n] \in {"running", "epoch"} /\ drv'[n] = "failing"
         /\ state'[n] = "TERMINAL_FAILURE" /\ crashed'[n] = crashed[n]
      \/ /\ drv[n] \in {"running", "epoch"} /\ drv'[n] = "done"
         /\ state'[n] = state[n] /\ inflight'[n] = NoRoute
      \/ /\ drv[n] = "running" /\ drv'[n] = "epoch"
         /\ state'[n] = state[n] /\ inflight'[n] = NoRoute /\ crashed'[n] = crashed[n]
      \/ /\ drv[n] \in {"running", "epoch"} /\ drv'[n] = "validate"
         /\ state'[n] = "TERMINAL_SUCCESS" /\ inflight'[n] = NoRoute /\ crashed'[n] = crashed[n]
      \/ /\ drv[n] = "validate" /\ drv'[n] = "done"
         /\ state'[n] = "VALIDATED" /\ inflight'[n] = NoRoute /\ crashed'[n] = crashed[n]
      \/ /\ drv[n] = "validate" /\ drv'[n] = "failing"
         /\ state'[n] = "REJECTED" /\ crashed'[n] = crashed[n]
  <2>1. CASE WorkerFails(n)
    BY <1>1, <2>1 DEF WorkerFails, RecordFailure, Raise, Steps
  <2>2. CASE WorkerSucceeds(n)
    BY <1>1, <2>2 DEF WorkerSucceeds, Succeed, Raise, Steps
  <2>3. CASE EpochRead(n)
    BY <1>1, <2>3 DEF EpochRead, Succeed, RecordFailure, Raise, Steps, Handover, Reserves
  <2>4. CASE ValidationPasses(n)
    BY <1>1, <2>4 DEF ValidationPasses, Steps, Handover, Reserves
  <2>5. CASE ValidationFails(n)
    BY <1>1, <2>5 DEF ValidationFails, Steps, Handover, Reserves
  <2> QED
    BY <2>1, <2>2, <2>3, <2>4, <2>5
<1>4. Owned(n)'
  BY <1>1, <1>2, <1>3, StatesAt DEF Handover, Owned, DriverAwait
<1>5. Ended(n)' /\ Merged(n)'
  BY <1>1, <1>2, <1>3 DEF Handover, Ended, Merged, Validation, Budget
<1>6. Reserves(n)'
  BY <1>1, <1>2, <1>3 DEF Handover, Reserves
<1> QED
  BY <1>4, <1>5, <1>6 DEF Handover

\* After a failed attempt, and the driver of a barrier.
LEMMA LoopHandover ==
    ASSUME IInv, JInv, NEW n \in Nodes,
           AttemptFailed(n) \/ InfraOver(n) \/ BarrierMerge(n) \/ BarrierVerify(n)
    PROVE  Handover(n)'
<1>1. /\ state \in [Nodes -> NodeState] /\ drv \in [Nodes -> DriverPc]
      /\ inflight \in [Nodes -> Routes \cup {NoRoute}]
      /\ Handover(n)
      /\ DriverStep(n)
  BY DEF IInv, TypeOK, NodeTypes, DriverTypes, ControllerTypes, JInv, DriverStep
<1>2. /\ ctl \in {"wait", "gather", "drain"} /\ ctl' = ctl /\ stopped' = stopped
      /\ UNCHANGED <<cancelling, crashed>>
  BY <1>1, DriverWaits DEF AttemptFailed, InfraOver, BarrierMerge, BarrierVerify, ctlVars
<1>3. /\ inflight'[n] = NoRoute
      /\ \/ /\ drv[n] = "failing" /\ drv'[n] = "infra"
            /\ state'[n] = state[n]
         \/ /\ drv[n] \in {"failing", "infra"} /\ drv'[n] = "select"
            /\ state'[n] = "PLANNED"
         \/ /\ drv[n] \in {"failing", "infra", "merge", "verify"} /\ drv'[n] = "done"
            /\ state'[n] \in {"BLOCKED", "VALIDATED"}
         \/ /\ drv[n] = "merge" /\ drv'[n] = "verify"
            /\ state'[n] = "TERMINAL_SUCCESS"
  <2>1. CASE AttemptFailed(n)
    BY <1>1, <2>1 DEF AttemptFailed, LoopTop, Steps
  <2>2. CASE InfraOver(n)
    BY <1>1, <2>2 DEF InfraOver, LoopTop, Steps, Handover, Reserves
  <2>3. CASE BarrierMerge(n) \/ BarrierVerify(n)
    BY <1>1, <2>3 DEF BarrierMerge, BarrierVerify, Steps, Handover, Merged
  <2> QED
    BY <2>1, <2>2, <2>3
<1>4. Owned(n)'
  BY <1>1, <1>2, <1>3, StatesAt DEF Handover, Owned, DriverAwait
<1>5. Ended(n)' /\ Merged(n)'
  BY <1>1, <1>2, <1>3 DEF Handover, Ended, Merged
<1>6. Reserves(n)'
  BY <1>1, <1>2, <1>3 DEF Handover, Reserves
<1> QED
  BY <1>4, <1>5, <1>6 DEF Handover

\* A driver ends with an exception, is cancelled, or loses its cancellation.
LEMMA EndHandover ==
    ASSUME IInv, JInv, NEW n \in Nodes,
           CancelDelivered(n) \/ Crash(n) \/ CancelLost(n)
    PROVE  Handover(n)'
<1>1. /\ drv \in [Nodes -> DriverPc] /\ crashed \in [Nodes -> BOOLEAN]
      /\ cancelling \in [Nodes -> BOOLEAN]
      /\ inflight \in [Nodes -> Routes \cup {NoRoute}]
      /\ Handover(n) /\ Validation /\ Budget
  BY DEF IInv, TypeOK, NodeTypes, DriverTypes, ControllerTypes, JInv
<1>2. /\ ctl \in {"wait", "gather", "drain"} /\ ctl' = ctl /\ stopped' = stopped
      /\ drv[n] \in DriverAwait
      /\ UNCHANGED <<state, route, failures>>
  BY DriverWaits DEF DriverStep, CancelDelivered, Crash, CancelLost, ctlVars, nodeVars
<1>3. state[n] # "VALIDATED"
  BY <1>1, <1>2 DEF Validation, Budget, DriverAwait
<1>4. \/ /\ drv[n] = "running" /\ drv'[n] = drv[n] /\ inflight'[n] = inflight[n]
         /\ crashed'[n] = crashed[n] /\ ~cancelling'[n]
      \/ /\ drv'[n] = "done" /\ crashed'[n] = crashed[n]
         /\ cancelling[n] /\ cancelling'[n] = cancelling[n] /\ (n \in Barriers => inflight'[n] = NoRoute)
      \/ /\ drv'[n] = "done" /\ DriversCrash /\ crashed'[n]
         /\ cancelling'[n] = cancelling[n] /\ (n \in Barriers => inflight'[n] = NoRoute)
  BY <1>1 DEF CancelDelivered, Crash, CancelLost, Raise, Unwind, nodeVars, Handover, Merged
<1>5. Ended(n)' /\ Merged(n)' /\ Owned(n)'
  BY <1>1, <1>2, <1>3, <1>4 DEF Handover, Ended, Merged, Owned, DriverAwait
<1>6. Reserves(n)'
  BY <1>1, <1>2, <1>4 DEF Handover, Reserves, Ended
<1> QED
  BY <1>5, <1>6 DEF Handover

\* Every step of a driver.
LEMMA DriverHandover ==
    ASSUME IInv, JInv, NEW n \in Nodes, DriverStep(n) \/ Crash(n) \/ CancelLost(n)
    PROVE  JInv'
<1>1. Handover(n)'
  BY BindingHandover, DispatchHandover, AnswerHandover, LoopHandover, EndHandover
     DEF DriverStep
<1>2. ctl' = ctl /\ stopped' = stopped /\ finished' = finished /\ ctl \in {"wait", "gather", "drain"}
  BY DriverWaits DEF ctlVars
<1>3. ASSUME NEW m \in Nodes, m # n  PROVE Handover(m)'
  <2>1. View(m)' = View(m)
    BY <1>3, DriverFrame DEF IInv
  <2>2. /\ state'[m] = state[m] /\ drv'[m] = drv[m] /\ route'[m] = route[m]
        /\ failures'[m] = failures[m] /\ cancelling'[m] = cancelling[m]
        /\ crashed'[m] = crashed[m] /\ inflight'[m] = inflight[m]
    BY <2>1 DEF View
  <2>3. Handover(m)
    BY DEF JInv
  <2> QED
    BY <1>2, <2>2, <2>3
       DEF Handover, Ended, Owned, Merged, Reserves, LeftByCrash
<1>4. Published'
  BY <1>2 DEF JInv, Published
<1> QED
  BY <1>1, <1>3, <1>4 DEF JInv

-----------------------------------------------------------------------------
(* The controller keeps it too. *)

\* asyncio.wait returns: an ended task is gone, a crashed one blocks its node.
LEMMA ReapHandover ==
    ASSUME IInv, JInv, Wake \/ WakeDeadline
    PROVE  JInv'
<1>1. /\ ctl = "wait" /\ ctl' \in {"poll", "drain"} /\ stopped' = stopped
      /\ ctl' = "drain" => finished' = "BLOCKED"
      /\ ctl' = "poll" => finished' = finished
      /\ UNCHANGED <<route, failures, inflight>>
  BY DEF Wake, WakeDeadline, workVars
<1>2. ASSUME NEW n \in Nodes  PROVE Handover(n)'
  <2>1. Handover(n) /\ drv[n] \in DriverPc
    BY DEF JInv, IInv, TypeOK, DriverTypes
  <2>2. /\ drv'[n] = IF drv[n] = "done" THEN "none" ELSE drv[n]
        /\ state'[n] = IF drv[n] = "done" /\ crashed[n] /\ state[n] \notin {"VALIDATED", "BLOCKED"}
                         THEN "BLOCKED" ELSE state[n]
        /\ ~crashed'[n]
        /\ ctl' = "poll" => (cancelling'[n] => cancelling[n])
    BY DEF Wake, WakeDeadline, Reap, ReapedState, ReapedDriver
  <2>3. Ended(n)' /\ Owned(n)' /\ Merged(n)'
    BY <1>1, <2>1, <2>2 DEF Handover, Ended, Owned, Merged, DriverAwait
  <2>4. Reserves(n)'
    BY <1>1, <2>1, <2>2 DEF Handover, Ended, Reserves, LeftByCrash
  <2> QED
    BY <2>3, <2>4 DEF Handover
<1>3. Published'
  BY <1>1 DEF JInv, Published
<1> QED
  BY <1>2, <1>3 DEF JInv

\* An operator's request is read and handled.
LEMMA ControlHandover ==
    ASSUME IInv, JInv, CancelRun \/ CancelNode \/ RetryNode
    PROVE  JInv'
<1>1. /\ ctl = "poll" /\ ctl' \in {"poll", "gather"} /\ finished' = finished
      /\ UNCHANGED <<drv, crashed, route, failures, inflight>>
  BY DEF CancelRun, CancelNode, RetryNode, Read, drvVars
<1>2. ASSUME NEW n \in Nodes  PROVE Handover(n)'
  <2>1. Handover(n) /\ state \in [Nodes -> NodeState] /\ cancelling \in [Nodes -> BOOLEAN]
    BY DEF JInv, IInv, TypeOK, NodeTypes, DriverTypes
  <2>2. stopped \subseteq stopped'
    BY DEF CancelRun, CancelNode, RetryNode, workVars
  <2>3. \/ n \in stopped' /\ state'[n] \in {"BLOCKED", "TERMINAL_FAILURE"}
        \/ state'[n] = state[n] /\ (ctl' = "gather" \/ cancelling'[n] = cancelling[n])
        \/ /\ cancelling'[n] = cancelling[n] /\ drv[n] = "none" /\ failures[n] # <<>>
           /\ state[n] \in {"BLOCKED", "TERMINAL_FAILURE"} /\ state'[n] = "PLANNED"
    <3>1. CASE CancelRun
      BY <2>1, <3>1 DEF CancelRun
    <3>2. CASE CancelNode
      BY <2>1, <3>2, ReadRequest DEF CancelNode, IInv, TypeOK
    <3>3. CASE RetryNode
      BY <2>1, <3>3, ReadRequest DEF RetryNode, Retryable, IInv, TypeOK, drvVars
    <3> QED
      BY <3>1, <3>2, <3>3
  <2>4. Ended(n)' /\ Owned(n)' /\ Merged(n)'
    BY <1>1, <2>1, <2>2, <2>3 DEF Handover, Ended, Owned, Merged, DriverAwait
  <2>5. Reserves(n)'
    BY <1>1, <2>1, <2>2, <2>3 DEF Handover, Ended, Reserves, LeftByCrash
  <2> QED
    BY <2>4, <2>5 DEF Handover
<1>3. Published'
  BY <1>1 DEF JInv, Published
<1> QED
  BY <1>2, <1>3 DEF JInv

\* _propagate_blocks does not touch a node whose dependencies are all validated.
LEMMA NotBlocked ==
    ASSUME NEW n \in Nodes, \A d \in Deps[n] : state[d] = "VALIDATED"
    PROVE  n \notin DependencyBlocked
<1>1. SUFFICES ASSUME n \in DependencyBlocked  PROVE FALSE
  OBVIOUS
<1> DEFINE S == Planned \ {n}
<1>2. S \in SUBSET Planned /\ n \notin S
  OBVIOUS
<1>3. ASSUME NEW m \in Planned, NEW d \in Deps[m], state[d] = "BLOCKED" \/ d \in S
      PROVE  m \in S
  BY <1>3 DEF Planned
<1>4. n \in S
  BY <1>1, <1>2, <1>3 DEF DependencyBlocked
<1> QED
  BY <1>2, <1>4

\* What Schedule does to a node: start its driver, block it, or leave it alone.
LEMMA ScheduleEffect ==
    ASSUME IInv, Schedule, NEW n \in Nodes
    PROVE  \/ /\ state[n] = "PLANNED" /\ drv[n] = "none"
              /\ state'[n] = FirstState(n) /\ drv'[n] = FirstAwait(n)
           \/ /\ state[n] = "PLANNED" /\ drv[n] = "none"
              /\ state'[n] = "BLOCKED" /\ drv'[n] = "none"
           \/ state'[n] = state[n] /\ drv'[n] = drv[n]
<1>1. CASE n \in Ready
  <2>1. n \notin DependencyBlocked
    BY <1>1, NotBlocked DEF Ready
  <2> QED
    BY <1>1, <2>1 DEF Schedule, Ready, Planned, Pending
<1>2. CASE n \notin Ready /\ n \in DependencyBlocked
  <2>1. drv[n] = "none"
    <3>1. SUFFICES ASSUME drv[n] # "none"  PROVE n \notin DependencyBlocked
      BY <1>2
    <3>2. \A d \in Deps[n] : state[d] = "VALIDATED"
      BY <3>1, GraphAssumption DEF IInv, Validation
    <3> QED
      BY <3>2, NotBlocked
  <2> QED
    BY <1>2, <2>1 DEF Schedule, DependencyBlocked, Planned
<1>3. CASE n \notin Ready /\ n \notin DependencyBlocked
  BY <1>3 DEF Schedule
<1> QED
  BY <1>1, <1>2, <1>3

\* The first await of a driver and the state it finds there.
LEMMA FirstSteps ==
    ASSUME NodeTypes, NEW n \in Nodes
    PROVE  \/ n \in Barriers /\ FirstAwait(n) = "merge" /\ FirstState(n) = "RUNNING"
           \/ n \notin Barriers /\ FirstAwait(n) = "done" /\ FirstState(n) = "BLOCKED"
           \/ n \notin Barriers /\ FirstAwait(n) = "select" /\ FirstState(n) = "PLANNED"
BY BoundAssumption DEF NodeTypes, FirstAwait, FirstState

\* Drivers are started for the ready nodes.
LEMMA ScheduleHandover ==
    ASSUME IInv, JInv, Schedule
    PROVE  JInv'
<1>1. /\ ctl = "poll" /\ ctl' \in {"wait", "conclude"} /\ finished' = finished /\ stopped' = stopped
      /\ UNCHANGED <<cancelling, crashed, route, failures, inflight>>
  BY DEF Schedule, workVars
<1>2. ASSUME NEW n \in Nodes  PROVE Handover(n)'
  <2>1. Handover(n)
    BY DEF JInv
  <2>2. \/ /\ state[n] = "PLANNED" /\ drv[n] = "none"
           /\ \/ n \in Barriers /\ drv'[n] = "merge" /\ state'[n] = "RUNNING"
              \/ n \notin Barriers /\ drv'[n] = "done" /\ state'[n] = "BLOCKED"
              \/ n \notin Barriers /\ drv'[n] = "select" /\ state'[n] = "PLANNED"
              \/ drv'[n] = "none" /\ state'[n] = "BLOCKED"
        \/ state'[n] = state[n] /\ drv'[n] = drv[n]
    BY ScheduleEffect, FirstSteps DEF IInv, TypeOK
  <2>3. Owned(n)'
    BY <1>1, <2>1, <2>2, StatesAt DEF Handover, Owned, DriverAwait
  <2>4. Ended(n)' /\ Merged(n)'
    BY <1>1, <2>1, <2>2 DEF Handover, Ended, Merged
  <2>5. Reserves(n)'
    BY <1>1, <2>1, <2>2 DEF Handover, Ended, Reserves, LeftByCrash
  <2> QED
    BY <2>3, <2>4, <2>5 DEF Handover
<1>3. Published'
  BY <1>1 DEF JInv, Published
<1> QED
  BY <1>2, <1>3 DEF JInv

\* The run is concluded, reviewed and published.
LEMMA ConclusionHandover ==
    ASSUME IInv, JInv, Gathered \/ Drained \/ Conclude \/ Review
    PROVE  JInv'
<1>1. /\ ctl \notin {"wait", "poll"} /\ ctl' \notin {"wait", "poll"} /\ stopped' = stopped
      /\ UNCHANGED <<nodeVars, drvVars, inflight>>
  BY DEF Gathered, Drained, Conclude, Review, workVars
<1>2. ASSUME NEW n \in Nodes  PROVE Handover(n)'
  <2>1. Handover(n)
    BY DEF JInv
  <2> QED
    BY <1>1, <2>1 DEF Handover, Ended, Owned, Merged, Reserves, LeftByCrash, nodeVars, drvVars
<1>3. Published'
  BY <1>1 DEF JInv, Published, Gathered, Drained, Conclude, Review, Live, AllValidated,
              nodeVars, drvVars
<1> QED
  BY <1>2, <1>3 DEF JInv

\* A new life starts without drivers, crashes and reservations.
LEMMA ResumeHandover ==
    ASSUME IInv, JInv, Resume
    PROVE  JInv'
<1>1. /\ ctl' = "poll" /\ finished' = "none"
      /\ \A n \in Nodes : /\ drv'[n] = "none" /\ ~crashed'[n] /\ ~cancelling'[n]
                           /\ inflight'[n] = NoRoute
  BY DEF Resume
<1>2. Published'
  BY <1>1 DEF Published
<1>3. \A n \in Nodes : Handover(n)'
  BY <1>1 DEF Handover, Ended, Owned, Merged, Reserves, DriverAwait
<1> QED
  BY <1>2, <1>3 DEF JInv

\* What changes neither the nodes, their drivers nor the controller.
LEMMA IdleHandover ==
    ASSUME JInv, request_control \/ CooldownExpires \/ Terminated \/ UNCHANGED vars
    PROVE  JInv'
<1>1. UNCHANGED <<nodeVars, drvVars, ctlVars, inflight, stopped>>
  BY DEF request_control, CooldownExpires, Terminated, vars, workVars
<1> QED
  BY <1>1 DEF JInv, Published, Handover, Ended, Owned, Merged, Reserves, LeftByCrash,
              AllValidated, Live, nodeVars, drvVars, ctlVars

\* The invariant holds in every state of every run.
THEOREM HandoverHolds == Spec => []JInv
<1>1. Init => JInv
  BY DEF Init, JInv, Published, Handover, Ended, Owned, Merged, Reserves, DriverAwait
<1>2. IInv /\ JInv /\ [Next]_vars => JInv'
  BY DriverHandover, ReapHandover, ControlHandover, ScheduleHandover, ConclusionHandover,
     ResumeHandover, IdleHandover
     DEF Next, ControllerStep
<1> QED
  BY <1>1, <1>2, Invariance, PTL DEF Spec

-----------------------------------------------------------------------------
(* What follows from it. *)

\* The control handlers never change a node under a driver that may still step
\* (DriverOwnsState): check_transition raises in no driver of a node that no control
\* stopped.
THEOREM DriversOwnState == Spec => []DriverOwnsState
<1>1. JInv => DriverOwnsState
  BY DEF JInv, Handover, Owned, DriverOwnsState, Live
<1> QED
  BY <1>1, HandoverHolds, PTL

\* route_load counts every route from its selection to its worker's answer, and no
\* reservation outlives its driver but for the cases named (LoadCoversSends).
THEOREM LoadCounted == Spec => []LoadCoversSends
<1>1. JInv => LoadCoversSends
  BY DEF JInv, Handover, Reserves, LoadCoversSends
<1> QED
  BY <1>1, HandoverHolds, PTL

\* A cancelled run is published after its last driver has ended
\* (PublishedAfterWorkersStop), and no driver starts or moves afterwards.
THEOREM WorkersStopFirst == Spec => []PublishedAfterWorkersStop
<1>1. JInv => PublishedAfterWorkersStop
  BY DEF JInv, Published, PublishedAfterWorkersStop
<1> QED
  BY <1>1, HandoverHolds, PTL
=============================================================================
