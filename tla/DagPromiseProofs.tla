-------------------------- MODULE DagPromiseProofs --------------------------
(***************************************************************************)
(* What a run promises to its operator and its owner, proved for every     *)
(* graph, every set of routes and every bound: CancelledNotReplaced,       *)
(* ReviewerIndependent and ImplementsGoalRun, each where it holds.         *)
(*                                                                         *)
(*   - CancelledNotReplaced and ImplementsGoalRun need every cancelled     *)
(*     send to raise (~CancelSwallowed): a send that returns after its     *)
(*     cancellation lets the driver go on.                                 *)
(*   - ReviewerIndependent holds in the first life of a run: a resumed     *)
(*     controller does not know who wrote the work it finds.               *)
(***************************************************************************)
EXTENDS DagDriverProofs

-----------------------------------------------------------------------------
(* Cancellation. *)

\* The requests that stop node n.
Stops(req, n) == req.kind = "cancel_run" \/ (req.kind = "cancel_node" /\ req.node = n)

\* A stopped node in the controller life that stopped it: its driver, if any, can
\* only end, and an operator's retry is refused.
Halted(n) ==
    /\ cancelled[n] /\ ~crashed[n]
    /\ state[n] \in {"BLOCKED", "TERMINAL_FAILURE"}
    /\ drv[n] \in DriverAwait => cancelling[n]

\* A stopped node in a later life, before the request that stopped it is read again.
Unread(n) ==
    /\ ctl = "poll" /\ drv[n] = "none" /\ state[n] = "PLANNED"
    /\ \E i \in offset + 1 .. Len(controls) : Stops(controls[i], n)

\* A stopped node was not validated, its request is in the control file, and it is
\* halted or about to be.
StaysStopped(n) ==
    /\ n \notin logValidated
    /\ \E i \in 1 .. Len(controls) : Stops(controls[i], n)
    /\ Halted(n) \/ Unread(n)

\* A controller that gathers or drains has cancelled every task.
AllCancelled == ctl \in {"gather", "drain"} => \A n \in Live : cancelling[n]

\* The inductive invariant, where a cancelled send raises.
Cancellations == AllCancelled /\ \A n \in stopped : StaysStopped(n)

\* A driver of a stopped node can only end.
LEMMA DriverStopped ==
    ASSUME IInv, Cancellations, ~CancelSwallowed,
           NEW n \in Nodes, DriverStep(n) \/ Crash(n) \/ CancelLost(n)
    PROVE  Cancellations'
<1>1. /\ ctl \in {"wait", "gather", "drain"} /\ drv[n] \in DriverAwait
      /\ ctl' = ctl /\ controls' = controls /\ stopped' = stopped
      /\ cancelling[n] => CancelDelivered(n)
  BY DriverWaits DEF ctlVars, envVars, CancelLost
<1>2. ASSUME CancelDelivered(n)
      PROVE  /\ drv'[n] = "done" /\ UNCHANGED <<logValidated, cancelled, crashed, state, cancelling>>
  BY <1>2 DEF CancelDelivered, IInv, TypeOK, DriverTypes, nodeVars, logVars
<1>3. ASSUME NEW m \in Nodes, m # n
      PROVE  /\ drv'[m] = drv[m] /\ cancelled'[m] = cancelled[m] /\ crashed'[m] = crashed[m]
             /\ state'[m] = state[m] /\ cancelling'[m] = cancelling[m]
             /\ m \in logValidated' <=> m \in logValidated
  BY <1>3, DriverFrame DEF IInv, View
<1>4. AllCancelled'
  BY <1>1, <1>2, <1>3 DEF Cancellations, AllCancelled, Live, DriverAwait
<1>5. ASSUME NEW m \in stopped  PROVE StaysStopped(m)'
  <2>1. m \in Nodes /\ StaysStopped(m) /\ Halted(m)
    BY <1>1 DEF Cancellations, StaysStopped, Unread, IInv, TypeOK, HistoryTypes
  <2>2. CASE m = n
    BY <1>1, <1>2, <2>1, <2>2 DEF StaysStopped, Halted, DriverAwait
  <2>3. CASE m # n
    BY <1>1, <1>3, <2>1, <2>3 DEF StaysStopped, Halted
  <2> QED
    BY <2>2, <2>3
<1> QED
  BY <1>1, <1>4, <1>5 DEF Cancellations

\* The handlers of cancel_run, cancel_node and retry_node.
LEMMA ControlStopped ==
    ASSUME IInv, JInv, Cancellations, CancelRun \/ CancelNode \/ RetryNode
    PROVE  Cancellations'
<1>1. /\ ctl = "poll" /\ offset \in Nat /\ controls \in Seq(Requests)
      /\ offset < Len(controls) /\ offset' = offset + 1
      /\ UNCHANGED <<drv, crashed, controls, logValidated>>
  BY DEF CancelRun, CancelNode, RetryNode, Read, drvVars, envVars, logVars,
         IInv, TypeOK, ControllerTypes, DurableTypes
<1>2. \A n \in Nodes : ~crashed[n]
  BY <1>1 DEF JInv, Handover, Ended
<1> DEFINE req == controls[offset + 1]
<1>3. offset + 1 \in 1 .. Len(controls)
  BY <1>1
<1>4. ASSUME NEW n \in Nodes, Unread(n), ctl' = "poll", state'[n] = state[n], ~Stops(req, n)
      PROVE  Unread(n)'
  <2>1. PICK i \in offset + 1 .. Len(controls) : Stops(controls[i], n)
    BY <1>4 DEF Unread
  <2>2. i \in offset' + 1 .. Len(controls')
    BY <1>1, <1>4, <2>1
  <2>3. Stops(controls'[i], n)
    BY <1>1, <2>1
  <2> QED
    BY <1>1, <1>4, <2>2, <2>3 DEF Unread, Stops
<1>5. stopped \subseteq Nodes /\ stopped' \subseteq Nodes
  BY ReadRequest DEF IInv, TypeOK, HistoryTypes, CancelRun, CancelNode, RetryNode, workVars
<1>6. CASE CancelRun
  <2>1. ASSUME NEW n \in stopped'  PROVE StaysStopped(n)'
    <3>1. n \in Nodes /\ Stops(req, n) /\ (n \in stopped \/ state[n] \in ActiveStates)
      BY <1>5, <1>6 DEF CancelRun, Read, Stops
    <3>2. n \notin logValidated
      BY <3>1 DEF Cancellations, StaysStopped, IInv, Validation, ActiveStates
    <3>3. \E i \in 1 .. Len(controls') : Stops(controls'[i], n)
      BY <1>1, <1>3, <3>1
    <3>4. /\ state[n] \in ActiveStates => state'[n] \in {"BLOCKED", "TERMINAL_FAILURE"} /\ cancelled'[n]
          /\ state[n] \notin ActiveStates => state'[n] = state[n] /\ cancelled'[n] = cancelled[n]
          /\ cancelling'[n] <=> drv[n] \in DriverAwait
      BY <1>6, <3>1 DEF CancelRun, IInv, TypeOK, NodeTypes
    <3>5. state[n] \notin ActiveStates => cancelled[n] /\ state[n] \in {"BLOCKED", "TERMINAL_FAILURE"}
      BY <3>1 DEF Cancellations, StaysStopped, Halted, Unread, ActiveStates
    <3>6. Halted(n)'
      BY <1>1, <1>2, <3>1, <3>4, <3>5 DEF Halted
    <3> QED
      BY <1>1, <3>2, <3>3, <3>6 DEF StaysStopped
  <2>2. AllCancelled'
    BY <1>1, <1>6 DEF CancelRun, AllCancelled, Live
  <2> QED
    BY <2>1, <2>2 DEF Cancellations
<1>7. CASE CancelNode
  <2>0. req.kind = "cancel_node" /\ req.node \in Nodes /\ ctl' = "poll"
    BY <1>1, <1>7, ReadRequest DEF CancelNode, Read, IInv, TypeOK
  <2>1. ASSUME NEW n \in stopped'  PROVE StaysStopped(n)'
    <3>1. n \in Nodes /\ (n \in stopped \/ (n = req.node /\ state[n] \in ActiveStates))
      BY <1>5, <1>7 DEF CancelNode
    <3>2. n \notin logValidated
      BY <3>1 DEF Cancellations, StaysStopped, IInv, Validation, ActiveStates
    <3>3. \E i \in 1 .. Len(controls') : Stops(controls'[i], n)
      <4>1. CASE n \in stopped
        BY <1>1, <4>1 DEF Cancellations, StaysStopped
      <4>2. CASE n = req.node
        BY <1>1, <1>3, <2>0, <4>2 DEF Stops
      <4> QED
        BY <3>1, <4>1, <4>2
    <3>4. CASE n = req.node /\ state[n] \in ActiveStates
      <4>0. /\ state' = [state EXCEPT ![n] = "BLOCKED"]
            /\ cancelled' = [cancelled EXCEPT ![n] = TRUE]
            /\ cancelling' = [cancelling EXCEPT ![n] = drv[n] # "none"]
        BY <1>7, <3>4 DEF CancelNode
      <4>1. /\ state'[n] = "BLOCKED" /\ cancelled'[n]
            /\ drv[n] \in DriverAwait => cancelling'[n]
        BY <3>1, <4>0 DEF IInv, TypeOK, NodeTypes, DriverTypes, DriverAwait
      <4> QED
        BY <1>1, <1>2, <3>1, <3>2, <3>3, <4>1 DEF StaysStopped, Halted
    <3>5. CASE ~(n = req.node /\ state[n] \in ActiveStates)
      <4>1. state'[n] = state[n] /\ cancelled'[n] = cancelled[n] /\ cancelling'[n] = cancelling[n]
        BY <1>7, <3>1, <3>5 DEF CancelNode, IInv, TypeOK, NodeTypes, DriverTypes
      <4>2. Halted(n) \/ Unread(n)
        BY <3>1, <3>5 DEF Cancellations, StaysStopped
      <4>3. Halted(n) => Halted(n)'
        BY <1>1, <4>1 DEF Halted
      <4>4. Unread(n) => Unread(n)'
        BY <1>4, <2>0, <3>1, <3>5, <4>1 DEF Unread, Stops, ActiveStates
      <4> QED
        BY <1>1, <3>2, <3>3, <4>2, <4>3, <4>4 DEF StaysStopped
    <3> QED
      BY <3>4, <3>5
  <2>2. AllCancelled'
    BY <2>0 DEF AllCancelled
  <2> QED
    BY <2>1, <2>2 DEF Cancellations
<1>8. CASE RetryNode
  <2>0. req.kind = "retry_node" /\ req.node \in Nodes /\ ctl' = "poll" /\ stopped' = stopped
        /\ UNCHANGED <<cancelled, cancelling>>
    BY <1>1, <1>8, ReadRequest DEF RetryNode, Read, IInv, TypeOK, workVars, drvVars
  <2>1. ASSUME NEW n \in stopped  PROVE StaysStopped(n)'
    <3>1. n \in Nodes /\ StaysStopped(n)
      BY <1>5 DEF Cancellations
    <3>2. ~Retryable(n)
      BY <3>1 DEF StaysStopped, Halted, Unread, Retryable
    <3>3. state'[n] = state[n]
      BY <1>8, <2>0, <3>1, <3>2 DEF RetryNode, IInv, TypeOK, NodeTypes
    <3>4. Unread(n) => Unread(n)'
      BY <1>4, <2>0, <3>1, <3>3 DEF Stops
    <3>5. Halted(n) => Halted(n)'
      BY <1>1, <2>0, <3>3 DEF Halted
    <3> QED
      BY <1>1, <3>1, <3>4, <3>5 DEF StaysStopped
  <2>2. AllCancelled'
    BY <2>0 DEF AllCancelled
  <2> QED
    BY <2>0, <2>1, <2>2 DEF Cancellations
<1> QED
  BY <1>6, <1>7, <1>8

\* The controller reaps, schedules and concludes: a stopped node stays as it is.
LEMMA ControllerStopped ==
    ASSUME IInv, Cancellations,
           Wake \/ WakeDeadline \/ Schedule \/ Gathered \/ Drained \/ Conclude \/ Review
    PROVE  Cancellations'
<1>1. UNCHANGED <<controls, logValidated, stopped>> /\ stopped \subseteq Nodes
  BY DEF Wake, WakeDeadline, Schedule, Gathered, Drained, Conclude, Review,
         envVars, logVars, workVars, IInv, TypeOK, HistoryTypes
<1>r. ASSUME Wake \/ WakeDeadline, NEW n \in Nodes
      PROVE  /\ drv'[n] \in {drv[n], "none"} /\ (~crashed[n] => state'[n] = state[n])
             /\ cancelled[n] /\ ~crashed[n] => cancelled'[n]
             /\ ~crashed'[n]
             /\ Wake => (cancelling'[n] <=> cancelling[n] /\ drv[n] # "done")
             /\ WakeDeadline => (cancelling'[n] <=> drv[n] \in DriverAwait)
  BY <1>r DEF Wake, WakeDeadline, Reap, ReapedState, ReapedDriver
<1>2. AllCancelled'
  <2>1. ctl' \in {"gather", "drain"} => WakeDeadline
    BY DEF Wake, Schedule, Gathered, Drained, Conclude, Review
  <2> QED
    BY <1>r, <2>1 DEF AllCancelled, Live, DriverAwait
<1>3. ASSUME NEW n \in stopped  PROVE Halted(n) /\ StaysStopped(n)
  <2>1. ctl = "poll" => offset = Len(controls)
    BY DEF Wake, WakeDeadline, Schedule, Gathered, Drained, Conclude, Review
  <2>2. ~Unread(n)
    BY <2>1 DEF Unread, IInv, TypeOK, ControllerTypes
  <2> QED
    BY <1>3, <2>2 DEF Cancellations, StaysStopped
<1>4. ASSUME NEW n \in stopped  PROVE Halted(n)'
  <2>1. CASE Wake \/ WakeDeadline
    BY <1>1, <1>3, <1>r, <2>1 DEF Halted, DriverAwait
  <2>2. CASE Schedule
    <3>1. state'[n] = state[n] /\ drv'[n] = drv[n]
      BY <1>1, <1>3, <2>2, ScheduleEffect DEF Halted
    <3> QED
      BY <1>3, <2>2, <3>1 DEF Schedule, Halted
  <2>3. CASE Gathered \/ Drained \/ Conclude \/ Review
    BY <1>3, <2>3 DEF Gathered, Drained, Conclude, Review, Halted, nodeVars, drvVars
  <2> QED
    BY <2>1, <2>2, <2>3
<1> QED
  BY <1>1, <1>2, <1>3, <1>4 DEF Cancellations, StaysStopped

\* A new life reads the control file from its beginning; requests are only appended.
LEMMA FileStopped ==
    ASSUME IInv, Cancellations,
           Resume \/ request_control \/ CooldownExpires \/ Terminated \/ UNCHANGED vars
    PROVE  Cancellations'
<1>1. /\ stopped' = stopped /\ stopped \subseteq Nodes /\ logValidated' = logValidated
      /\ controls \in Seq(Requests) /\ offset \in Nat
  BY DEF Resume, request_control, CooldownExpires, Terminated, vars, logVars, workVars,
         IInv, TypeOK, HistoryTypes, DurableTypes, ControllerTypes
<1>2. ASSUME NEW n \in stopped  PROVE StaysStopped(n)
  BY DEF Cancellations
<1>3. CASE Resume
  <2>1. controls' = controls /\ ctl' = "poll" /\ offset' = 0
    BY <1>3 DEF Resume, ReaderStart
  <2>2. ASSUME NEW n \in stopped  PROVE StaysStopped(n)'
    <3>1. drv'[n] = "none" /\ state'[n] = "PLANNED"
      BY <1>1, <1>2, <1>3 DEF Resume, StaysStopped, prior_validated
    <3>2. \E i \in 1 .. Len(controls') : Stops(controls'[i], n)
      BY <1>2, <2>1 DEF StaysStopped
    <3>3. Unread(n)'
      BY <2>1, <3>1, <3>2 DEF Unread
    <3> QED
      BY <1>1, <1>2, <3>2, <3>3 DEF StaysStopped
  <2>3. AllCancelled'
    BY <2>1 DEF AllCancelled
  <2> QED
    BY <1>1, <2>2, <2>3 DEF Cancellations
<1>4. CASE request_control
  <2>1. /\ UNCHANGED <<state, drv, cancelled, crashed, cancelling, ctl, offset>>
        /\ \E req \in Requests : controls' = Append(controls, req)
    BY <1>4 DEF request_control, nodeVars, drvVars, ctlVars
  <2>2. /\ Len(controls') = Len(controls) + 1
        /\ \A i \in 1 .. Len(controls) : controls'[i] = controls[i]
    BY <1>1, <2>1
  <2>3. ASSUME NEW n \in stopped  PROVE StaysStopped(n)'
    <3>1. ASSUME NEW i \in 1 .. Len(controls), Stops(controls[i], n)
          PROVE  i \in 1 .. Len(controls') /\ Stops(controls'[i], n)
      BY <1>1, <2>2, <3>1
    <3>2. Unread(n) => Unread(n)'
      <4>1. SUFFICES ASSUME Unread(n)  PROVE Unread(n)'
        OBVIOUS
      <4>2. PICK i \in offset + 1 .. Len(controls) : Stops(controls[i], n)
        BY <4>1 DEF Unread
      <4>3. i \in 1 .. Len(controls) /\ i \in offset + 1 .. Len(controls')
        BY <1>1, <2>2, <4>2
      <4>4. Stops(controls'[i], n)
        BY <3>1, <4>2, <4>3
      <4> QED
        BY <2>1, <4>1, <4>3, <4>4 DEF Unread
    <3>3. Halted(n) => Halted(n)'
      BY <2>1 DEF Halted
    <3>4. \E i \in 1 .. Len(controls') : Stops(controls'[i], n)
      BY <1>2, <3>1 DEF StaysStopped
    <3> QED
      BY <1>1, <1>2, <3>2, <3>3, <3>4 DEF StaysStopped
  <2>4. AllCancelled'
    BY <2>1 DEF AllCancelled, Cancellations, Live
  <2> QED
    BY <1>1, <2>3, <2>4 DEF Cancellations
<1>5. CASE CooldownExpires \/ Terminated \/ UNCHANGED vars
  BY <1>5 DEF CooldownExpires, Terminated, vars, nodeVars, drvVars, ctlVars, envVars, logVars, workVars,
              Cancellations, AllCancelled, Live, StaysStopped, Halted, Unread
<1> QED
  BY <1>3, <1>4, <1>5

\* Where a cancelled send raises, a stopped node stays stopped, through the operator's
\* retries and through every resumed life of the run.
THEOREM StoppedStays == ASSUME ~CancelSwallowed PROVE Spec => []Cancellations
<1>1. Init => Cancellations
  BY DEF Init, Cancellations, AllCancelled
<1>2. IInv /\ JInv /\ Cancellations /\ [Next]_vars => Cancellations'
  BY DriverStopped, ControlStopped, ControllerStopped, FileStopped DEF Next, ControllerStep
<1> QED
  BY <1>1, <1>2, Invariance, HandoverHolds, PTL DEF Spec

\* Only Launch and Permit send, and the driver must be free to step.
LEMMA SendStep ==
    ASSUME IInv, Next, NEW n \in Nodes, sends'[n] # sends[n]
    PROVE  drv[n] \in {"base", "permit"} /\ ~cancelling[n]
<1>1. sends \in [Nodes -> Nat]
  BY DEF IInv, TypeOK, HistoryTypes
<1>2. CASE Launch(n) \/ Permit(n)
  BY <1>2 DEF Launch, Permit, Steps
<1>3. ASSUME NEW m \in Nodes, m # n, DriverStep(m) \/ Crash(m) \/ CancelLost(m)  PROVE FALSE
  BY <1>3, DriverFrame DEF IInv, View
<1>4. ASSUME DriverStep(n) \/ Crash(n) \/ CancelLost(n), ~Launch(n), ~Permit(n)  PROVE FALSE
  BY <1>4 DEF DriverStep, Select, SelectWaits, SelectNone, CooldownOver, Bind, Proof, AcquireSlot,
              RejectLocally, Cleanup, WorkerFails, WorkerSucceeds, EpochRead, ValidationPasses,
              ValidationFails, AttemptFailed, InfraOver, BarrierMerge, BarrierVerify,
              CancelDelivered, Crash, CancelLost, workVars
<1>5. ASSUME ControllerStep  PROVE FALSE
  BY <1>5 DEF ControllerStep, Wake, WakeDeadline, CancelRun, CancelNode, RetryNode, Schedule,
              Gathered, Drained, Conclude, Review, workVars
<1>6. ASSUME request_control \/ CooldownExpires \/ Resume \/ Terminated  PROVE FALSE
  BY <1>6 DEF request_control, CooldownExpires, Resume, Terminated, workVars, vars
<1> QED
  BY <1>2, <1>3, <1>4, <1>5, <1>6 DEF Next

\* A node stopped by an accepted cancel_node or cancel_run is never sent again
\* (CancelledNotReplaced), where a cancelled send raises: not by its driver, not by an
\* operator's retry and not after a resume, which reads the control file first.
THEOREM NeverReplaced == ASSUME ~CancelSwallowed PROVE Spec => CancelledNotReplaced
<1>1. IInv /\ Cancellations /\ [Next]_vars => [\A n \in stopped : sends'[n] = sends[n]]_vars
  <2>1. SUFFICES ASSUME IInv, Cancellations, Next, NEW n \in stopped, sends'[n] # sends[n]
                 PROVE  FALSE
    OBVIOUS
  <2>2. n \in Nodes /\ StaysStopped(n)
    BY <2>1 DEF Cancellations, IInv, TypeOK, HistoryTypes
  <2>3. drv[n] \in {"base", "permit"} /\ ~cancelling[n]
    BY <2>1, <2>2, SendStep
  <2> QED
    BY <2>2, <2>3 DEF StaysStopped, Halted, Unread, DriverAwait
<1> QED
  BY <1>1, Invariance, StoppedStays, PTL DEF Spec, CancelledNotReplaced

-----------------------------------------------------------------------------
(* Review. *)

\* Whoever wrote what is in the worktree of a node, or was salvaged from an earlier
\* attempt, is in the history of the node or is its route.
Authored(n) ==
    /\ n \in Barriers => authors[n] = {}
    /\ salvage[n] \subseteq hist[n]
    /\ drv[n] \in {"permit", "failing"} => authors[n] \subseteq hist[n]
    /\ drv[n] \in {"running", "epoch", "validate"} \/ state[n] = "VALIDATED"
          => authors[n] \subseteq hist[n] \cup {route[n]}

\* A COMPLETE run was reviewed from outside its implementers, over validated nodes.
Reviewed ==
    finished = "COMPLETE" => ctl = "done" /\ AllValidated /\ reviewer \notin Implementers

\* The inductive invariant, for the first life of a run.
Authorship == restarts = 0 => Reviewed /\ \A n \in Nodes : Authored(n)

\* A step of a driver keeps the authors of its node on record.
LEMMA DriverAuthored ==
    ASSUME IInv, JInv, NEW n \in Nodes, Authored(n), DriverStep(n) \/ Crash(n) \/ CancelLost(n)
    PROVE  Authored(n)'
<1>1. /\ state \in [Nodes -> NodeState] /\ drv \in [Nodes -> DriverPc]
      /\ route \in [Nodes -> Routes \cup {NoRoute}]
      /\ hist \in [Nodes -> SUBSET Routes] /\ salvage \in [Nodes -> SUBSET Routes]
      /\ authors \in [Nodes -> SUBSET Routes]
  BY DEF IInv, TypeOK, NodeTypes, DriverTypes, DurableTypes, HistoryTypes
<1>2. state[n] # "VALIDATED" /\ Merged(n)
  BY DriverWaits DEF IInv, Validation, Budget, DriverAwait, JInv, Handover
<1>3. CASE \/ Select(n) \/ SelectWaits(n) \/ SelectNone(n) \/ CooldownOver(n) \/ Bind(n) \/ Proof(n)
           \/ AcquireSlot(n) \/ Cleanup(n) \/ InfraOver(n) \/ BarrierMerge(n) \/ CancelDelivered(n)
           \/ Crash(n)
  <2>1. UNCHANGED <<authors, salvage, hist>>
    BY <1>3 DEF Select, SelectWaits, SelectNone, CooldownOver, Bind, Proof, AcquireSlot, Cleanup,
                InfraOver, BarrierMerge, CancelDelivered, Crash, nodeVars, workVars
  <2>2. /\ drv'[n] \in {"select", "cooldown", "bind", "proof", "slot", "base", "done", "verify"}
        /\ state'[n] # "VALIDATED"
    <3>1. CASE Select(n) \/ SelectWaits(n) \/ SelectNone(n) \/ CooldownOver(n) \/ Cleanup(n)
      BY <1>1, <1>2, <3>1 DEF Select, SelectWaits, SelectNone, CooldownOver, Cleanup, nodeVars
    <3>2. CASE Bind(n) \/ Proof(n) \/ AcquireSlot(n)
      BY <1>1, <1>2, <3>2 DEF Bind, Proof, AcquireSlot, BindRoute, RevokeSelection
    <3>3. CASE InfraOver(n) \/ BarrierMerge(n)
      BY <1>1, <1>2, <3>3 DEF InfraOver, LoopTop, BarrierMerge
    <3>4. CASE CancelDelivered(n) \/ Crash(n)
      BY <1>1, <1>2, <3>4 DEF CancelDelivered, Crash, Raise, nodeVars
    <3> QED
      BY <1>3, <3>1, <3>2, <3>3, <3>4
  <2> QED
    BY <2>1, <2>2 DEF Authored
<1>4. CASE CancelLost(n)
  BY <1>4 DEF CancelLost, Authored, nodeVars, workVars
<1>5. CASE Launch(n)
  <2>1. Restored(n) \subseteq hist[n]
    BY DEF Restored, Authored
  <2>2. /\ drv[n] = "base" /\ route' = route /\ salvage' = salvage /\ state'[n] = "RUNNING"
        /\ hist[n] \subseteq hist'[n]
        /\ \/ drv'[n] = "running" /\ authors'[n] = Restored(n) \cup {route[n]}
           \/ drv'[n] = "permit" /\ authors'[n] = Restored(n)
    BY <1>1, <1>5 DEF Launch, Send, Steps
  <2> QED
    BY <1>2, <2>1, <2>2 DEF Authored, Merged
<1>6. CASE RejectLocally(n)
  <2>1. /\ drv'[n] = "cleanup" /\ salvage' = salvage /\ authors' = authors
        /\ state'[n] = "BLOCKED" /\ hist[n] \subseteq hist'[n]
    BY <1>1, <1>6 DEF RejectLocally, Record, workVars
  <2> QED
    BY <2>1 DEF Authored
<1>7. CASE Permit(n)
  <2>1. /\ drv[n] = "permit" /\ route' = route /\ salvage' = salvage
        /\ \/ /\ drv'[n] = "running" /\ authors'[n] = authors[n] \cup {route[n]}
              /\ hist' = hist /\ state' = state
           \/ /\ drv'[n] = "failing" /\ authors'[n] = authors[n]
              /\ hist[n] \subseteq hist'[n] /\ state'[n] = "TERMINAL_FAILURE"
    BY <1>1, <1>7 DEF Permit, Send, Record, Steps
  <2> QED
    BY <1>2, <2>1 DEF Authored, Merged
<1>8. CASE WorkerFails(n) \/ WorkerSucceeds(n) \/ EpochRead(n) \/ ValidationFails(n)
  <2>1. /\ drv[n] \in {"running", "epoch", "validate"} /\ route' = route
        /\ salvage' = salvage /\ authors' = authors /\ state'[n] # "VALIDATED"
        /\ \/ drv'[n] = "failing" /\ hist'[n] = hist[n] \cup {route[n]}
           \/ drv'[n] \in {"epoch", "validate", "done"} /\ hist'[n] = hist[n]
    <3>1. CASE WorkerFails(n)
      BY <1>1, <1>2, <3>1 DEF WorkerFails, RecordFailure, Record, Raise, Steps, workVars
    <3>2. CASE WorkerSucceeds(n)
      BY <1>1, <1>2, <3>2 DEF WorkerSucceeds, Succeed, Raise, Steps, workVars
    <3>3. CASE EpochRead(n)
      BY <1>1, <1>2, <3>3 DEF EpochRead, Succeed, RecordFailure, Record, Raise, Steps, workVars
    <3>4. CASE ValidationFails(n)
      BY <1>1, <3>4 DEF ValidationFails, Record, Steps, workVars
    <3> QED
      BY <1>8, <3>1, <3>2, <3>3, <3>4
  <2> QED
    BY <2>1 DEF Authored
<1>9. CASE ValidationPasses(n)
  <2>1. /\ drv[n] = "validate" /\ drv'[n] = "done" /\ route' = route
        /\ salvage' = salvage /\ authors' = authors /\ hist[n] \subseteq hist'[n]
    BY <1>1, <1>9 DEF ValidationPasses, Steps, workVars
  <2> QED
    BY <2>1 DEF Authored
<1>10. CASE AttemptFailed(n)
  <2>1. /\ drv[n] = "failing" /\ drv'[n] \in {"infra", "select", "done"} /\ state'[n] # "VALIDATED"
        /\ authors' = authors /\ hist' = hist /\ salvage'[n] \in {salvage[n], authors[n]}
    BY <1>1, <1>2, <1>10 DEF AttemptFailed, LoopTop, Salvage, Steps
  <2> QED
    BY <2>1 DEF Authored
<1>11. CASE BarrierVerify(n)
  <2>1. drv[n] = "verify" /\ drv'[n] = "done" /\ UNCHANGED <<authors, salvage, hist, route>>
    BY <1>1, <1>11 DEF BarrierVerify, Steps, workVars
  <2> QED
    BY <1>2, <2>1 DEF Authored, Merged
<1> QED
  BY <1>3, <1>4, <1>5, <1>6, <1>7, <1>8, <1>9, <1>10, <1>11 DEF DriverStep

\* Every step of the first life.
LEMMA NextAuthored ==
    ASSUME IInv, JInv, Authorship, [Next]_vars, restarts' = 0
    PROVE  Authorship'
<1>1. CASE Resume
  BY <1>1 DEF Resume, IInv, TypeOK, DurableTypes
<1>2. ASSUME ~Resume  PROVE restarts = 0
  <2>1. ASSUME NEW n \in Nodes, DriverStep(n) \/ Crash(n) \/ CancelLost(n)  PROVE restarts' = restarts
    BY <2>1, DriverWaits DEF envVars
  <2>2. ASSUME ControllerStep  PROVE restarts' = restarts
    BY <2>2 DEF ControllerStep, Wake, WakeDeadline, CancelRun, CancelNode, RetryNode, Schedule,
                Gathered, Drained, Conclude, Review, envVars
  <2>3. ASSUME request_control \/ CooldownExpires \/ Terminated \/ UNCHANGED vars
        PROVE  restarts' = restarts
    BY <2>3 DEF request_control, CooldownExpires, Terminated, vars, envVars
  <2> QED
    BY <1>2, <2>1, <2>2, <2>3 DEF Next
<1>3. ASSUME restarts = 0, NEW n \in Nodes, DriverStep(n) \/ Crash(n) \/ CancelLost(n)
      PROVE  Authorship'
  <2>1. Authored(n)'
    BY <1>3, DriverAuthored DEF Authorship
  <2>2. ASSUME NEW m \in Nodes, m # n  PROVE Authored(m)'
    <3>1. /\ authors'[m] = authors[m] /\ salvage'[m] = salvage[m] /\ hist'[m] = hist[m]
          /\ drv'[m] = drv[m] /\ state'[m] = state[m] /\ route'[m] = route[m]
      BY <1>3, <2>2, DriverFrame DEF IInv, View
    <3> QED
      BY <1>3, <3>1 DEF Authorship, Authored
  <2>3. Reviewed'
    BY <1>3, DriverWaits DEF Authorship, Reviewed, ctlVars
  <2> QED
    BY <2>1, <2>2, <2>3 DEF Authorship
<1>4. ASSUME restarts = 0, Wake \/ WakeDeadline \/ CancelRun \/ CancelNode \/ RetryNode \/ Schedule
      PROVE  Authorship'
  <2>1. /\ ctl \in {"wait", "poll"} /\ ctl' # "done" /\ finished' \in {finished, "BLOCKED"}
        /\ UNCHANGED <<authors, salvage, hist, route, logValidated>>
    BY <1>4 DEF Wake, WakeDeadline, CancelRun, CancelNode, RetryNode, Schedule, Read, workVars, logVars
  <2>2. ASSUME NEW n \in Nodes
        PROVE  drv'[n] \in {drv[n], "none", "select", "merge", "done"}
    BY <1>4, ScheduleEffect, FirstSteps
       DEF Wake, WakeDeadline, Reap, ReapedDriver, CancelRun, CancelNode, RetryNode, drvVars,
           IInv, TypeOK
  <2>3. ASSUME NEW n \in Nodes, state'[n] = "VALIDATED"  PROVE state[n] = "VALIDATED"
    <3>1. IInv'
      BY NextIInv
    <3> QED
      BY <2>1, <2>3, <3>1 DEF IInv, Validation
  <2>4. Reviewed'
    BY <1>4, <2>1 DEF Authorship, Reviewed
  <2>5. ASSUME NEW n \in Nodes  PROVE Authored(n)'
    BY <1>4, <2>1, <2>2, <2>3 DEF Authorship, Authored
  <2> QED
    BY <2>4, <2>5 DEF Authorship
<1>5. ASSUME restarts = 0, Gathered \/ Drained \/ Conclude \/ Review
      PROVE  Authorship'
  <2>1. /\ UNCHANGED <<authors, salvage, hist, route, drv, state>>
        /\ ctl # "done"
    BY <1>5 DEF Gathered, Drained, Conclude, Review, nodeVars, drvVars, workVars
  <2>2. \A n \in Nodes : Authored(n)'
    BY <1>5, <2>1 DEF Authorship, Authored
  <2>3. finished' = "COMPLETE" => Review
    BY <1>5 DEF Gathered, Drained, Conclude, Authorship, Reviewed
  <2>4. Review /\ finished' = "COMPLETE" => ctl' = "done" /\ AllValidated /\ reviewer' \notin Implementers
    BY DEF Review, JInv, Published
  <2>5. Reviewed'
    BY <2>1, <2>3, <2>4 DEF Reviewed, AllValidated, Implementers
  <2> QED
    BY <2>2, <2>5 DEF Authorship
<1>6. ASSUME restarts = 0, request_control \/ CooldownExpires \/ Terminated \/ UNCHANGED vars
      PROVE  Authorship'
  <2>1. UNCHANGED <<authors, salvage, hist, route, drv, state, ctl, finished, reviewer>>
    BY <1>6 DEF request_control, CooldownExpires, Terminated, vars, nodeVars, drvVars, ctlVars, workVars
  <2> QED
    BY <1>6, <2>1 DEF Authorship, Reviewed, Authored, AllValidated, Implementers
<1> QED
  BY <1>1, <1>2, <1>3, <1>4, <1>5, <1>6 DEF Next, ControllerStep

\* In the first life of a run the route that passes the review wrote nothing that is in
\* the result (ReviewerIndependent), salvaged work of failed attempts included.
THEOREM IndependentReview == Spec => [](restarts = 0 => ReviewerIndependent)
<1>1. Init => Authorship
  BY DEF Init, Authorship, Reviewed, Authored
<1>2. IInv /\ JInv /\ Authorship /\ [Next]_vars => Authorship'
  <2>1. restarts' # 0 => Authorship'
    BY DEF Authorship
  <2> QED
    BY <2>1, NextAuthored
<1>3. IInv /\ Authorship => (restarts = 0 => ReviewerIndependent)
  <2>1. SUFFICES ASSUME IInv, Authorship, restarts = 0, finished = "COMPLETE", NEW n \in Nodes,
                        reviewer \in authors[n]
                 PROVE  FALSE
    BY DEF ReviewerIndependent
  <2>2. state[n] = "VALIDATED" /\ reviewer \notin Implementers /\ Authored(n)
    BY <2>1 DEF Authorship, Reviewed, AllValidated
  <2>3. reviewer \in hist[n] \cup {route[n]} /\ reviewer \in Routes
    BY <2>1, <2>2 DEF Authored, IInv, TypeOK, HistoryTypes
  <2>4. reviewer \in Implementers
    BY <2>3, RouteAssumption DEF Implementers
  <2> QED
    BY <2>2, <2>4
<1> QED
  BY <1>1, <1>2, <1>3, Invariance, HandoverHolds, PTL DEF Spec

-----------------------------------------------------------------------------
(* DagRuntime implements GoalRun. *)

\* The phase of a node, by its state.
Phase(s) == IF s = "VALIDATED" THEN "validated" ELSE IF s = "BLOCKED" THEN "blocked" ELSE "open"

\* PhaseOf is Phase of the state, before and after a step.
LEMMA Phases ==
    /\ [n \in Nodes |-> PhaseOf(n)] = [n \in Nodes |-> Phase(state[n])]
    /\ [n \in Nodes |-> PhaseOf(n)]' = [n \in Nodes |-> Phase(state'[n])]
<1>1. \A n \in Nodes : PhaseOf(n) = Phase(state[n])
  BY DEF PhaseOf, Phase
<1>2. \A n \in Nodes : PhaseOf(n)' = Phase(state'[n])
  BY DEF PhaseOf, Phase
<1> QED
  BY <1>1, <1>2

\* A step that changes neither phases nor outcome.
LEMMA GoalStutters ==
    ASSUME finished' = finished, \A n \in Nodes : Phase(state'[n]) = Phase(state[n])
    PROVE  UNCHANGED Goal!goalVars
<1>1. [n \in Nodes |-> PhaseOf(n)]' = [n \in Nodes |-> PhaseOf(n)]
  BY Phases
<1> QED
  BY <1>1 DEF Goal!goalVars

\* A step that gives up open nodes, and may publish an outcome short of COMPLETE.
LEMMA GoalGivesUp ==
    ASSUME finished = "none", finished' \in {"none", "BLOCKED", "CANCELLED"},
           \A n \in Nodes : \/ Phase(state'[n]) = Phase(state[n])
                            \/ Phase(state[n]) = "open" /\ Phase(state'[n]) = "blocked"
    PROVE  Goal!GoalNext
<1> DEFINE S == {n \in Nodes : Phase(state'[n]) # Phase(state[n])}
<1>1. Goal!Block(S)
  BY Phases DEF Goal!Block
<1>2. S \in SUBSET Nodes
  OBVIOUS
<1> HIDE DEF S
<1>3. CASE finished' = "none"
  BY <1>1, <1>2, <1>3 DEF Goal!GoalNext, Goal!GiveUp
<1>4. CASE finished' \in {"BLOCKED", "CANCELLED"}
  <2>1. Goal!Finish(finished', S) /\ finished' \in Goal!Outcomes
    BY <1>1, <1>4 DEF Goal!Finish, Goal!Outcomes
  <2> QED
    BY <1>2, <2>1 DEF Goal!GoalNext
<1> QED
  BY <1>3, <1>4

\* A step that validates an open node.
LEMMA GoalValidates ==
    ASSUME finished = "none", finished' = finished, NEW k \in Nodes,
           Phase(state[k]) = "open", Phase(state'[k]) = "validated",
           \A n \in Nodes : n # k => state'[n] = state[n],
           \A d \in Deps[k] : d \in Nodes /\ Phase(state[d]) = "validated"
    PROVE  Goal!GoalNext
<1>1. /\ [n \in Nodes |-> PhaseOf(n)][k] = "open"
      /\ \A d \in Deps[k] : [n \in Nodes |-> PhaseOf(n)][d] = "validated"
  BY Phases
<1>2. [n \in Nodes |-> Phase(state'[n])] = [[n \in Nodes |-> Phase(state[n])] EXCEPT ![k] = "validated"]
  OBVIOUS
<1>3. [n \in Nodes |-> PhaseOf(n)]' = [[n \in Nodes |-> PhaseOf(n)] EXCEPT ![k] = "validated"]
  BY <1>2, Phases
<1>4. Goal!Validate(k)
  BY <1>1, <1>3 DEF Goal!Validate
<1> QED
  BY <1>4 DEF Goal!GoalNext

\* A step that opens a blocked node again.
LEMMA GoalRetries ==
    ASSUME finished = "none", finished' = finished, NEW k \in Nodes,
           Phase(state[k]) = "blocked", Phase(state'[k]) = "open",
           \A n \in Nodes : n # k => state'[n] = state[n]
    PROVE  Goal!GoalNext
<1>1. [n \in Nodes |-> PhaseOf(n)][k] = "blocked"
  BY Phases
<1>2. [n \in Nodes |-> Phase(state'[n])] = [[n \in Nodes |-> Phase(state[n])] EXCEPT ![k] = "open"]
  OBVIOUS
<1>3. [n \in Nodes |-> PhaseOf(n)]' = [[n \in Nodes |-> PhaseOf(n)] EXCEPT ![k] = "open"]
  BY <1>2, Phases
<1>4. Goal!Retry(k)
  BY <1>1, <1>3 DEF Goal!Retry
<1> QED
  BY <1>4 DEF Goal!GoalNext

\* A driver changes the state of its node only while the run is open and the node is.
LEMMA DriverState ==
    ASSUME IInv, JInv, Cancellations, ~CancelSwallowed, NEW n \in Nodes,
           DriverStep(n) \/ Crash(n) \/ CancelLost(n), state'[n] # state[n]
    PROVE  finished = "none" /\ Phase(state[n]) = "open"
<1>1. ~CancelDelivered(n) /\ ~Crash(n) /\ ~CancelLost(n) /\ ~Cleanup(n)
  BY DEF CancelDelivered, Crash, CancelLost, Cleanup, nodeVars
<1>2. drv[n] \in DriverAwait \ {"cleanup"}
  <2>1. drv[n] \in DriverAwait
    BY DriverWaits
  <2>2. drv[n] # "cleanup"
    BY <1>1 DEF DriverStep, Steps, Select, SelectWaits, SelectNone, CooldownOver, Bind, Proof, AcquireSlot,
                Launch, RejectLocally, Permit, WorkerFails, WorkerSucceeds, EpochRead, ValidationPasses,
                ValidationFails, AttemptFailed, InfraOver, BarrierMerge, BarrierVerify
  <2> QED
    BY <2>1, <2>2
<1>3. ~cancelling[n] /\ ctl \in {"wait", "gather", "drain"}
  BY <1>1, DriverWaits
<1>4. n \notin stopped
  BY <1>2, <1>3 DEF Cancellations, StaysStopped, Halted, Unread, DriverAwait
<1>5. ctl = "wait" /\ finished = "none"
  BY <1>2, <1>3 DEF Cancellations, AllCancelled, Live, JInv, Published
<1>6. state[n] \in StateAt(drv[n])
  BY <1>2, <1>4 DEF JInv, Handover, Owned
<1>7. state[n] \notin {"VALIDATED", "BLOCKED"}
  BY <1>2, <1>6, StatesAt DEF DriverAwait
<1> QED
  BY <1>5, <1>7 DEF Phase

\* A step of a driver validates its node, gives it up or stutters.
LEMMA DriverGoal ==
    ASSUME IInv, JInv, Cancellations, ~CancelSwallowed, NEW n \in Nodes,
           DriverStep(n) \/ Crash(n) \/ CancelLost(n)
    PROVE  Goal!GoalNext \/ UNCHANGED Goal!goalVars
<1>1. finished' = finished
  BY DriverWaits DEF ctlVars
<1>2. \A m \in Nodes : m # n => state'[m] = state[m]
  BY DriverFrame DEF IInv, View
<1>3. CASE Phase(state'[n]) = Phase(state[n])
  BY <1>1, <1>2, <1>3, GoalStutters
<1>4. CASE Phase(state'[n]) # Phase(state[n])
  <2>1. finished = "none" /\ Phase(state[n]) = "open"
    BY <1>4, DriverState
  <2>2. CASE Phase(state'[n]) = "blocked"
    BY <1>1, <1>2, <2>1, <2>2, GoalGivesUp
  <2>3. CASE Phase(state'[n]) = "validated"
    <3>1. \A d \in Deps[n] : d \in Nodes /\ Phase(state[d]) = "validated"
      <4>1. Deps[n] \subseteq logValidated
        BY DriverWaits DEF IInv, Validation, DriverAwait
      <4> QED
        BY <4>1, GraphAssumption DEF IInv, Validation, Phase
    <3> QED
      BY <1>1, <1>2, <2>1, <2>3, <3>1, GoalValidates
  <2> QED
    BY <1>4, <2>1, <2>2, <2>3 DEF Phase
<1> QED
  BY <1>3, <1>4

\* The controller gives up nodes, retries one, publishes, or stutters.
LEMMA ControllerGoal ==
    ASSUME IInv, JInv, ControllerStep
    PROVE  Goal!GoalNext \/ UNCHANGED Goal!goalVars
<1>1. CASE Wake \/ WakeDeadline
  <2>1. finished = "none" /\ finished' \in {"none", "BLOCKED"}
    BY <1>1 DEF Wake, WakeDeadline, JInv, Published
  <2>2. \A n \in Nodes : \/ state'[n] = state[n]
                         \/ state[n] \notin {"VALIDATED", "BLOCKED"} /\ state'[n] = "BLOCKED"
    BY <1>1 DEF Wake, WakeDeadline, Reap, ReapedState
  <2> QED
    BY <2>1, <2>2, GoalGivesUp DEF Phase
<1>2. CASE CancelRun \/ CancelNode \/ Schedule
  <2>1. finished = "none" /\ finished' = finished
    BY <1>2 DEF CancelRun, CancelNode, Schedule, Read, JInv, Published
  <2>2. ASSUME NEW n \in Nodes
        PROVE  \/ state'[n] = state[n]
               \/ /\ state[n] \notin {"VALIDATED", "BLOCKED"}
                  /\ state'[n] \in {"BLOCKED", "TERMINAL_FAILURE", "RUNNING", "PLANNED"}
    <3>1. CASE CancelRun
      BY <3>1 DEF CancelRun, ActiveStates
    <3>2. CASE CancelNode
      BY <3>2 DEF CancelNode, ActiveStates, IInv, TypeOK, NodeTypes
    <3>3. CASE Schedule
      BY <3>3, ScheduleEffect, FirstSteps DEF IInv, TypeOK
    <3> QED
      BY <1>2, <3>1, <3>2, <3>3
  <2> QED
    BY <2>1, <2>2, GoalGivesUp DEF Phase
<1>3. CASE RetryNode
  <2> DEFINE k == controls[offset + 1].node
  <2>1. finished = "none" /\ finished' = finished /\ k \in Nodes
    BY <1>3, ReadRequest DEF RetryNode, Read, JInv, Published, IInv, TypeOK
  <2>2. CASE Retryable(k) /\ state[k] = "BLOCKED"
    <3>1. state' = [state EXCEPT ![k] = "PLANNED"] /\ state \in [Nodes -> NodeState]
      BY <1>3, <2>2 DEF RetryNode, IInv, TypeOK, NodeTypes
    <3>2. /\ Phase(state[k]) = "blocked" /\ Phase(state'[k]) = "open"
          /\ \A n \in Nodes : n # k => state'[n] = state[n]
      BY <2>1, <2>2, <3>1 DEF Phase
    <3> HIDE DEF k
    <3> QED
      BY <2>1, <3>2, GoalRetries
  <2>3. CASE ~(Retryable(k) /\ state[k] = "BLOCKED")
    <3>1. \A n \in Nodes : Phase(state'[n]) = Phase(state[n])
      BY <1>3, <2>1, <2>3 DEF RetryNode, Retryable, Phase, IInv, TypeOK, NodeTypes
    <3> QED
      BY <2>1, <3>1, GoalStutters
  <2> QED
    BY <2>2, <2>3
<1>4. CASE Gathered \/ Drained \/ Conclude \/ Review
  <2>1. state' = state
    BY <1>4 DEF Gathered, Drained, Conclude, Review, nodeVars
  <2>2. CASE finished' = finished
    BY <2>1, <2>2, GoalStutters
  <2>3. CASE finished' # finished
    <3>1. finished = "none" /\ finished' \in {"BLOCKED", "CANCELLED", "COMPLETE"}
      BY <1>4, <2>3 DEF Gathered, Drained, Conclude, Review, JInv, Published
    <3>2. CASE finished' # "COMPLETE"
      BY <2>1, <3>1, <3>2, GoalGivesUp
    <3>3. CASE finished' = "COMPLETE"
      <4>1. AllValidated
        BY <1>4, <2>3, <3>3 DEF Gathered, Drained, Conclude, Review, JInv, Published
      <4>2. Goal!Finish("COMPLETE", {})
        BY <2>1, <3>1, <3>3, <4>1, Phases DEF Goal!Finish, Goal!Block, AllValidated, Phase
      <4> QED
        BY <4>2 DEF Goal!GoalNext, Goal!Outcomes
    <3> QED
      BY <3>2, <3>3
  <2> QED
    BY <2>2, <2>3
<1> QED
  BY <1>1, <1>2, <1>3, <1>4 DEF ControllerStep

\* A resume opens what is not validated.
LEMMA ResumeGoal ==
    ASSUME IInv, Resume
    PROVE  Goal!GoalNext
<1>1. finished # "COMPLETE" /\ finished' = "none"
  BY DEF Resume
<1>2. \A n \in Nodes : state'[n] = IF state[n] = "VALIDATED" THEN "VALIDATED" ELSE "PLANNED"
  BY DEF Resume, prior_validated, IInv, Validation
<1>3. \A n \in Nodes : Phase(state'[n]) = IF Phase(state[n]) = "validated" THEN "validated" ELSE "open"
  BY <1>2 DEF Phase
<1>4. Goal!ResumeRun
  BY <1>1, <1>3, Phases DEF Goal!ResumeRun
<1> QED
  BY <1>4 DEF Goal!GoalNext

\* DagRuntime implements GoalRun (ImplementsGoalRun), where a cancelled send raises: no
\* validated node is lost, none validates over an unvalidated dependency or after an
\* outcome was published, and COMPLETE is published only over validated nodes.
THEOREM GoalImplemented == ASSUME ~CancelSwallowed PROVE Spec => ImplementsGoalRun
<1>1. Init => Goal!GoalInit
  <2>1. SUFFICES ASSUME Init PROVE Goal!GoalInit
    OBVIOUS
  <2>2. \A n \in Nodes : Phase(state[n]) = "open"
    BY <2>1 DEF Init, Phase
  <2> QED
    BY <2>1, <2>2, Phases DEF Init, Goal!GoalInit
<1>2. IInv /\ JInv /\ Cancellations /\ [Next]_vars => [Goal!GoalNext]_(Goal!goalVars)
  <2>1. SUFFICES ASSUME IInv, JInv, Cancellations, [Next]_vars
                 PROVE  Goal!GoalNext \/ UNCHANGED Goal!goalVars
    OBVIOUS
  <2>2. CASE \E n \in Nodes : DriverStep(n) \/ Crash(n) \/ CancelLost(n)
    BY <2>1, <2>2, DriverGoal
  <2>3. CASE ControllerStep
    BY <2>1, <2>3, ControllerGoal
  <2>4. CASE Resume
    BY <2>1, <2>4, ResumeGoal
  <2>5. CASE request_control \/ CooldownExpires \/ Terminated \/ UNCHANGED vars
    <3>1. UNCHANGED <<state, finished>>
      BY <2>5 DEF request_control, CooldownExpires, Terminated, vars, nodeVars, ctlVars
    <3> QED
      BY <3>1, GoalStutters
  <2> QED
    BY <2>1, <2>2, <2>3, <2>4, <2>5 DEF Next
<1> QED
  BY <1>1, <1>2, Invariance, HandoverHolds, StoppedStays, PTL DEF Spec, ImplementsGoalRun, Goal!GoalSpec
=============================================================================
