----------------------------- MODULE DagRuntime -----------------------------
(***************************************************************************)
(* orchestration/runtime.py, class DagRuntime, with the resume of a run    *)
(* (run.py) and the control channel (controls.py) it depends on.           *)
(*                                                                         *)
(* One controller coroutine (run) starts one driver task per ready node    *)
(* (_drive, _attempt, _integrate_node).  All of them share one asyncio     *)
(* event loop, so what lies between two awaits is one atomic action: ctl   *)
(* is the await the controller is in, drv[n] the await node n's driver is  *)
(* in, and drivers only move while the controller waits.                   *)
(*                                                                         *)
(* Abstracted: clocks (a cooldown or the run deadline expires at any       *)
(* moment), the choice among eligible routes (any), the order in which     *)
(* waiting drivers get a slot (any), file contents (only which routes      *)
(* wrote them), permits (granted, denied or revoked at any moment; the     *)
(* permit store has a module of its own), event payloads.                  *)
(***************************************************************************)
EXTENDS Contracts

CONSTANTS
    Nodes,          \* node ids of the work graph
    Deps,           \* [Nodes -> SUBSET Nodes], WorkNode.depends_on
    Barriers,       \* the INTEGRATE and REVIEW nodes: merged, never sent
    Routes,         \* routes of the inventory
    PoolOf,         \* [Routes -> Pools], credential_pools.pool_of
    NoRoute,        \* the empty route id
    MaxParallel,    \* min(policy.max_parallel, graph.max_parallel)
    MaxAttempts,    \* policy.max_attempts_per_node
    MaxRepairs,     \* RecoveryBudget.max_verification_repairs
    MaxShrinks,     \* halvings of the context budget above its floor
    Authority,      \* "off", "on" (DispatchAuthority) or "missing" (permits
                    \* required by policy, no authority configured)
    Failures,       \* the failure categories the environment produces
    MaxControls,    \* bound: operator requests written to the control file
    MaxRestarts,    \* bound: controller deaths and resumes
    DriversCrash,   \* may a driver raise (git, store or selector error)?
    CancelSwallowed \* may a cancelled send return instead of raising?

Pools == {PoolOf[r] : r \in Routes}

ASSUME GraphAssumption ==
    /\ IsFiniteSet(Nodes)
    /\ Deps \in [Nodes -> SUBSET Nodes]
    /\ Barriers \subseteq Nodes
    \* WorkGraph.layers refuses a cycle: every set has a member without
    \* dependencies inside it.
    /\ \A S \in (SUBSET Nodes) \ {{}} : \E n \in S : Deps[n] \cap S = {}

ASSUME RouteAssumption ==
    /\ NoRoute \notin Routes
    /\ Routes \cap Pools = {}

ASSUME BoundAssumption ==
    /\ MaxParallel \in Nat \ {0}
    /\ MaxAttempts \in Nat \ {0}
    /\ MaxRepairs \in Nat
    /\ MaxShrinks \in Nat
    /\ MaxControls \in Nat
    /\ MaxRestarts \in Nat
    /\ Authority \in {"off", "on", "missing"}
    /\ DriversCrash \in BOOLEAN
    /\ CancelSwallowed \in BOOLEAN
    /\ Failures \subseteq Category

VARIABLES
    \* NodeRun
    state, attempt, route, failures, tried, poolsOut, repacked, rehydrated,
    shrinks, hist, cancelled,
    \* the driver task of a node and its local variables
    drv, choice, previous, waited, revocations, cancelling, crashed,
    \* the controller
    ctl, finished, reviewer, cancelRequested, inflight,
    \* what survives the controller: selector cooldowns, the event log's
    \* dispatches and validations, salvaged work, the control file
    cooling, logAttempt, logValidated, logRoute, salvage, controls, restarts,
    \* reader position in the control file, in this controller life
    offset,
    \* history, for the properties: sends per node, who wrote the current
    \* work of a node, which nodes an accepted control stopped
    sends, authors, stopped

nodeVars == <<state, attempt, route, failures, tried, poolsOut, repacked,
              rehydrated, shrinks, hist, cancelled>>
drvVars  == <<drv, choice, previous, waited, revocations, cancelling, crashed>>
ctlVars  == <<ctl, finished, reviewer, cancelRequested, offset>>
logVars  == <<logAttempt, logValidated, logRoute>>
envVars  == <<controls, restarts>>
workVars == <<salvage, sends, authors, stopped>>
vars     == <<nodeVars, drvVars, ctlVars, inflight, cooling, logVars, envVars, workVars>>

\* The awaits a driver task can be in; "none" is no task, "done" a finished
\* task the controller has not reaped.
DriverAwait ==
    {"select", "cooldown", "bind", "proof", "slot", "base", "permit", "running",
     "epoch", "validate", "failing", "infra", "cleanup", "merge", "verify"}
DriverPc == DriverAwait \cup {"none", "done"}

\* Awaits inside `async with self._slots`.
SlotPcs == {"base", "permit", "running", "epoch", "validate", "failing", "cleanup"}
\* Awaits inside the inner try whose finally pops the in-flight reservation.
ReservedPcs == {"permit", "running", "failing", "cleanup"}

Holders == {n \in Nodes : drv[n] \in SlotPcs}
Pending == {n \in Nodes : drv[n] # "none"}
Live    == {n \in Nodes : drv[n] \in DriverAwait}

\* The selector refuses a route that is cooling itself or through its pool.
Blocker(r) == r \in cooling \/ PoolOf[r] \in cooling
Usable(n)  == {r \in Routes : r \notin tried[n] /\ PoolOf[r] \notin poolsOut[n]}

\* A driver may step: the loop is in an await of the controller, and the
\* task has not been cancelled since its last step.
Steps(n, pc) ==
    /\ ctl \in {"wait", "gather", "drain"}
    /\ drv[n] = pc
    /\ ~cancelling[n]

-----------------------------------------------------------------------------
(* Init: DagRuntime.__init__ of a new run. *)

Init ==
    /\ state = [n \in Nodes |-> "PLANNED"]
    /\ attempt = [n \in Nodes |-> 0]
    /\ route = [n \in Nodes |-> NoRoute]
    /\ failures = [n \in Nodes |-> <<>>]
    /\ tried = [n \in Nodes |-> {}]
    /\ poolsOut = [n \in Nodes |-> {}]
    /\ repacked = [n \in Nodes |-> {}]
    /\ rehydrated = [n \in Nodes |-> {}]
    /\ shrinks = [n \in Nodes |-> 0]
    /\ hist = [n \in Nodes |-> {}]
    /\ cancelled = [n \in Nodes |-> FALSE]
    /\ drv = [n \in Nodes |-> "none"]
    /\ choice = [n \in Nodes |-> NoRoute]
    /\ previous = [n \in Nodes |-> NoRoute]
    /\ waited = [n \in Nodes |-> FALSE]
    /\ revocations = [n \in Nodes |-> 0]
    /\ cancelling = [n \in Nodes |-> FALSE]
    /\ crashed = [n \in Nodes |-> FALSE]
    /\ ctl = "poll"
    /\ finished = "none"
    /\ reviewer = NoRoute
    /\ cancelRequested = FALSE
    /\ inflight = [n \in Nodes |-> NoRoute]
    /\ cooling = {}
    /\ logAttempt = [n \in Nodes |-> 0]
    /\ logValidated = {}
    /\ logRoute = [n \in Nodes |-> NoRoute]
    /\ salvage = [n \in Nodes |-> {}]
    /\ controls = <<>>
    /\ restarts = 0
    /\ offset = 0
    /\ sends = [n \in Nodes |-> 0]
    /\ authors = [n \in Nodes |-> {}]
    /\ stopped = {}

-----------------------------------------------------------------------------
(* The driver: selection and binding (_drive up to the attempt). *)

\* A selection withdrawn before dispatch: the route is excluded, and too many
\* withdrawals block the node.
RevokeSelection(n, r) ==
    LET spent == revocations[n] + 1 > MaxAttempts
    IN  /\ tried' = [tried EXCEPT ![n] = @ \cup {r}]
        /\ revocations' = [revocations EXCEPT ![n] = @ + 1]
        /\ state' = [state EXCEPT ![n] = IF spent THEN "BLOCKED" ELSE @]
        /\ drv' = [drv EXCEPT ![n] = IF spent THEN "done" ELSE "select"]

\* The selector thread returns an eligible route, from what it read.
Select(n) ==
    /\ Steps(n, "select")
    /\ \E r \in Usable(n) :
          /\ ~Blocker(r)
          /\ choice' = [choice EXCEPT ![n] = r]
    /\ drv' = [drv EXCEPT ![n] = "bind"]
    /\ UNCHANGED <<nodeVars, previous, waited, revocations, cancelling, crashed,
                   ctlVars, inflight, cooling, logVars, envVars, workVars>>

\* Nothing eligible, but an untried route cools for a short time: wait once.
SelectWaits(n) ==
    /\ Steps(n, "select")
    /\ ~waited[n]
    /\ \E r \in Usable(n) : Blocker(r)
    /\ drv' = [drv EXCEPT ![n] = "cooldown"]
    /\ UNCHANGED <<nodeVars, choice, previous, waited, revocations, cancelling, crashed,
                   ctlVars, inflight, cooling, logVars, envVars, workVars>>

CooldownOver(n) ==
    /\ Steps(n, "cooldown")
    /\ waited' = [waited EXCEPT ![n] = TRUE]
    /\ drv' = [drv EXCEPT ![n] = "select"]
    /\ UNCHANGED <<nodeVars, choice, previous, revocations, cancelling, crashed,
                   ctlVars, inflight, cooling, logVars, envVars, workVars>>

\* Nothing eligible: fail closed.
SelectNone(n) ==
    /\ Steps(n, "select")
    /\ state' = [state EXCEPT ![n] = "BLOCKED"]
    /\ drv' = [drv EXCEPT ![n] = "done"]
    /\ UNCHANGED <<attempt, route, failures, tried, poolsOut, repacked, rehydrated,
                   shrinks, hist, cancelled, choice, previous, waited, revocations,
                   cancelling, crashed, ctlVars, inflight, cooling, logVars, envVars, workVars>>

\* Mutants of BindRoute: the attempt is not counted; the route is reserved only
\* when the node is dispatched.
BindRoute_uncounted(n) ==
    /\ previous' = [previous EXCEPT ![n] = route[n]]
    /\ route' = [route EXCEPT ![n] = choice[n]]
    /\ inflight' = [inflight EXCEPT ![n] = choice[n]]
    /\ drv' = [drv EXCEPT ![n] = "slot"]
    /\ UNCHANGED <<attempt, state, tried, revocations>>

BindRoute_unreserved(n) ==
    /\ attempt' = [attempt EXCEPT ![n] = @ + 1]
    /\ previous' = [previous EXCEPT ![n] = route[n]]
    /\ route' = [route EXCEPT ![n] = choice[n]]
    /\ drv' = [drv EXCEPT ![n] = "slot"]
    /\ UNCHANGED <<inflight, state, tried, revocations>>

\* The route is bound: the attempt is counted and its route reserved.
BindRoute(n) ==
    /\ attempt' = [attempt EXCEPT ![n] = @ + 1]
    /\ previous' = [previous EXCEPT ![n] = route[n]]
    /\ route' = [route EXCEPT ![n] = choice[n]]
    /\ inflight' = [inflight EXCEPT ![n] = choice[n]]
    /\ drv' = [drv EXCEPT ![n] = "slot"]
    /\ UNCHANGED <<state, tried, revocations>>

\* Back on the event loop: cooled since selection, or bound (with permits,
\* only after a fresh proof).
Bind(n) ==
    /\ Steps(n, "bind")
    /\ \/ /\ Blocker(choice[n])
          /\ RevokeSelection(n, choice[n])
          /\ UNCHANGED <<attempt, previous, route, inflight>>
       \/ /\ ~Blocker(choice[n])
          /\ Authority # "on"
          /\ BindRoute(n)
       \/ /\ ~Blocker(choice[n])
          /\ Authority = "on"
          /\ drv' = [drv EXCEPT ![n] = "proof"]
          /\ UNCHANGED <<state, tried, revocations, attempt, previous, route, inflight>>
    /\ UNCHANGED <<failures, poolsOut, repacked, rehydrated, shrinks, hist, cancelled,
                   choice, waited, cancelling, crashed, ctlVars, cooling, logVars,
                   envVars, workVars>>

\* _bind_proof answers with a fresh passport proof, or with none.
Proof(n) ==
    /\ Steps(n, "proof")
    /\ \/ BindRoute(n)
       \/ /\ RevokeSelection(n, choice[n])
          /\ UNCHANGED <<attempt, previous, route, inflight>>
    /\ UNCHANGED <<failures, poolsOut, repacked, rehydrated, shrinks, hist, cancelled,
                   choice, waited, cancelling, crashed, ctlVars, cooling, logVars,
                   envVars, workVars>>

-----------------------------------------------------------------------------
(* The driver: one attempt (_attempt). *)

\* A slot is free.  The route is checked again: a sibling's failure may have
\* cooled it while this driver waited; then the binding is undone.
AcquireSlot(n) ==
    /\ Steps(n, "slot")
    /\ Cardinality(Holders) < MaxParallel
    /\ \/ /\ Blocker(route[n])
          /\ attempt' = [attempt EXCEPT ![n] = @ - 1]
          /\ route' = [route EXCEPT ![n] = previous[n]]
          /\ inflight' = [inflight EXCEPT ![n] = NoRoute]
          /\ RevokeSelection(n, route[n])
       \/ /\ ~Blocker(route[n])
          /\ state' = [state EXCEPT ![n] = "ADMITTED"]
          /\ drv' = [drv EXCEPT ![n] = "base"]
          /\ UNCHANGED <<attempt, route, inflight, tried, revocations>>
    /\ UNCHANGED <<failures, poolsOut, repacked, rehydrated, shrinks, hist, cancelled,
                   choice, previous, waited, cancelling, crashed, ctlVars, cooling,
                   logVars, envVars, workVars>>

\* Work of earlier attempts that the new worktree starts from.
Restored(n) == IF attempt[n] > 1 THEN salvage[n] ELSE {}

\* The prompt goes to the route's executor.
Send(n, restored) ==
    /\ drv' = [drv EXCEPT ![n] = "running"]
    /\ sends' = [sends EXCEPT ![n] = @ + 1]
    /\ authors' = [authors EXCEPT ![n] = restored \cup {route[n]}]

\* Base merged and worktree added: salvaged work is restored (on record in the
\* node's history), the node is DISPATCHED (logged) and RUNNING, and without
\* permits sent at once.
Launch(n) ==
    /\ Steps(n, "base")
    /\ Authority # "missing"
    /\ state' = [state EXCEPT ![n] = "RUNNING"]
    /\ inflight' = [inflight EXCEPT ![n] = route[n]]
    /\ logAttempt' = [logAttempt EXCEPT ![n] = attempt[n]]
    /\ hist' = [hist EXCEPT ![n] = IF Restored(n) = {} THEN @ ELSE @ \cup {route[n]}]
    /\ \/ /\ Authority = "off"
          /\ Send(n, Restored(n))
       \/ /\ Authority = "on"
          /\ drv' = [drv EXCEPT ![n] = "permit"]
          /\ authors' = [authors EXCEPT ![n] = Restored(n)]
          /\ UNCHANGED sends
    /\ UNCHANGED <<attempt, route, failures, tried, poolsOut, repacked, rehydrated,
                   shrinks, cancelled, choice, previous, waited, revocations,
                   cancelling, crashed, ctlVars, cooling, logValidated, logRoute,
                   envVars, salvage, stopped>>

\* _record_failure, for a category that cools nothing: the failure and the
\* route that failed are on record.
Record(n, c) ==
    /\ failures' = [failures EXCEPT ![n] = Append(@, c)]
    /\ hist' = [hist EXCEPT ![n] = @ \cup {route[n]}]

\* The prompt does not fit, or the gateway is not the one the permit binds, or
\* permits are required and there is no authority: BLOCKED without a send.
RejectLocally(n) ==
    /\ Steps(n, "base")
    /\ \E c \in {"context_input_rejected", "dispatch_denied"} \cap Failures :
          /\ c = "dispatch_denied" => Authority # "off"
          /\ Record(n, c)
    /\ state' = [state EXCEPT ![n] = "BLOCKED"]
    /\ inflight' = [inflight EXCEPT ![n] = route[n]]
    /\ logAttempt' = [logAttempt EXCEPT ![n] = attempt[n]]
    /\ drv' = [drv EXCEPT ![n] = "cleanup"]
    /\ UNCHANGED <<attempt, route, tried, poolsOut, repacked, rehydrated, shrinks,
                   cancelled, choice, previous, waited, revocations, cancelling, crashed,
                   ctlVars, cooling, logValidated, logRoute, envVars, workVars>>

\* The worktree of a locally settled attempt is gone: _drive returns.
Cleanup(n) ==
    /\ Steps(n, "cleanup")
    /\ inflight' = [inflight EXCEPT ![n] = NoRoute]
    /\ drv' = [drv EXCEPT ![n] = "done"]
    /\ UNCHANGED <<nodeVars, choice, previous, waited, revocations, cancelling, crashed,
                   ctlVars, cooling, logVars, envVars, workVars>>

\* commit_dispatch mints the permit and the prompt is sent, or denies it.
Permit(n) ==
    /\ Steps(n, "permit")
    /\ \/ /\ Send(n, authors[n])
          /\ UNCHANGED <<state, failures, hist>>
       \/ /\ "permit_denied" \in Failures
          /\ Record(n, "permit_denied")
          /\ state' = [state EXCEPT ![n] = "TERMINAL_FAILURE"]
          /\ drv' = [drv EXCEPT ![n] = "failing"]
          /\ UNCHANGED <<sends, authors>>
    /\ UNCHANGED <<attempt, route, tried, poolsOut, repacked, rehydrated, shrinks,
                   cancelled, choice, previous, waited, revocations, cancelling, crashed,
                   ctlVars, inflight, cooling, logVars, envVars, salvage, stopped>>

\* The driver task ends with an exception.
Raise(n) ==
    /\ drv' = [drv EXCEPT ![n] = "done"]
    /\ crashed' = [crashed EXCEPT ![n] = TRUE]

\* The routes and pools that a failure of route r cools.
Cooled(scope, r) ==
    CASE scope = "route"    -> {r}
      [] scope = "provider" -> {r, PoolOf[r]}
      [] OTHER              -> {}

\* cooldown_failure, for any scope the failure's text may have given it.
Cools(n, c) == \E scope \in Scopes(c) : cooling' = cooling \cup Cooled(scope, route[n])

\* _record_failure.  In a node that was cancelled meanwhile check_transition
\* raises, after the failure was appended and before anything else is recorded.
RecordFailure(n, c) ==
    \/ /\ check_transition(state[n], "TERMINAL_FAILURE")
       /\ Record(n, c)
       /\ state' = [state EXCEPT ![n] = "TERMINAL_FAILURE"]
       /\ Cools(n, c)
       /\ drv' = [drv EXCEPT ![n] = "failing"]
       /\ UNCHANGED crashed
    \/ /\ ~check_transition(state[n], "TERMINAL_FAILURE")
       /\ failures' = [failures EXCEPT ![n] = Append(@, c)]
       /\ Raise(n)
       /\ UNCHANGED <<state, hist, cooling>>

\* The worker's terminal is a failure.
WorkerFails(n) ==
    /\ Steps(n, "running")
    /\ inflight' = [inflight EXCEPT ![n] = NoRoute]
    /\ \E c \in TerminalCategories \cap Failures : RecordFailure(n, c)
    /\ UNCHANGED <<attempt, route, tried, poolsOut, repacked, rehydrated, shrinks,
                   cancelled, choice, previous, waited, revocations, cancelling,
                   ctlVars, logVars, envVars, workVars>>

\* _set(TERMINAL_SUCCESS): legal from RUNNING only.
Succeed(n) ==
    \/ /\ check_transition(state[n], "TERMINAL_SUCCESS")
       /\ state' = [state EXCEPT ![n] = "TERMINAL_SUCCESS"]
       /\ drv' = [drv EXCEPT ![n] = "validate"]
       /\ UNCHANGED crashed
    \/ /\ ~check_transition(state[n], "TERMINAL_SUCCESS")
       /\ Raise(n)
       /\ UNCHANGED state

\* The worker answered.  With permits, the scope's epoch is read first.
WorkerSucceeds(n) ==
    /\ Steps(n, "running")
    /\ inflight' = [inflight EXCEPT ![n] = NoRoute]
    /\ \/ /\ Authority # "on"
          /\ Succeed(n)
       \/ /\ Authority = "on"
          /\ drv' = [drv EXCEPT ![n] = "epoch"]
          /\ UNCHANGED <<state, crashed>>
    /\ UNCHANGED <<attempt, route, failures, tried, poolsOut, repacked, rehydrated,
                   shrinks, hist, cancelled, choice, previous, waited, revocations,
                   cancelling, ctlVars, cooling, logVars, envVars, workVars>>

\* The permit still holds, or its scope was revoked during the send: then the
\* output is discarded.
EpochRead(n) ==
    /\ Steps(n, "epoch")
    /\ \/ /\ Succeed(n)
          /\ UNCHANGED <<failures, hist, cooling>>
       \/ /\ "permit_revoked_after_commit" \in Failures
          /\ RecordFailure(n, "permit_revoked_after_commit")
    /\ UNCHANGED <<attempt, route, tried, poolsOut, repacked, rehydrated, shrinks,
                   cancelled, choice, previous, waited, revocations, cancelling,
                   ctlVars, inflight, logVars, envVars, workVars>>

\* Ownership, verification and repo gates pass: commit, worktree removed,
\* selector.record_success, VALIDATED (logged with its commit and route).
ValidationPasses(n) ==
    /\ Steps(n, "validate")
    /\ state' = [state EXCEPT ![n] = "VALIDATED"]
    /\ hist' = [hist EXCEPT ![n] = @ \cup {route[n]}]
    /\ cooling' = cooling \ {route[n]}
    /\ logValidated' = logValidated \cup {n}
    /\ logRoute' = [logRoute EXCEPT ![n] = route[n]]
    /\ drv' = [drv EXCEPT ![n] = "done"]
    /\ UNCHANGED <<attempt, route, failures, tried, poolsOut, repacked, rehydrated,
                   shrinks, cancelled, choice, previous, waited, revocations, cancelling,
                   crashed, ctlVars, inflight, logAttempt, envVars, workVars>>

\* A barrier rejects the attempt, and its report is classified like a worker's error.
ValidationFails(n) ==
    /\ Steps(n, "validate")
    /\ \E c \in RejectedCategories \cap Failures : Record(n, c) /\ Cools(n, c)
    /\ state' = [state EXCEPT ![n] = "REJECTED"]
    /\ drv' = [drv EXCEPT ![n] = "failing"]
    /\ UNCHANGED <<attempt, route, tried, poolsOut, repacked, rehydrated, shrinks,
                   cancelled, choice, previous, waited, revocations, cancelling, crashed,
                   ctlVars, inflight, logVars, envVars, workVars>>

-----------------------------------------------------------------------------
(* The driver: after a failed attempt. *)

\* Mutants of LoopTop: one attempt too many; the node not put back to PLANNED.
LoopTop_off_by_one(n) ==
    LET spent == attempt[n] > MaxAttempts
    IN  /\ state' = [state EXCEPT ![n] = IF spent THEN "BLOCKED" ELSE "PLANNED"]
        /\ drv' = [drv EXCEPT ![n] = IF spent THEN "done" ELSE "select"]

LoopTop_not_reset(n) ==
    LET spent == attempt[n] >= MaxAttempts
    IN  /\ state' = [state EXCEPT ![n] = IF spent THEN "BLOCKED" ELSE @]
        /\ drv' = [drv EXCEPT ![n] = IF spent THEN "done" ELSE "select"]

\* `while True` of _drive, for a node back in PLANNED: budget, then select.
LoopTop(n) ==
    LET spent == attempt[n] >= MaxAttempts
    IN  /\ state' = [state EXCEPT ![n] = IF spent THEN "BLOCKED" ELSE "PLANNED"]
        /\ drv' = [drv EXCEPT ![n] = IF spent THEN "done" ELSE "select"]

\* _fail salvages what the attempt left in its worktree, unless the failure
\* is one whose output must not survive or that had none.
Salvage(n, c) ==
    \/ UNCHANGED salvage
    \/ /\ c \notin {"permit_denied", "permit_revoked_after_commit"}
       /\ salvage' = [salvage EXCEPT ![n] = authors[n]]

\* Is the route of a failed attempt kept for one more try on the same route?
Repack(n, c) ==
    c = "context_length" /\ shrinks[n] < MaxShrinks /\ route[n] \notin repacked[n]
Rehydrate(n, c) ==
    c \in BarrierCategories /\ route[n] \notin rehydrated[n]

\* The failed attempt is salvaged and its slot freed; the driver waits out an
\* infrastructure fault, or settles which routes the next attempt may use and
\* goes back to the top of its loop.
AttemptFailed(n) ==
    /\ Steps(n, "failing")
    /\ inflight' = [inflight EXCEPT ![n] = NoRoute]
    /\ LET c    == failures[n][Len(failures[n])]
           same == ActionOf(c) = "RETRY_INFRA" \/ Repack(n, c) \/ Rehydrate(n, c)
       IN  /\ Salvage(n, c)
           /\ shrinks' = [shrinks EXCEPT ![n] =
                  IF c = "context_length" /\ @ < MaxShrinks THEN @ + 1 ELSE @]
           /\ repacked' = [repacked EXCEPT ![n] =
                  IF Repack(n, c) THEN @ \cup {route[n]} ELSE @]
           /\ rehydrated' = [rehydrated EXCEPT ![n] =
                  IF Rehydrate(n, c) THEN @ \cup {route[n]} ELSE @]
           /\ tried' = [tried EXCEPT ![n] = IF same THEN @ ELSE @ \cup {route[n]}]
           /\ poolsOut' = [poolsOut EXCEPT ![n] =
                  IF c = "pool_failure" THEN @ \cup {PoolOf[route[n]]} ELSE @]
           /\ \/ /\ ActionOf(c) = "RETRY_INFRA"
                 /\ drv' = [drv EXCEPT ![n] = "infra"]
                 /\ UNCHANGED state
              \/ /\ ActionOf(c) = "BLOCK"
                 /\ state' = [state EXCEPT ![n] = "BLOCKED"]
                 /\ drv' = [drv EXCEPT ![n] = "done"]
              \/ /\ ActionOf(c) \notin {"RETRY_INFRA", "BLOCK"}
                 /\ LoopTop(n)
    /\ UNCHANGED <<attempt, route, failures, hist, cancelled, choice, previous, waited,
                   revocations, cancelling, crashed, ctlVars, cooling, logVars, envVars,
                   sends, authors, stopped>>

InfraOver(n) ==
    /\ Steps(n, "infra")
    /\ LoopTop(n)
    /\ UNCHANGED <<attempt, route, failures, tried, poolsOut, repacked, rehydrated,
                   shrinks, hist, cancelled, choice, previous, waited, revocations,
                   cancelling, crashed, ctlVars, inflight, cooling, logVars, envVars, workVars>>

-----------------------------------------------------------------------------
(* The driver of an integration barrier (_integrate_node). *)

BarrierMerge(n) ==
    /\ Steps(n, "merge")
    /\ \/ /\ state' = [state EXCEPT ![n] = "TERMINAL_SUCCESS"]
          /\ drv' = [drv EXCEPT ![n] = "verify"]
       \/ /\ state' = [state EXCEPT ![n] = "BLOCKED"]
          /\ drv' = [drv EXCEPT ![n] = "done"]
    /\ UNCHANGED <<attempt, route, failures, tried, poolsOut, repacked, rehydrated,
                   shrinks, hist, cancelled, choice, previous, waited, revocations,
                   cancelling, crashed, ctlVars, inflight, cooling, logVars, envVars, workVars>>

BarrierVerify(n) ==
    /\ Steps(n, "verify")
    /\ \/ /\ state' = [state EXCEPT ![n] = "VALIDATED"]
          /\ logValidated' = logValidated \cup {n}
          /\ UNCHANGED failures
       \/ /\ "verification_failed" \in Failures
          /\ state' = [state EXCEPT ![n] = "BLOCKED"]
          /\ failures' = [failures EXCEPT ![n] = Append(@, "verification_failed")]
          /\ UNCHANGED logValidated
    /\ drv' = [drv EXCEPT ![n] = "done"]
    /\ UNCHANGED <<attempt, route, tried, poolsOut, repacked, rehydrated, shrinks, hist,
                   cancelled, choice, previous, waited, revocations, cancelling, crashed,
                   ctlVars, inflight, cooling, logAttempt, logRoute, envVars, workVars>>

-----------------------------------------------------------------------------
(* How a driver task ends early. *)

Reserved(n) == drv[n] \in ReservedPcs

\* The finally of the inner try pops the reservation, nothing else does.
Unwind(n) ==
    inflight' = [inflight EXCEPT ![n] = IF Reserved(n) THEN NoRoute ELSE @]

\* A git, store or selector error unwinds the driver.
Crash(n) ==
    /\ DriversCrash
    /\ \E pc \in DriverAwait \ {"cooldown", "slot", "running", "infra"} : Steps(n, pc)
    /\ Unwind(n)
    /\ Raise(n)
    /\ UNCHANGED <<nodeVars, choice, previous, waited, revocations, cancelling, ctlVars,
                   cooling, logVars, envVars, workVars>>

\* task.cancel() takes effect at the driver's await: CancelledError unwinds it,
\* a running worker's process group is killed on the way.
CancelDelivered(n) ==
    /\ ctl \in {"wait", "gather", "drain"}
    /\ drv[n] \in DriverAwait
    /\ cancelling[n]
    /\ Unwind(n)
    /\ drv' = [drv EXCEPT ![n] = "done"]
    /\ UNCHANGED <<nodeVars, choice, previous, waited, revocations, cancelling, crashed,
                   ctlVars, cooling, logVars, envVars, workVars>>

\* The send was cancelled but the call returns a terminal instead of raising:
\* closing its operation lease failed (_execute turns that error into a
\* terminal), or wait_for of Python 3.10 and 3.11 found the result ready.
CancelLost(n) ==
    /\ CancelSwallowed
    /\ ctl \in {"wait", "gather", "drain"}
    /\ drv[n] = "running"
    /\ cancelling[n]
    /\ cancelling' = [cancelling EXCEPT ![n] = FALSE]
    /\ UNCHANGED <<nodeVars, drv, choice, previous, waited, revocations, crashed, ctlVars,
                   inflight, cooling, logVars, envVars, workVars>>

-----------------------------------------------------------------------------
(* The controller loop (run). *)

\* Finished tasks are reaped, their local variables with them: a crashed driver
\* blocks its node and replaces whatever reason the node had.
ReapedState(n) ==
    IF drv[n] = "done" /\ crashed[n] /\ state[n] \notin {"VALIDATED", "BLOCKED"}
    THEN "BLOCKED" ELSE state[n]

\* Mutant: a finished task is never deleted from pending.
ReapedDriver_kept(n) == drv[n]

ReapedDriver(n) == IF drv[n] = "done" THEN "none" ELSE drv[n]

Reap ==
    /\ state' = [n \in Nodes |-> ReapedState(n)]
    /\ cancelled' = [n \in Nodes |-> cancelled[n] /\ ~(drv[n] = "done" /\ crashed[n])]
    /\ drv' = [n \in Nodes |-> ReapedDriver(n)]
    /\ crashed' = [n \in Nodes |-> FALSE]
    /\ choice' = [n \in Nodes |-> IF drv[n] = "done" THEN NoRoute ELSE choice[n]]
    /\ previous' = [n \in Nodes |-> IF drv[n] = "done" THEN NoRoute ELSE previous[n]]
    /\ waited' = [n \in Nodes |-> waited[n] /\ drv[n] # "done"]
    /\ revocations' = [n \in Nodes |-> IF drv[n] = "done" THEN 0 ELSE revocations[n]]

\* asyncio.wait returns, on a finished driver or after 0.1 s.
Wake ==
    /\ ctl = "wait"
    /\ Reap
    /\ cancelling' = [n \in Nodes |-> cancelling[n] /\ drv[n] # "done"]
    /\ ctl' = "poll"
    /\ UNCHANGED <<attempt, route, failures, tried, poolsOut, repacked, rehydrated,
                   shrinks, hist, finished, reviewer, cancelRequested, offset, inflight, cooling,
                   logVars, envVars, workVars>>

\* The same, past the run deadline: every task is cancelled and the outcome
\* published at once; the finally of run gathers the tasks afterwards.
WakeDeadline ==
    /\ ctl = "wait"
    /\ Reap
    /\ cancelling' = [n \in Nodes |-> drv[n] \in DriverAwait]
    /\ finished' = "BLOCKED"
    /\ ctl' = "drain"
    /\ UNCHANGED <<attempt, route, failures, tried, poolsOut, repacked, rehydrated,
                   shrinks, hist, reviewer, cancelRequested, offset, inflight, cooling, logVars,
                   envVars, workVars>>

\* An operator appends a request to the control file (request_control).  It
\* can do so at any time; only the next poll reads it.
Requests ==
    [kind : {"cancel_node", "retry_node"}, node : Nodes] \cup [kind : {"cancel_run"}]

request_control ==
    /\ ctl = "poll"
    /\ offset = Len(controls)
    /\ Len(controls) < MaxControls
    /\ \E req \in Requests : controls' = Append(controls, req)
    /\ UNCHANGED <<nodeVars, drvVars, ctlVars, inflight, cooling, logVars, restarts, workVars>>

\* ControlReader.pending hands out the next request this life has not read.
Read(kind) ==
    /\ ctl = "poll"
    /\ offset < Len(controls)
    /\ controls[offset + 1].kind = kind
    /\ offset' = offset + 1

\* _handle_cancel_run: tasks cancelled; PLANNED is blocked, work in progress
\* becomes a terminal failure, everything else keeps its state.
CancelRun ==
    /\ Read("cancel_run")
    /\ cancelRequested' = TRUE
    /\ cancelling' = [n \in Nodes |-> drv[n] \in DriverAwait]
    /\ state' = [n \in Nodes |->
          IF state[n] \notin ActiveStates THEN state[n]
          ELSE IF check_transition(state[n], "BLOCKED") THEN "BLOCKED"
          ELSE "TERMINAL_FAILURE"]
    /\ cancelled' = [n \in Nodes |-> cancelled[n] \/ state[n] \in ActiveStates]
    /\ stopped' = stopped \cup {n \in Nodes : state[n] \in ActiveStates}
    /\ ctl' = "gather"
    /\ UNCHANGED <<attempt, route, failures, tried, poolsOut, repacked, rehydrated,
                   shrinks, hist, drv, choice, previous, waited, revocations, crashed,
                   finished, reviewer, inflight, cooling, logVars, envVars, salvage,
                   sends, authors>>

\* _handle_cancel_node: only active work; BLOCKED through the legal path.
CancelNode ==
    /\ Read("cancel_node")
    /\ LET n == controls[offset + 1].node
       IN  \/ /\ state[n] \in ActiveStates
              /\ state' = [state EXCEPT ![n] = "BLOCKED"]
              /\ cancelled' = [cancelled EXCEPT ![n] = TRUE]
              /\ cancelling' = [cancelling EXCEPT ![n] = drv[n] # "none"]
              /\ stopped' = stopped \cup {n}
           \/ /\ state[n] \notin ActiveStates
              /\ UNCHANGED <<state, cancelled, cancelling, stopped>>
    /\ UNCHANGED <<attempt, route, failures, tried, poolsOut, repacked, rehydrated,
                   shrinks, hist, drv, choice, previous, waited, revocations, crashed,
                   ctl, finished, reviewer, cancelRequested, inflight, cooling, logVars,
                   envVars, salvage, sends, authors>>

\* Mutant: a node whose driver still runs is retryable.
Retryable_while_driven(n) ==
    /\ state[n] \in {"TERMINAL_FAILURE", "BLOCKED"}
    /\ ~cancelled[n]
    /\ failures[n] # <<>>
    /\ decide(failures[n], attempt[n], MaxAttempts, MaxRepairs) # "FAIL_CLOSED"

\* _handle_retry_node accepts: failed or blocked, no driver, not cancelled,
\* failure evidence on record and recovery budget left.
Retryable(n) ==
    /\ state[n] \in {"TERMINAL_FAILURE", "BLOCKED"}
    /\ drv[n] = "none"
    /\ ~cancelled[n]
    /\ failures[n] # <<>>
    /\ decide(failures[n], attempt[n], MaxAttempts, MaxRepairs) # "FAIL_CLOSED"

RetryNode ==
    /\ Read("retry_node")
    /\ LET n == controls[offset + 1].node
       IN  \/ /\ Retryable(n)
              /\ state' = [state EXCEPT ![n] = "PLANNED"]
           \/ /\ ~Retryable(n)
              /\ UNCHANGED state
    /\ UNCHANGED <<attempt, route, failures, tried, poolsOut, repacked, rehydrated,
                   shrinks, hist, cancelled, drvVars, ctl, finished, reviewer,
                   cancelRequested, inflight, cooling, logVars, envVars, workVars>>

\* Mutant of DependencyBlocked: one pass instead of a fixpoint.
DependencyBlocked_one_pass ==
    {n \in Nodes : state[n] = "PLANNED" /\ \E d \in Deps[n] : state[d] = "BLOCKED"}

\* _propagate_blocks: the least set of PLANNED nodes closed under having a
\* BLOCKED dependency.
Planned == {n \in Nodes : state[n] = "PLANNED"}
DependencyBlocked ==
    {n \in Planned :
        \A S \in SUBSET Planned :
            (\A m \in Planned :
                (\E d \in Deps[m] : state[d] = "BLOCKED" \/ d \in S) => m \in S)
            => n \in S}

\* Mutant of Ready: a dependency need only not be blocked.
Ready_unless_blocked ==
    {n \in Planned \ Pending : \A d \in Deps[n] : state[d] # "BLOCKED"}

\* _ready, after propagation, without the nodes that have a task.
Ready ==
    {n \in Planned \ Pending : \A d \in Deps[n] : state[d] = "VALIDATED"}

\* The first step of a new task, up to its first await.
FirstAwait(n) ==
    CASE n \in Barriers                                   -> "merge"
      [] n \notin Barriers /\ attempt[n] >= MaxAttempts   -> "done"
      [] n \notin Barriers /\ attempt[n] < MaxAttempts    -> "select"

FirstState(n) ==
    CASE n \in Barriers                                   -> "RUNNING"
      [] n \notin Barriers /\ attempt[n] >= MaxAttempts   -> "BLOCKED"
      [] n \notin Barriers /\ attempt[n] < MaxAttempts    -> "PLANNED"

\* All requests read: block the dependents of blocked nodes, start a driver
\* for every ready node, and wait; with no task left, conclude.
Schedule ==
    /\ ctl = "poll"
    /\ offset = Len(controls)
    /\ state' = [n \in Nodes |->
          CASE n \in DependencyBlocked -> "BLOCKED"
            [] n \in Ready             -> FirstState(n)
            [] OTHER                   -> state[n]]
    /\ drv' = [n \in Nodes |-> IF n \in Ready THEN FirstAwait(n) ELSE drv[n]]
    /\ attempt' = [n \in Nodes |->
          IF n \in Ready \cap Barriers THEN attempt[n] + 1 ELSE attempt[n]]
    /\ ctl' = IF Pending \cup Ready = {} THEN "conclude" ELSE "wait"
    /\ UNCHANGED <<route, failures, tried, poolsOut, repacked, rehydrated, shrinks, hist,
                   cancelled, choice, previous, waited, revocations, cancelling, crashed,
                   finished, reviewer, cancelRequested, offset, inflight, cooling,
                   logVars, envVars, workVars>>

\* Mutants of Gathered: published at once; published with another outcome.
Gathered_at_once ==
    /\ ctl = "gather"
    /\ finished' = "CANCELLED"
    /\ ctl' = "done"
    /\ UNCHANGED <<nodeVars, drvVars, reviewer, cancelRequested, offset,
                   inflight, cooling, logVars, envVars, workVars>>

Gathered_as_blocked ==
    /\ ctl = "gather"
    /\ Live = {}
    /\ finished' = "BLOCKED"
    /\ ctl' = "done"
    /\ UNCHANGED <<nodeVars, drvVars, reviewer, cancelRequested, offset,
                   inflight, cooling, logVars, envVars, workVars>>

\* Every cancelled task has ended: the cancellation is published.
Gathered ==
    /\ ctl = "gather"
    /\ Live = {}
    /\ finished' = "CANCELLED"
    /\ ctl' = "done"
    /\ UNCHANGED <<nodeVars, drvVars, reviewer, cancelRequested, offset,
                   inflight, cooling, logVars, envVars, workVars>>

\* The finally of run, on the deadline path.
Drained ==
    /\ ctl = "drain"
    /\ Live = {}
    /\ ctl' = "done"
    /\ UNCHANGED <<nodeVars, drvVars, finished, reviewer, cancelRequested, offset, inflight, cooling, logVars, envVars, workVars>>

-----------------------------------------------------------------------------
(* Conclusion (_conclude) and independent review. *)

Leaves == {n \in Nodes : \A m \in Nodes : n \notin Deps[m]}
AllValidated == \A n \in Nodes : state[n] = "VALIDATED"

\* Mutant: only the last route of each node.
Implementers_last_route == {route[n] : n \in Nodes} \ {NoRoute}

\* Routes the review must exclude: every node's last route and the routes of
\* its recorded attempts.
Implementers == UNION {hist[n] \cup ({route[n]} \ {NoRoute}) : n \in Nodes}

\* A node is not validated: BLOCKED.  All are: their leaf commits are merged,
\* which raises out of run when several leaves conflict.
Conclude ==
    /\ ctl = "conclude"
    /\ \/ /\ ~AllValidated
          /\ finished' = "BLOCKED"
          /\ ctl' = "done"
       \/ /\ AllValidated
          /\ ctl' = "review"
          /\ UNCHANGED finished
       \/ /\ AllValidated
          /\ Cardinality(Leaves) > 1
          /\ ctl' = "dead"
          /\ UNCHANGED finished
    /\ UNCHANGED <<nodeVars, drvVars, reviewer, cancelRequested, offset,
                   inflight, cooling, logVars, envVars, workVars>>

\* A reviewer route outside the implementers passes the result (first outside
\* their families, then, if there is none, outside the routes alone), or the
\* review fails, errs or finds no reviewer.
Review ==
    /\ ctl = "review"
    /\ \/ \E r \in Routes \ Implementers :
             /\ reviewer' = r
             /\ finished' = "COMPLETE"
       \/ /\ finished' = "BLOCKED"
          /\ UNCHANGED reviewer
    /\ ctl' = "done"
    /\ UNCHANGED <<nodeVars, drvVars, cancelRequested, offset, inflight,
                   cooling, logVars, envVars, workVars>>

-----------------------------------------------------------------------------
(* Environment. *)

\* A cooldown runs out.
CooldownExpires ==
    /\ \E k \in cooling : cooling' = cooling \ {k}
    /\ UNCHANGED <<nodeVars, drvVars, ctlVars, inflight, logVars, envVars, workVars>>

\* Mutants of a resume: attempts of earlier lives are forgotten; the control
\* file is read from its end.
prior_attempts_forgotten(n) == 0
ReaderStart_at_end == Len(controls)

\* What a new controller finds in the event log of the run it resumes.
prior_validated == logValidated
prior_attempts(n) == logAttempt[n]

\* A new ControlReader reads the control file from its beginning.
ReaderStart == 0

\* The controller dies, or a run that ended short of COMPLETE is resumed: a new
\* controller rebuilds the nodes from the event log.
Resume ==
    /\ restarts < MaxRestarts
    /\ finished # "COMPLETE"
    /\ restarts' = restarts + 1
    /\ state' = [n \in Nodes |-> IF n \in prior_validated THEN "VALIDATED" ELSE "PLANNED"]
    /\ attempt' = [n \in Nodes |-> IF n \in prior_validated THEN 0 ELSE prior_attempts(n)]
    /\ route' = [n \in Nodes |-> IF n \in prior_validated THEN logRoute[n] ELSE NoRoute]
    /\ authors' = [n \in Nodes |-> IF n \in prior_validated THEN authors[n] ELSE {}]
    /\ failures' = [n \in Nodes |-> <<>>]
    /\ tried' = [n \in Nodes |-> {}]
    /\ poolsOut' = [n \in Nodes |-> {}]
    /\ repacked' = [n \in Nodes |-> {}]
    /\ rehydrated' = [n \in Nodes |-> {}]
    /\ shrinks' = [n \in Nodes |-> 0]
    /\ hist' = [n \in Nodes |-> {}]
    /\ cancelled' = [n \in Nodes |-> FALSE]
    /\ drv' = [n \in Nodes |-> "none"]
    /\ choice' = [n \in Nodes |-> NoRoute]
    /\ previous' = [n \in Nodes |-> NoRoute]
    /\ waited' = [n \in Nodes |-> FALSE]
    /\ revocations' = [n \in Nodes |-> 0]
    /\ cancelling' = [n \in Nodes |-> FALSE]
    /\ crashed' = [n \in Nodes |-> FALSE]
    /\ ctl' = "poll"
    /\ finished' = "none"
    /\ reviewer' = NoRoute
    /\ cancelRequested' = FALSE
    /\ inflight' = [n \in Nodes |-> NoRoute]
    /\ offset' = ReaderStart
    /\ UNCHANGED <<cooling, logVars, salvage, controls, sends, stopped>>

\* A finished controller stays finished.
Terminated == ctl \in {"done", "dead"} /\ UNCHANGED vars

-----------------------------------------------------------------------------
DriverStep(n) ==
    \/ Select(n) \/ SelectWaits(n) \/ SelectNone(n) \/ CooldownOver(n)
    \/ Bind(n) \/ Proof(n) \/ AcquireSlot(n)
    \/ Launch(n) \/ RejectLocally(n) \/ Cleanup(n) \/ Permit(n)
    \/ WorkerFails(n) \/ WorkerSucceeds(n) \/ EpochRead(n)
    \/ ValidationPasses(n) \/ ValidationFails(n)
    \/ AttemptFailed(n) \/ InfraOver(n)
    \/ BarrierMerge(n) \/ BarrierVerify(n)
    \/ CancelDelivered(n)

ControllerStep ==
    \/ Wake \/ WakeDeadline
    \/ CancelRun \/ CancelNode \/ RetryNode \/ Schedule
    \/ Gathered \/ Drained \/ Conclude \/ Review

Next ==
    \/ \E n \in Nodes : DriverStep(n) \/ Crash(n) \/ CancelLost(n)
    \/ ControllerStep
    \/ request_control
    \/ CooldownExpires
    \/ Resume
    \/ Terminated

Spec == Init /\ [][Next]_vars

\* The event loop runs every task whose await has completed before the
\* controller's 0.1 s wait matters, every await of a driver is bounded by a
\* timeout, and the controller always comes back from its wait.  Nothing
\* obliges the deadline to pass, a driver to crash or an operator to act.
Fairness ==
    /\ \A n \in Nodes : SF_vars(DriverStep(n))
    /\ WF_vars(Wake \/ CancelRun \/ CancelNode \/ RetryNode \/ Schedule
               \/ Gathered \/ Drained \/ Conclude \/ Review)

FairSpec == Spec /\ Fairness

-----------------------------------------------------------------------------
(* Properties. *)

NodeTypes ==
    /\ state \in [Nodes -> NodeState]
    /\ attempt \in [Nodes -> Nat]
    /\ route \in [Nodes -> Routes \cup {NoRoute}]
    /\ failures \in [Nodes -> Seq(Category)]
    /\ tried \in [Nodes -> SUBSET Routes]
    /\ poolsOut \in [Nodes -> SUBSET Pools]
    /\ repacked \in [Nodes -> SUBSET Routes]
    /\ rehydrated \in [Nodes -> SUBSET Routes]
    /\ shrinks \in [Nodes -> Nat]
    /\ hist \in [Nodes -> SUBSET Routes]
    /\ cancelled \in [Nodes -> BOOLEAN]

DriverTypes ==
    /\ drv \in [Nodes -> DriverPc]
    /\ choice \in [Nodes -> Routes \cup {NoRoute}]
    /\ previous \in [Nodes -> Routes \cup {NoRoute}]
    /\ waited \in [Nodes -> BOOLEAN]
    /\ revocations \in [Nodes -> Nat]
    /\ cancelling \in [Nodes -> BOOLEAN]
    /\ crashed \in [Nodes -> BOOLEAN]

ControllerTypes ==
    /\ ctl \in {"wait", "poll", "gather", "drain", "conclude", "review", "done", "dead"}
    /\ finished \in {"none", "COMPLETE", "BLOCKED", "CANCELLED"}
    /\ reviewer \in Routes \cup {NoRoute}
    /\ cancelRequested \in BOOLEAN
    /\ offset \in Nat
    /\ inflight \in [Nodes -> Routes \cup {NoRoute}]

DurableTypes ==
    /\ cooling \subseteq Routes \cup Pools
    /\ logAttempt \in [Nodes -> Nat]
    /\ logValidated \subseteq Nodes
    /\ logRoute \in [Nodes -> Routes \cup {NoRoute}]
    /\ salvage \in [Nodes -> SUBSET Routes]
    /\ controls \in Seq(Requests)
    /\ restarts \in Nat

HistoryTypes ==
    /\ sends \in [Nodes -> Nat]
    /\ authors \in [Nodes -> SUBSET Routes]
    /\ stopped \subseteq Nodes

\* Every variable has its type: in particular an undone binding never takes an
\* attempt number below zero, and a route is recorded as tried, failed or
\* reserved only after one was chosen.
TypeOK == NodeTypes /\ DriverTypes /\ ControllerTypes /\ DurableTypes /\ HistoryTypes

\* The state a driver found, or set, before the await it is in.
StateAt(pc) ==
    CASE pc \in {"select", "cooldown", "bind", "proof", "slot"} -> {"PLANNED"}
      [] pc = "base"                                           -> {"ADMITTED"}
      [] pc \in {"permit", "running", "epoch", "merge"}         -> {"RUNNING"}
      [] pc \in {"validate", "verify"}                         -> {"TERMINAL_SUCCESS"}
      [] pc \in {"failing", "infra"}              -> {"TERMINAL_FAILURE", "REJECTED"}
      [] pc = "cleanup"                                        -> {"BLOCKED"}

\* The control handlers write the state of a node whose driver is in the middle
\* of an attempt.  A driver that may still step finds the node as it left it, so
\* check_transition never raises in it, unless an accepted control stopped the
\* node; and a node that is being retried has no driver left.
DriverOwnsState ==
    \A n \in Live : ~cancelling[n] /\ n \notin stopped => state[n] \in StateAt(drv[n])

\* A node has a driver, and is VALIDATED, only over dependencies that are
\* VALIDATED, through operator retries, cancelled siblings and resumes
\* (_ready, _propagate_blocks, prior_validated).
DependencyBarrier ==
    \A n \in Nodes : drv[n] # "none" \/ state[n] = "VALIDATED" =>
        \A d \in Deps[n] : state[d] = "VALIDATED"

\* No node is sent more often than policy.max_attempts_per_node, counting the
\* attempts of every controller life and of every operator retry, and though a
\* binding undone before dispatch gives its number back.
SendBudget == \A n \in Nodes : sends[n] <= MaxAttempts

\* Attempt numbers are dispatched in increasing order across controller lives:
\* the worktree, lease and permit id of an attempt are never used again
\* (prior_attempts, permit_attempt_id).
DispatchNumbersIncrease ==
    [][\A n \in Nodes : drv[n] = "base" /\ drv'[n] \in {"permit", "running", "cleanup"}
          => logAttempt'[n] > logAttempt[n]]_vars

\* A node stopped by an accepted cancel_node or cancel_run is never sent again,
\* by the controller, by an operator's retry or after a resume
\* (_handle_retry_node: "node was cancelled; replacement prohibited").
CancelledNotReplaced ==
    [][\A n \in stopped : sends'[n] = sends[n]]_vars

\* The route that passed the review wrote nothing that is in the result, not
\* even partial work salvaged from an attempt that failed (_conclude: "the
\* reviewer must not be any route that wrote code in this run").
ReviewerIndependent ==
    finished = "COMPLETE" => \A n \in Nodes : reviewer \notin authors[n]

\* A driver that crashed between selection and send leaves its reservation behind:
\* on its node while that is blocked, and after an operator's retry (which wants a
\* failure on record) until the node is bound again.
LeftByCrash(n) ==
    /\ DriversCrash
    /\ state[n] = "BLOCKED" \/ (state[n] # "VALIDATED" /\ failures[n] # <<>>)

\* A route counts in route_load from the moment it is selected until its worker
\* has answered ("reserved at SELECTION time, not dispatch"), through undone
\* bindings; and a node without a driver that no control stopped and no crash
\* blocked holds no reservation, so load never accumulates on a route nobody uses.
LoadCoversSends ==
    \A n \in Nodes :
        /\ drv[n] \in {"slot", "base", "permit", "running"} => inflight[n] = route[n]
        /\ drv[n] = "none" /\ n \notin stopped /\ ~LeftByCrash(n) => inflight[n] = NoRoute

\* The controller concludes only when every node is settled: no node is left
\* PLANNED behind a dependency that will never validate, and none in the middle
\* of an attempt whose driver crashed or was cancelled (run, _propagate_blocks).
SettledAtConclusion ==
    ctl = "conclude" => \A n \in Nodes : state[n] \in {"VALIDATED", "BLOCKED"}

\* A cancelled run is published only when no driver, and so no worker, runs any
\* more, even one whose cancellation was swallowed (run: "Wait for the cancellable
\* executor to kill its process group before publishing the terminal event").
\* The deadline path publishes first and has no such promise.
PublishedAfterWorkersStop == finished = "CANCELLED" => Live = {}

\* Every run ends: attempts, revocations and waits are bounded, a slot is always
\* given back, and nothing waits for a node that cannot move.
RunEnds == <>(ctl \in {"done", "dead"})

\* An accepted cancel_run is published as CANCELLED.
CancelPublished == cancelRequested ~> finished = "CANCELLED"

-----------------------------------------------------------------------------
(* DagRuntime implements GoalRun. *)

\* What the owner of the run sees of a node.
PhaseOf(n) ==
    CASE state[n] = "VALIDATED" -> "validated"
      [] state[n] = "BLOCKED"   -> "blocked"
      [] OTHER                  -> "open"

Goal == INSTANCE GoalRun WITH
    phase   <- [n \in Nodes |-> PhaseOf(n)],
    outcome <- finished

\* Through attempts, cancellations, crashes of drivers, the deadline and resumes
\* the nodes and the outcome of a run move only as GoalRun allows: no validated
\* node is lost, none validates over an unvalidated dependency or after its
\* cancellation, and COMPLETE is published only over validated nodes (_set,
\* _conclude, _finish, prior_validated).
ImplementsGoalRun == Goal!GoalSpec
=============================================================================
