# Verdict: a verification project for the goal-to-receipt runtime

The repository (`src/verdict`) routes work to language-model workers. Its own
core logic, and the part that is hard to test, is the *goal runtime* in
`src/verdict/orchestration/`: a goal is planned into an acyclic graph of work
nodes, a controller drives the nodes concurrently through attempts on different
routes, failures cool routes and credential pools, an operator may cancel or
retry work while it runs, a controller that died is resumed from its event log,
and the run ends with a review by a route that wrote none of the result. A
*supervisor* process runs one controller after the other over the same run and
must leave no worker of a replaced controller behind.

Around it are four protocols between processes that share files and no memory:
the *health cache* with its dispatch permits, the *worker runtime* and the Prime
bridge that owns its children, the *gateway lifecycle*, and the *Prime
supervisor* with its multi-story admission.

This directory models the runtime and these protocols in TLA+, checks them with
TLC on small instances, and proves the main safety properties of the runtime, of
controller ownership and of the story supervisors with TLAPS for every value of
the constants.

## 1. Inventory

| Component | State | Operations | Interacts with | What is hard |
|---|---|---|---|---|
| **DAG runtime** `orchestration/runtime.py` | `NodeRun` per node (state, attempt, route, failures, tried routes, pools, history), driver tasks (`pending`), slots, `_inflight` reservations, `_cancelled_by_control` | `run`, `_drive`, `_attempt`, `_integrate_node`, `_fail`, `_propagate_blocks`, `_ready`, `_conclude`, control handlers | all below | one coroutine per node suspended in a dozen awaits while the controller and siblings change shared state; cancellation; exceptions |
| **Node lifecycle** `contracts.py` | none | `check_transition`, `WorkGraph.layers` | runtime | a transition that raises in the wrong task |
| **Recovery** `recovery.py`, `credential_pools.py` | none | classification, `RecoveryBudget.decide` | runtime, controls | which budget counts what |
| **Controls** `controls.py` | an append-only file, a reader offset | `request_control`, `ControlReader.pending` | operator -> runtime | replay after a restart, torn line |
| **Run assembly and resume** `run.py` | the event log's dispatches and validations | `prior_validated`, `prior_attempts`, restored `NodeRun`s | runtime, event log | crash between any two steps |
| **Selection and cooldowns** `selection.py`, `eligibility.py` | cooldown tables | select, cool, `record_success`, recheck before dispatch | runtime, health cache | a choice that is stale when used |
| **Health cache** `health_cache.py`, `verified_refresh.py`, `session_feedback.py`, `admit_prove_confirm.py` | one JSON file under a lock; a copy in every process; per route the last check, its backoff, the last failure, a write revision; token buckets | `record`, passive and agentic writers, `save`, `reload`, `merge_and_save` | selection, permits | a long-lived process saves a copy that is hours old |
| **Dispatch permits** `health_cache.py`, `relay.py`, `api.py` | scope records with epochs, consumed attempt ids, in the same file | `admission_proof`, `commit_dispatch`, `record_revocation`, epoch read after a send | runtime, relay, worker runtime, revokers | revocation racing a send, two processes merging |
| **Worker runtime and Prime bridge** `worker_runtime.py`, `runtime_bridge.py` | ranked candidates, attempts, blocked providers; two mailbox files; owned children | `WorkerController.run`, `PrimeFileAdapter.rpc`, `PrimeWorkerOperation.serve` | permits, Prime | a call given up by one side and served by the other; a killed controller |
| **Gateway lifecycle** `gateway_lifecycle.py` | a launch lock, a process group, a port | `ensure_gateway_ready`, `_wait_for_owner`, `_wait_for_launch`, `_stop_launched` | every command that needs the gateway | two callers, wrappers that die before what they started, foreign listeners |
| **Controller ownership** `controller_operations.py` | generation file and its lock, launch intents, worker register, cgroup leaf, leases | `activate_generation`, `bind_controller`, `owned_worker_command`, `register_worker`, `operation_scope`, `revoke_generation`, `cleanup_workers` | controllers, launchers, supervisor | three kinds of processes over one file; a dead controller's late worker; a stopped lock holder |
| **Supervisor** `supervisor.py` | child process, restart counter, outcome | `run`, `_supervise_one`, `_watch`, `_kill`, `_fail_closed` | ownership, event log | crash between any two steps; a verdict that comes late |
| **Prime supervisor** `scripts/prime_supervisor.py` | `supervisor.lock`, session directories, restart counter | fence, `_check_admission`, `run_attempt`, `stop_owned_daemon`, `recover` | admission, Prime daemon | a killed supervisor's client and session go on |
| **Admission and governor** `supervisor_admission.py`, `concurrency_governor.py`, `story_footprint.py` | story locks with footprints | `evaluate_admission`, `acquire_story_lock`, `collide`, `admit` | Prime supervisor | a decision on running stories that change |
| **Event log, receipt, claims** `receipt.py`, `claims.py` | hash-chained log | append, verify, render | run | resumed chains |
| Executors, salvage, review parsing, planner, worker context, improvement cycle, TUI, CLI | I/O or text | | | not modelled, see section 8 |
| Serving path (`api.py`, `proxy.py`, `failover_engine.py`, ...), memory plane, harness adapters, ledgers | separate subsystems | | | not modelled |

What makes the core correct, and where each statement is checked:

* a driver finds its node in the state it left it in (`DriverOwnsState`);
* no node starts, or counts as validated, over a dependency that is not
  validated (`DependencyBarrier`);
* the attempt budget holds over retries by the driver, by the operator and by
  resumed controllers (`SendBudget`), and no attempt number is dispatched twice
  (`DispatchNumbersIncrease`);
* what was cancelled stays cancelled (`CancelledNotReplaced`);
* the reviewer wrote nothing of what it reviews (`ReviewerIndependent`);
* load is accounted from selection to answer, and given back
  (`LoadCoversSends`);
* the controller concludes over settled nodes only (`SettledAtConclusion`),
  publishes a cancellation after the workers stopped
  (`PublishedAfterWorkersStop`), and always ends (`RunEnds`, `CancelPublished`);
* all of it seen from outside is one simple machine (`ImplementsGoalRun`);
* a run never has two controllers (`OneController`), nothing survives the
  replacement of its generation (`NoStrays`), no payload starts after a
  revocation (`ExecsWhileActive`), a reported verdict means nothing runs
  (`QuietAtEnd`), and a supervisor ends whoever hangs (`SupervisorEnds`);
* the dispatch records of all processes are one atomic register
  (`ImplementsRegister`); no permit is minted from a proof that a revocation or
  a failure overtook, whoever saved what in between (`NoPermitOverRevocation`,
  `NoPermitOverFailure`), and a permit acted on is its holder's
  (`PermitsOnFile`);
* a worker operation has one writer at a time (`OneWriter`), delivers the result
  of the child it names (`Delivered`), ends (`Ends`), and nothing the bridge
  owns is left behind silently (`Reclaimed`);
* contending callers launch one gateway (`OneGateway`), a call that fails leaves
  no process it does not mention (`NoSilentOrphan`), and returns (`CallsReturn`);
* supervised writers work on different stories and share no file that comparing
  their declared entries can tell (`WritersApart`), a killed supervisor's writer
  is stopped before the next one starts (`FencedOff`), and the governor's cap
  holds for the stories that admissions could see (`WithinCap`).

The hazards these properties are for are listed, each with the line where it
bites, under `hazards` in `PROJECT.json`.

## 2. Modules

| Module | What it is |
|---|---|
| `Contracts` | node lifecycle, failure categories with their recovery action and cooldown scope, `RecoveryBudget.decide`; no state |
| `DagRuntime` | the runtime with the control channel and resume; one action per stretch of code between two awaits |
| `GoalRun` | what the owner of a run is promised: the abstract specification |
| `MC_DagRuntime` | the graphs and pool maps of the TLC instances |
| `DagRuntimeProofs` | the inductive invariant and the TLAPS proofs: budget, dependencies, conclusion |
| `DagDriverProofs` | what drivers and controller leave to each other: ownership, load, publication |
| `DagPromiseProofs` | what a run promises: cancellation, independent review, the refinement of `GoalRun` |
| `ControllerOwnership` | supervisor, controllers and worker launchers over the generation file |
| `ControllerOwnershipProofs` | its inductive invariant and the TLAPS proofs |
| `HealthStore`, `MC_HealthStore` | cache file, writers with copies, dispatchers; its instance |
| `HealthStoreProofs` | its inductive invariant, the TLAPS proofs and the refinement of `DispatchRegister` |
| `DispatchRegister` | what the dispatch records promise: the abstract specification |
| `WorkerDispatch`, `MC_WorkerDispatch` | one worker operation: controller, bridge, children; its candidate pool |
| `WorkerDispatchProofs` | its inductive invariant and the TLAPS proofs |
| `GatewayLifecycle` | callers of `ensure_gateway_ready`, the groups they launch and the port |
| `GatewayLifecycleProofs` | its inductive invariant and the TLAPS proofs |
| `StorySupervisor`, `MC_StorySupervisor` | Prime supervisors, admission, sessions; its footprints |
| `StorySupervisorProofs` | its inductive invariant and the TLAPS proofs |

### How DagRuntime corresponds to the code

All tasks of the runtime share one asyncio event loop, so the code between two
awaits is atomic and **an await is a program counter**. `drv[n]` is the await
the driver task of node `n` is in:

| `drv[n]` | the await | left by |
|---|---|---|
| `select` | the selector thread of `_drive` | `Select`, `SelectWaits`, `SelectNone` |
| `cooldown` | the one bounded sleep for a cooling route | `CooldownOver` |
| `bind`, `proof` | back from selection; `_bind_proof` | `Bind`, `Proof` |
| `slot` | `async with self._slots` | `AcquireSlot` |
| `base` | `_node_base`, `add_worktree`, prompt assembly | `Launch`, `RejectLocally` |
| `permit` | `commit_dispatch` in a thread | `Permit` |
| `running` | the executor's send | `WorkerFails`, `WorkerSucceeds` |
| `epoch` | the revocation epoch read after a send | `EpochRead` |
| `validate` | ownership check, verification, gates, commit | `ValidationPasses`, `ValidationFails` |
| `failing` | `_fail`: salvage, worktree removal | `AttemptFailed` |
| `infra` | the wait after an infrastructure fault | `InfraOver` |
| `cleanup` | worktree removal of a locally settled attempt | `Cleanup` |
| `merge`, `verify` | `_integrate_node` of a barrier node | `BarrierMerge`, `BarrierVerify` |
| `done` | finished, not yet reaped | `Wake`, `WakeDeadline` |

A driver may also raise (`Crash`), be cancelled at its await
(`CancelDelivered`), or have the cancellation of its send swallowed
(`CancelLost`). `ctl` is the await of the controller: `wait` (`asyncio.wait`
with its 0.1 s), `poll` (no await: reading controls and scheduling),
`gather` and `drain` (waiting for cancelled tasks), `conclude`, `review`,
`done`, and `dead` (an exception left `run`). Drivers move only in `wait`,
`gather` and `drain`.

The operator's `request_control` appends to `controls`; `Read` hands one request
to `CancelRun`, `CancelNode` or `RetryNode`; `Schedule` is `_propagate_blocks`
and `_ready`. `Resume` is the death of the controller at any point, or the
resume of a run that ended short of COMPLETE: `logAttempt`, `logValidated`,
`logRoute`, `salvage`, `cooling` and the control file survive, everything else
is rebuilt. `sends`, `authors` and `stopped` are history variables.

### How ControllerOwnership corresponds to the code

Here the actors are processes. A step ends at every read, write or lock of the
state file and at every wait; what is done under the lock is one step, except
where another process can be stopped or killed holding it (`ControllerLocks`,
`LauncherRegisters` until `LauncherExecs`, `RemoveLeaf` until `ForgetWorkers`).

| Variable | In the code |
|---|---|
| `file`, `lock` | `controller-operations.json` and its flock; generation tokens are numbers |
| `leaves` | cgroup directories `verdict-<token>` |
| `alive` | generations whose controller process runs |
| `lpc`, `lgen` | a launch: `intent` on file, `spawned`, `checked` (file read without the lock), `joined` (in the cgroup), `registered` (past the gate, holding the lock), `worker` (payload), `gone` |
| `log` | the last `run_finished`: by which generation, its outcome, and whether it is after `_start_seq` |
| `sup` | the supervisor's next step; `down` is a dead or interrupted supervisor, `done` one that returned `outcome` |
| `watched` | what `_watch` returned, a COMPLETE or BLOCKED verdict included; `UNSPAWNED`, `UNKNOWN`, `UNBOUND` are a failed spawn, a cancelled spawn that did not answer, and a failed bind |
| `snap`, `revoked`, `verified` | the snapshot, the result of `revoke_generation` and the `revocation_verified` argument of `cleanup_workers` |

| `sup` | code | left by |
|---|---|---|
| `start`, `recover`, `recovered` | `run` up to its loop | `ReadPriorState`, `RevokePrior`, `Recovered` |
| `loop`, `preflight`, `spawn`, `bind` | `run`, `_supervise_one` | `DeadlineBeforeSpawn`, `ActivateGeneration`, `PreflightContainment`, `SpawnController`, `BindController` |
| `watch` | `_watch` | `Watch` |
| `finally`, `revoke`, `kill` | the finally of `_supervise_one` | `ReadSnapshot`, `RevokeGeneration`, `KillController`, `KillUnverified` |
| `cleanup`, `populated`, `remove`, `removed` | `cleanup_workers`, at startup (`watched = "none"`) and after a life | `KillContainment`, `Unpopulated`, `StillPopulated`, `RemoveLeaf`, `ForgetWorkers` |
| `blocked` | an `OwnershipError` of the cleanup | `CleanupBlocked` |
| `ended` | `run` after a life | `Finished`, `GivesUp`, `Restart`, `Interrupted` |

`outcome` is BLOCKED where the code returns BLOCKED, and CLEANUP_BLOCKED where
it does so because of an `OwnershipError`: the code tells them apart by the
generation's recorded state and the reason. `SupervisorCrashes` is possible at
every step; `SupervisorStarts` is `verdict supervise` on the same run later.

### Abstractions of ControllerOwnership

* A stall, a timeout or the deadline may come at any moment. What a lease says
  only decides when a stall is declared, so leases are just uses of the lock.
* Tokens and process identities are never reused (`same_process` compares boot,
  start time, group and session). Descendants of a worker are in its cgroup and
  count as the worker.
* cgroup.kill takes effect at once; a process that does not die is the timeout
  (`StillPopulated`), which is possible whenever there is a leaf.
* Files are readable and well formed; errors of /proc are left out.
* A crash between making a leaf and recording it leaves an empty directory
  nobody refers to, and is not modelled.
* Two supervisors do not overlap. Nothing in the code prevents it (see the
  hazards); a module of overlapping supervisors is in the plan.

### Abstractions of DagRuntime

* Clocks: a cooldown or the run deadline may expire at any moment.
* Selection is any route that is neither tried, excluded by pool nor cooling;
  ranking and evidence only narrow that choice. The selector reads and answers
  in one step, the recheck on the event loop is a later one.
* A worker's answer is success or any failure category of the instance.
  Categories that every reader treats alike share one name (`Contracts`). What
  validation reports goes through the same classifier, whose text rules come
  before the prefix that names the barrier: a rejected node may be recorded as a
  context limit, a busy gateway or a route failure that cools the route
  (`RejectedCategories`). A pool failure cools the pool, or the route alone where
  its text names one model (`Scopes`); either way the node avoids the pool.
* File contents: only which routes wrote what is in the worktree or salvage.
* Permits are granted, denied or revoked at any moment; the store that decides
  is `HealthStore`.
* The work graph is a constant; `WorkGraph.layers` refuses a cycle, which is
  the last conjunct of `GraphAssumption`.
* A request is appended to the control file when the controller polls and has
  read all earlier ones. Nothing reads the file at any other time, so an
  earlier append is not distinguishable from one at the poll. A line read while
  it is half written is not modelled.
* `RunControl.submit`, which refuses some requests before they are written, is
  left out: the model's operator may write any request.
* The hydrator accepts a context budget, and a reviewer is configured and
  required: the paths without them only drop steps.
* A resumed controller starts after the workers of the dead one were killed
  (`cleanup_workers`); `NoStrays` of `ControllerOwnership` is that promise.

### HealthStore

`disk` is the file. A `Writer` is a `HealthCache` object that lives on, with its
copy `mem` and the snapshot `loaded` that its copy last matched: `RecordInMemory`
changes the copy, `Save` merges it over the file (`_merge_in_memory_over_disk`:
an entry that was not changed here yields to the file, one that was yields to a
newer revision or failure), `Reload` and `WriterRestarts` replace it. Everything
that goes through `merge_and_save` loads, mutates and replaces the file under
the lock and is one step: `RecordLocked`, `ObserveFailure`, `PassiveTraffic`,
`PassiveFailure`, `AgenticEvidence`, `RevokeScope`, `CommitDispatch`. A
`Dispatcher` reads a proof (`BindProof`), takes its time stamp (`AskPermit`) and
only then waits for the lock (`CommitDispatch`, `LockTimeout`); `CallerCancelled`
leaves the commit to a thread nobody waits for; `CheckEpoch` is the read after
the send. A revocation carries the time its caller read, at or after the permit
and before the lock was taken. `worst` is a history variable: the latest failure that was ever on
file.

Abstracted: a route has one scope; the clock is a small counter; scoped
cooldowns, token buckets, rescreen requests and the refresh cursor are left out.

### WorkerDispatch

`pc` is where the controller is: `loop` (choosing), `permit`, the three waits for
the bridge (`Waiting`: spawn, collect, delete), and its ends. `request` and `response` are the two files, each
the last write only, matched by request id; a request given up is still taken by
the bridge (`Take`) and answered (`Respond`) into a file that may by then be
read for another call. `bridge` is where `serve` is; `Stop` and `Close` are its
finally. `Faults` lets the local writes fail that the code handles: the spawn
receipt, the cache, the admission file, the answer, and the cleanup-error.json of
a deletion that fails; that last one ends `serve` in an exception (`aborted`) with
the remaining children as they are. `Killed` is SIGKILL of the
controller at any point. `TimeoutIsBuiltin` is the Python version: before 3.11
`asyncio.TimeoutError` is not `TimeoutError`. `misreported` is a history
variable: children admitted under an answer that says error.

Abstracted: what probe, passport and permit say is chosen; a child's terminal is
valid or not; the rlm runtime is external.

### GatewayLifecycle

`pc[c]` is the next step of a call: first probe, lock, probe under the lock,
launch, the two waits with their probes, and the steps of `_stop_launched`. A
launched group is a leader and a descendant, either of which may serve the port;
processes die, hang and change health by themselves at any time, so a signal has
no effect of its own and the code's belief rests on what it observes
(`GroupGone`, `Reaped`). A call whose flock fails is a contender, also when the
lock is free. `DeadlinePasses` is the readiness deadline.
`lapsed` is a history variable: groups left running by their call that did not
answer as healthy at some moment since.

### StorySupervisor

`pc[p]` is the step of `main`: `start` (supervisor.lock), `fence`, `evaluate`,
`claim` (story lock), then per attempt `run`, `verify`, `watch`, `stop`,
`settle`. `multi` is VERDICT_MULTI_STORY. `master` and `holder` are the locks,
which go with their process; `client` and `live` (sessions at the daemon) do
not. A session directory is a pair of supervisor and attempt number;
`Directory` are those below the state directory of the story. `late` is a
history variable: with the flag off, sessions of a killed supervisor that began
while the next one held supervisor.lock.

A footprint is a set of declared entries, authorities included, empty when
unknown or invalid. Three constants tell what an entry's text matches from what is
written under it. `Kind` is a file, a directory with its slash, a directory
declared without it (`bare`) or a glob. `Covers` is what `_paths_overlap` finds by
prefix or by fnmatch, and `Overlap` is its verdict on two entries. `Writes` are the
files that a story may write under an entry. `FootprintAssumption` says where the
comparison is right: for `Comparable` entries, a common file means that they
overlap. For two globs, a glob and a directory, or a directory without its slash,
nothing of the kind is assumed.

`EvaluateAdmission` decides on the stories whose lock it found held, any of which
may be missing (`unread`): `read_running_stories` skips a lock that it cannot open
or try. `missed[p]` and `overlooked` are history variables: the running stories
that the admission of `p`, or any admission, did not see.

Abstracted: route selection, prompts, receipts and cooldowns; the ready gate only
refuses; pressure is 0, which is what the caller passes. Stories are named
(`--story`); `--skip-identity-verify`, `supersede_stale_leases` and the
integration lock, which has no caller, are left out.

## 3. Runs

| Run | Instance | Checks | Shows |
|---|---|---|---|
| `attempts` | 2 independent nodes, 1 slot, 1 route, 2 attempts, 1 request, crashes, swallowed cancellations, fair scheduling | `TypeOK`, `DriverOwnsState`, `LoadCoversSends`, `PublishedAfterWorkersStop`, `RunEnds`, `CancelPublished` | bindings undone while waiting for the slot, with a sibling cooling routes and an operator cancelling; the run ends |
| `recovery` | 1 node, 3 routes (two in one pool), 3 attempts, permits, all twelve categories | `SendBudget`, `ReviewerIndependent`, `LoadCoversSends` | repack, rehydrate, infrastructure wait, reroute, salvage and restore in every order |
| `resume` | chain of 3 that ends in a barrier, drivers crash, a restart, 2 requests, deadline | `DependencyBarrier`, `SendBudget`, `DriverOwnsState`, `SettledAtConclusion`, `DispatchNumbersIncrease`, `CancelledNotReplaced`, `ImplementsGoalRun` | a controller that dies at any point, and every sequence of requests, which are replayed; refinement of `GoalRun` |
| `ownership` | 1 launch, 1 restart, 2 supervisors, containment made up front (as the CLI does), fair supervisor | `TypeOK`, `OneController`, `NoStrays`, `QuietAtEnd`, `SupervisorEnds`, `ExecsWhileActive` | supervisor, controllers and launchers in every order, with crashes, stalls, stopped lock holders and failed spawns |
| `permits` | 1 route, 1 long-lived writer, 2 dispatchers, 2 attempt ids, 1 revocation, 3 times, 2 revisions | `TypeOK`, `PermitsOnFile`, `NoPermitOverRevocation`, `NoPermitOverFailure`, `ImplementsRegister` | stale copies merged and saved between any two steps of a dispatch; refinement of `DispatchRegister`; 1.8 million states |
| `worker` | 3 candidates of 2 providers, 2 attempts, 1 poll, every fault, fair controller and bridge | `TypeOK`, `OneWriter`, `Delivered`, `Reclaimed`, `Ends` | timeouts against late answers, kills, failing writes; 1.4 million states |
| `gateway` | 2 callers, foreign listeners, fair callers | `TypeOK`, `NoSilentOrphan`, `OneGateway`, `CallsReturn` | contention, wrappers that die before their gateway, failed stops |
| `stories` | 3 supervisors, 2 stories, caps 1 and 2, 3 files, 2 globs that share one of them, the unknown footprint, 1 restart | `TypeOK`, `WritersApart`, `FencedOff`, `WithinCap` | admission and fence against kills at every step and locks that cannot be read, with the flag on and off; 2.5 million states |

The bounds are the smallest at which the case of interest happens. Two nodes
and one slot make a node wait while its sibling fails; two routes make a reroute
possible and a third in a shared pool tells pool from route cooling; three
attempts let a node repack or rehydrate once and then reroute; a chain of three
needs the fixpoint of `_propagate_blocks`; two requests let a retry follow a
cancellation, or the same request come again in the next life. Attempt counters,
controls and restarts are bounded by `MaxAttempts` (the code's own policy),
`MaxControls` and `MaxRestarts`. One restart has a generation replaced, and two
supervisors have one recover what a crashed one left. In `permits`, three times
are a proof, a later failure and a still later recovery, two revisions let a
stale copy meet an entry written twice, and two dispatchers can ask for the same
attempt id. Three candidates let a reaped child be followed by another of a
blocked provider. Three supervisors are one that runs, one that was killed and
one that decides. With two stories, a cap of one is what the second must be
refused by and a cap of two leaves only their footprints to tell them apart; the
footprints have a file under a glob, which `_paths_overlap` sees, and the two globs
that both match it, which it does not.

One case is above these bounds and was found by a proof attempt: with three
attempts and crashing drivers, a driver that dies while it waits for its base
leaves its reservation (`inflight`) on a node that an operator may retry, and
the route counts one worker too many until the node is bound again. `attempts`
has two attempts (three make it too large to check in minutes), so its crashes never
meet such a retry. `LoadCoversSends` allows for it (`LeftByCrash`), and theorem
`LoadCounted` states it for every bound.

Symmetry is used in `permits` and `stories`, which check no liveness property.
Deadlock checking is on in every run of `DagRuntime`: the only action of a
finished controller is `Terminated`. It is off for the other modules, where the
system stops when every process has returned.

### Disagreements with the repository's own words

Four runs are expected to end in a violation; each shows what the code does
where a comment or docstring says otherwise (`findings` in `PROJECT.json`).

| Run | Property | Counterexample |
|---|---|---|
| `resumed_review` | `ReviewerIndependent` | r1 fails and its work is salvaged; r2 finishes the node from it; the controller dies; the resumed one knows r2 only, and r1 passes the review |
| `cancel_swallowed` | `CancelledNotReplaced` | the send of a cancelled node returns a terminal; `check_transition` raises in the driver; reaping the crash replaces the cancellation as the reason; a retry is accepted |
| `late_spawn` | `OneOwnedChild` | before Python 3.11 the spawn's timeout is not caught as one; nothing is reaped, the next candidate is spawned, and the bridge admits the first child late |
| `live_fenced` | `FenceSparesLive` | a second invocation for a running story takes supervisor.lock, stops the running session as if it were left behind, and is then refused |

Others are in the models without a run of their own:

* An admission is not "fail-closed on any unknown/missing evidence"
  (`supervisor_admission.py:365`): a story lock that cannot be opened or tried is
  skipped (`:211`). With a cap of one, p1 runs s1, p2 cannot read its lock and is
  admitted with s2, whatever the two footprints are: a behaviour of nine states
  violates `Cardinality(RunningStories) <= cap`. `WithinCap` and `WritersApart`
  leave out what an admission did not see (`overlooked`, `missed`).
* Overlapping globs do not always serialize, though `story_footprint.py:137` says
  that comparing them fails closed and `tests/test_story_footprint.py:6` names them
  as serialized: `src/*_a.py` and `src/x_*.py` both match `src/x_a.py`, neither
  matches the other's text, and both stories run. Nor does a directory collide with
  its files when it is declared without its slash, as `story_footprint.py:25` says.
  Without `Comparable`, a behaviour of thirteen states violates `WritersApart`.
* A verification failure is not always recorded as one (`recovery.py:178`): the
  tail of the verifier's output is part of the text that `classify` reads, so a test
  that prints "timed out" cools the route, and one that prints a busy gateway's
  words makes the node wait for infrastructure. The barrier's own path avoids this
  ("Gate diagnostics describe verification, never worker transport faults",
  `runtime.py:1209`).
* The bridge's finally is to "never leak an owned writer"
  (`runtime_bridge.py:184`): a deletion that fails and cannot be written to
  cleanup-error.json ends the loop, and the children after it stay. `Reclaimed` has
  this end as an alternative of its own (`aborted`).
* A request is acted on again by each controller life, although `ControlReader`
  (`controls.py:98`) is meant to hand it out once.
* `_fail_closed` (`supervisor.py:575`) leaves a COMPLETE that was published after
  the supervisor's last look, while it reports BLOCKED.
* A permit can be minted after the proof's deadline, by the two seconds that
  `commit_dispatch` waits for the lock after it was given its time
  (`runtime.py:1661` says an expired proof is not committed).
* Under the lock, only a reachable gateway ends a call of `ensure_gateway_ready`:
  a listener that turned unhealthy after the first probe is launched over,
  although the comment at `gateway_lifecycle.py:669` says that a second process
  would fight it for the port.
* When two deletions fail in the bridge's finally, the second
  `cleanup-error.json` replaces the first and one child is named nowhere;
  `Reclaimed` only says that the file exists.
* A bridge that owns a child but cannot write its admission or its answer
  reports an error, and the controller spawns the next one beside it;
  `OneWriter` leaves these out (`misreported`).
* With several stories, the session of a killed supervisor goes on while its
  story lock is free, and another story with the same paths is admitted beside
  it; `WritersApart` is about sessions whose supervisor runs.
* A client left by a killed supervisor may submit its prompt after the next one
  has fenced its directory; `FencedOff` leaves these out (`late`).
* A sibling may cool a route while its worktree is built, and it is launched
  (`Launch` has no recheck).
* `_handle_cancel_run` leaves a node that is being attempted in
  TERMINAL_FAILURE, not BLOCKED (`CancelRun`).

## 4. Fairness

`FairSpec` adds strong fairness of each node's `DriverStep` and weak fairness of
the controller without the deadline. The event loop runs every ready task, every
await of a driver is bounded (timeouts on sends, git and verification, bounded
sleeps), and `asyncio.wait` returns after 0.1 s. Strong fairness for drivers is
needed because drivers are disabled while the controller polls, and because a
slot is free only now and then; asyncio's semaphore is first come, first served.
Nothing is assumed of the deadline, the operator, cooldown expiry, crashes or
restarts. A swallowed cancellation (`CancelLost`) is possible and not assumed.

`ControllerOwnership` assumes weak fairness of the supervisor's own steps only:
each of its waits has a time limit (2 s for the lock, the grace periods of
`_kill` and `kill_containment`, the total deadline of `_watch`). Nothing is
assumed of controllers and launchers, which may stop for ever.

`WorkerDispatch` assumes weak fairness of the controller and of the bridge: each
wait of the controller has a deadline, and the bridge is a polling task of a
running kernel. Nothing is assumed of the children. `GatewayLifecycle` assumes
weak fairness of each call's steps, whose waits are polls with a time limit, and
that its deadline passes. Nothing is assumed of gateways, and a caller may be
killed.

## 5. The abstract specifications

`GoalRun` has a phase per node (open, validated, blocked) and the published
outcome. A node validates only over validated dependencies, validated is final
in every life, only a blocked node can be reopened, COMPLETE is published over
validated nodes only, and a resume keeps what was validated. `DagRuntime`
implements it under `PhaseOf` (VALIDATED, BLOCKED, anything else) and
`finished`; run `resume` checks the refinement, and theorem `GoalImplemented`
proves it for every acyclic graph and every bound, where a cancelled send raises.
With a swallowed cancellation it does not hold: after the deadline's BLOCKED is
published, a driver that lost its cancellation may still validate its node.

`DispatchRegister` has an epoch per scope and the set of consumed attempts. A
revocation raises one epoch by one, a commit consumes one unused attempt, and
nothing else happens. `HealthStore` implements it with what is on file, though
every process merges a copy of its own over it; run `permits` checks it and
theorem `RegisterImplemented` proves it.

## 6. Proofs

`DagRuntimeProofs` proves, for every finite acyclic graph, route set and bound:

| Theorem | Statement |
|---|---|
| `TypeCorrect` | `Spec => []TypeOK` |
| `SendsBounded` | `Spec => []SendBudget` |
| `DependenciesFirst` | `Spec => []DependencyBarrier` |
| `ConcludesSettled` | `Spec => []SettledAtConclusion` |
| `NumbersIncrease` | `Spec => DispatchNumbersIncrease` |

The assumptions are those of the module: `GraphAssumption`, `RouteAssumption`,
`BoundAssumption`, all evaluated by TLC in every run. None of the properties is
inductive. The invariant `IInv` strengthens them:

* `TypeOK` is not inductive alone: a route is recorded as tried or reserved, so
  it must be one, which holds because a driver past selection has chosen
  (`Locals`); and an undone binding decrements the attempt number, which stays
  natural because the number was counted (`Budget`).
* `Budget` chains `sends <= logAttempt <= MaxAttempts`: each send of a node is
  covered by a dispatch in the log (strictly before a permit is committed), the
  log never exceeds the current attempt of a node that is not validated, and a
  bound attempt is above the log. Resumes start from the log, so the chain
  survives them. It also gives `NumbersIncrease`.
* `Validation` ties the VALIDATED state to the log and keeps the dependencies of
  every driven or validated node in it, so that the barrier survives retries and
  resumes.
* `Settlement` says what the controller can find at a poll: without a driver a
  node is PLANNED, VALIDATED or BLOCKED; a finished driver left a settled node
  unless it crashed; a driver being cancelled belongs to a BLOCKED node. At
  `Schedule`, if nothing is pending or ready, the nodes left PLANNED would form
  a set of which one has no dependency inside (acyclicity): all its
  dependencies are validated, so it is ready, or one is blocked, so it is
  blocked by propagation (lemmas `BlockedDependents`, `NothingLeft`).

There is one lemma per action, and in it one step per conjunct the action can
disturb; `NextIInv` combines them.

`ControllerOwnershipProofs` proves, for every finite set of launches and every
`MaxRestarts`, `MaxSupervisors` and way of containment, from
`OwnershipAssumption` alone:

| Theorem | Statement |
|---|---|
| `OwnershipTypes` | `Spec => []TypeOK` |
| `SingleController` | `Spec => []OneController` |
| `NoneSurvivesReplacement` | `Spec => []NoStrays` |
| `VerdictsAreQuiet` | `Spec => []QuietAtEnd` |
| `ExecFenced` | `Spec => ExecsWhileActive` |

The invariant says why the order of the code's steps matters:

* `Launchers`: every launch that can still act is on file, as an intent or as a
  worker, under the current token; one past the gate holds the lock of an active
  generation. So a revocation, which needs the lock, never falls between check
  and exec.
* `Controllers`: a running controller is announced (`controller_spawn_pending`)
  or bound on file before it can run, so a later supervisor that finds neither
  knows that none runs.
* `Snapshot`: once the generation is surely revoked nobody changes the file, so
  what `cleanup_workers` read is still true when it removes the leaf.
* `Registry`: workers on file are in a leaf.
* `QuietBetween`: an empty leaf and no intent on file mean that no launch is
  left; so the run is quiet before every activation and at every verdict.

`StorySupervisorProofs` proves, for every set of supervisors, finite set of
stories, set of footprints, relation of their texts and files, cap and number of
restarts, from `SupervisorAssumption` and `FootprintAssumption`:

| Theorem | Statement |
|---|---|
| `TypeCorrect` | `Spec => []TypeOK` |
| `CapHolds` | `Spec => []WithinCap` |
| `WritersKeptApart` | `Spec => []WritersApart` |
| `FenceHolds` | `Spec => []FencedOff` |

* `Counted` ties attempts to where they are counted, which makes `TypeOK`
  inductive.
* `Locked`: who decides holds supervisor.lock, who runs holds it or its story's
  lock, and a story lock has a running holder of that story.
* `Room` and `Apart` carry an admission over to the claim of the lock: between
  the two, stories can only stop running, because supervisor.lock is held. What the
  admission did not see is in neither: `Room` counts the running stories that every
  admission saw (`Noticed`), and `Apart` is about pairs that saw each other.
  `FootprintAssumption` takes `~Collide` to files, for comparable entries only.
* `OneSession`: a running supervisor's live session is that of its current
  attempt, and between attempts there is none (`stop_owned_daemon`).
* `Fence`: with the flag off, what is live at the fence is still to be fenced.

The actions that end a supervisor are one kind of step there (`Departs`), as are
the steps within an attempt (`Proceeds`); lemma `StepKinds` says that every step
is of one of ten kinds.

### More about DagRuntime

`DagDriverProofs` and `DagPromiseProofs` build on `DagRuntimeProofs` and need no
further assumption on constants:

| Theorem | Statement | Hypothesis |
|---|---|---|
| `DriversOwnState` | `Spec => []DriverOwnsState` | |
| `LoadCounted` | `Spec => []LoadCoversSends` | |
| `WorkersStopFirst` | `Spec => []PublishedAfterWorkersStop` | |
| `NeverReplaced` | `Spec => CancelledNotReplaced` | `~CancelSwallowed` |
| `GoalImplemented` | `Spec => ImplementsGoalRun` | `~CancelSwallowed` |
| `IndependentReview` | `Spec => [](restarts = 0 => ReviewerIndependent)` | |

The hypotheses are where the properties stop being true, not where the proof
does: run `cancel_swallowed` violates `CancelledNotReplaced` without the first,
and `resumed_review` violates `ReviewerIndependent` after one restart.
`~CancelSwallowed` says that a send that is cancelled raises `CancelledError`,
which is what an executor that awaits its process does.

`JInv` is the invariant of the first three:

* A step of a driver touches its own node only (`DriverFrame`) and happens while
  the controller waits (`DriverWaits`), so every conjunct is argued for one
  driver and for the controller's steps.
* `Owned` is `DriverOwnsState` for drivers that are being cancelled too; without
  them it is not inductive, since a swallowed cancellation goes on from there.
* `Ended`: a poll finds no ended or crashed task, and a cancelled one only of a
  node a control stopped, because `_reap` comes before.
* `Reserves` says at which awaits a reservation is held. Whether one is held at
  a driver's end depends on how it ended, so it tells crashes before the send
  from every other end; this is what showed the case of section 3.
* `Merged` keeps barriers without reservation. A rejected attempt may be of any
  category that waits, cools or rehydrates, so a driver that waits for
  infrastructure may have left its node REJECTED (`StateAt`).
* `Published` ties the outcome to the controller's last steps.

`Cancellations` carries a stop through controller lives: in the life that read
the request the node is `Halted` (retries refused, its driver can only end), in
a later one it is `Unread`: PLANNED without a driver, while the request is still
ahead of the reader's offset, and the first poll reads all of them before it
schedules. `Authorship` says that whoever wrote what is in a node's worktree is
on record in `hist` or is its current route, at the awaits where this is so; the
reviewer is chosen outside both. `GoalImplemented` uses all three: a step is a
stutter of `GoalRun` unless it validates, blocks or reopens a node, publishes or
resumes, and each of these maps to one step.

### HealthStore

`HealthStoreProofs` proves, for every set of routes, writers, dispatchers,
attempts and revocation events and every bound, from `StoreAssumption`:

| Theorem | Statement |
|---|---|
| `TypeCorrect` | `Spec => []TypeOK` |
| `PermitsStayOnFile` | `Spec => []PermitsOnFile` |
| `RevocationsRespected` | `Spec => NoPermitOverRevocation` |
| `FailuresRespected` | `Spec => NoPermitOverFailure` |
| `RegisterImplemented` | `Spec => ImplementsRegister` |

* `CopiesBehind`: what a writer holds is behind the file: no epoch, revocation
  or consumed attempt the file does not have, no later revision of an entry, and
  at the same revision no fewer failures. So a merge moves no dispatch record.
* `FailuresKept`: the last failure on file is the last there ever was; it needs
  `CopiesBehind`, since an entry is replaced by a copy of equal revision.
* `ProofsBound`: a proof taken at the epoch in force has seen every revocation
  accepted since, which is what a commit compares.

### WorkerDispatch

`WorkerDispatchProofs` proves, for every pool, attempt budget, poll budget and
set of failing writes:

| Theorem | Statement | Hypothesis |
|---|---|---|
| `TypeCorrect` | `Spec => []TypeOK` | |
| `NeverTwoWriters` | `Spec => []OneWriter` | `TimeoutIsBuiltin` |
| `SuccessDelivered` | `Spec => []Delivered` | `TimeoutIsBuiltin` |
| `OneChildAtATime` | `Spec => []OneOwnedChild` | `TimeoutIsBuiltin`, `"answer" \notin Faults` |

`TimeoutIsBuiltin` is Python 3.11 and later, where the timeout of the spawn is
the `TimeoutError` the controller catches; `late_spawn` shows what happens
before. `OneOwnedChild`, the class's own words, also needs the bridge's answers
to be written.

* `Counts` makes `TypeOK` inductive: an attempt is a candidate.
* `Mailbox`: requests are taken and answered in order, and the request on file
  is the one the controller waits for; so a late answer is of an older id.
* `Current` and `Between`: only the child of the last request may work, and the
  next one is named only when that child is known to be refused or deleted and
  the bridge has nothing of the old request in hand.
* `Truthful` and `Named`: an answer to the last request stays true, and a
  SUCCESS is about that child.

### GatewayLifecycle

`GatewayLifecycleProofs` proves, for every finite set of callers, from
`GatewayAssumption`:

| Theorem | Statement |
|---|---|
| `TypeCorrect` | `Spec => []TypeOK` |
| `OrphansTold` | `Spec => []NoSilentOrphan` |
| `AtMostOneGateway` | `Spec => []OneGateway` |

* `HoldsLock`: from the probe under the lock to the end of its stop a call holds
  the launch lock.
* `LapsesNoted` and `Alone`: whatever ran when that probe found nothing healthy
  had lapsed, and nobody without the lock adds a group; so a call that may launch
  is alone with its group.
* `NothingYet`: before its launch a call has no process, so a call that fails
  earlier leaves none.

### Only model-checked

Liveness is out of the prover's reach: `RunEnds`, `CancelPublished`,
`SupervisorEnds`, `Ends`, `Reclaimed` and `CallsReturn` are TLC's alone.
`FenceSparesLive` is violated. Every other property of the runs is a theorem,
with the hypotheses above. Two assumptions on constants were made explicit for
the proofs, and TLC evaluates them: the clock of `HealthStore` starts at 1, so
`MaxTime` is positive, and in `GatewayLifecycle` the value for "no one" is no
process.

## 7. Plan

Done: every module of section 2 with its runs, and the proofs of section 6.

1. `ReviewerIndependent` and `CancelledNotReplaced` where their hypotheses fail:
   state what is left after a restart (no author of the present life reviews)
   and after a swallowed cancellation, let TLC check it, and prove it.
2. Overlapping supervisors on one run directory, and `OperationLeases`
   (`OperationLeaseGuard`, `operation_scope`): a lease that is extended, rekeyed
   or reopened never defers a stall.
3. `PermittedRuntime`: the runtime's `permit` and `epoch` awaits composed with
   `HealthStore`, for the window between epoch read and validation.
4. The token buckets of the health cache: a sliding window of reservations with
   tombstones, merged over the file like the entries.
5. `execution_session.py` and `failover_engine.py`: checkpoints around a step's
   effect, and what a resumed session believes. (Nothing in the repository but
   the replay proof drives them today.)
6. `ControlChannel`: the control file with half-written lines.

## 8. Not modelled

Executors, salvage and review parsing (I/O and text; the runtime's view of them
is in `DagRuntime`), planner, prompt and context assembly, repository gates,
improvement cycle, TUI, renderers and CLIs (no state the run's control reads),
receipt rendering. The serving path (but for its dispatch permits), proxy,
memory plane, harness adapters, ledgers and passports are separate subsystems,
left out in favour of the goal runtime and the protocols around it.
`PROJECT.json` lists every component with its reason.

The mapped lines are a small share of the repository's implementation: most of
it is command line, HTTP serving, rendering, catalogues, prompt and context
assembly and import of foreign formats, which keep no state that two actors
share and offer a model checker nothing to interleave. What is modelled is the
code in which several tasks or processes do share state.

## 9. Running

    tlc -workers 2 -config MC_Attempts.cfg MC_DagRuntime
    tlc -workers 2 -config MC_Ownership.cfg ControllerOwnership
    tlc -workers 2 -config MC_Permits.cfg MC_HealthStore
    tlc -workers 2 -config MC_Worker.cfg MC_WorkerDispatch
    tlc -workers 2 -config MC_Gateway.cfg GatewayLifecycle
    tlc -workers 2 -config MC_Stories.cfg MC_StorySupervisor
    tlapm DagRuntimeProofs.tla
    tlapm DagDriverProofs.tla
    tlapm DagPromiseProofs.tla
    tlapm ControllerOwnershipProofs.tla
    tlapm HealthStoreProofs.tla
    tlapm WorkerDispatchProofs.tla
    tlapm GatewayLifecycleProofs.tla
    tlapm StorySupervisorProofs.tla
