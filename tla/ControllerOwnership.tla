------------------------- MODULE ControllerOwnership -------------------------
(***************************************************************************)
(* supervisor.py (ControllerSupervisor) with the worker ownership of       *)
(* controller_operations.py.                                               *)
(*                                                                         *)
(* A supervisor process runs one controller process after the other; each  *)
(* life is a generation with a token in a state file.  A controller starts *)
(* workers through launchers: processes of their own session that join the *)
(* generation's cgroup and register under the state file's lock, which     *)
(* they hold until the payload runs.  Before a controller is replaced its  *)
(* generation is revoked, the controller killed and the cgroup emptied.    *)
(* Supervisor, controllers and launchers are separate processes: the       *)
(* actions interleave between any two reads, writes or locks of the file.  *)
(*                                                                         *)
(* Abstracted: clocks (a stall, a timeout or the deadline at any moment),  *)
(* process identities (never reused), what a lease says (it only chooses   *)
(* when a stall is declared), log scanning, unreadable files.  Supervisor  *)
(* processes of a run follow one another; they do not overlap.             *)
(***************************************************************************)
EXTENDS Naturals, FiniteSets

CONSTANTS
    Launches,           \* launch ids (secrets.token_hex)
    MaxRestarts,        \* ControllerSupervisor.max_restarts
    MaxSupervisors,     \* bound: supervisor processes, one after the other
    RequireContainment  \* require_worker_containment: cgroup made up front

ASSUME OwnershipAssumption ==
    /\ IsFiniteSet(Launches)
    /\ MaxRestarts \in Nat
    /\ MaxSupervisors \in Nat \ {0}
    /\ RequireContainment \in BOOLEAN
    /\ Launches \cap {"free", "supervisor", "controller"} = {}

VARIABLES
    file,      \* controller-operations.json
    lock,      \* holder of its flock: "free", "supervisor", "controller" or a launch
    leaves,    \* generations whose cgroup leaf exists
    alive,     \* generations whose controller process runs
    lpc,       \* where a launcher or its payload is
    lgen,      \* the generation it was launched for
    log,       \* the last run_finished: whose, what, and after _start_seq?
    sup,       \* where the supervisor is
    restarts,  \* its restarts counter
    watched,   \* what _watch returned, "none" while it recovers an earlier life
    snap,      \* the state snapshot cleanup_workers works from
    revoked,   \* did revoke_generation succeed?
    verified,  \* revocation_verified, as cleanup_workers is told
    outcome,   \* SupervisorOutcome
    lives      \* supervisor processes so far

launchVars == <<lpc, lgen>>
world      == <<leaves, alive, launchVars, lives>>
run        == <<restarts, watched, snap, revoked, verified>>
supVars    == <<sup, outcome, lives, run>>
vars       == <<file, lock, leaves, alive, launchVars, log, supVars>>

\* Token 0 is a file that does not exist, controller 0 is None.
NoFile == [token |-> 0, active |-> FALSE, spawnPending |-> FALSE, controller |-> 0,
           contained |-> FALSE, workers |-> {}, pending |-> {}]

\* Launcher processes: before and after they joined the cgroup.
Unjoined == {"spawned", "checked"}
Joined   == {"joined", "registered", "worker"}
Members(g) == {l \in Launches : lgen[l] = g /\ lpc[l] \in Joined}

\* The lock is released by the kernel when its holder dies.
Released(holders) == IF lock \in holders THEN "free" ELSE lock

Init ==
    /\ file = NoFile
    /\ lock = "free"
    /\ leaves = {}
    /\ alive = {}
    /\ lpc = [l \in Launches |-> "unused"]
    /\ lgen = [l \in Launches |-> 0]
    /\ log = [by |-> 0, outcome |-> "none", new |-> FALSE]
    /\ sup = "start"
    /\ restarts = 0
    /\ watched = "none"
    /\ snap = NoFile
    /\ revoked = TRUE
    /\ verified = TRUE
    /\ outcome = "none"
    /\ lives = 1

-----------------------------------------------------------------------------
(* The controller of generation g and its launchers. *)

\* The controller enters operation_scope or owned_worker_command.
ControllerLocks(g) ==
    /\ g \in alive
    /\ lock = "free"
    /\ lock' = "controller"
    /\ UNCHANGED <<file, leaves, alive, launchVars, log, supVars>>

\* It leaves them with no launch on file: a lease, or the generation is revoked.
ControllerUnlocks(g) ==
    /\ g \in alive
    /\ lock = "controller"
    /\ lock' = "free"
    /\ UNCHANGED <<file, leaves, alive, launchVars, log, supVars>>

\* Mutant: the intent is not on file before the launcher is spawned.
LaunchIntent_unrecorded(g, l) ==
    /\ g \in alive
    /\ lock = "controller"
    /\ lpc[l] = "unused"
    /\ file.token = g /\ file.active
    /\ file' = [file EXCEPT !.contained = TRUE]
    /\ leaves' = leaves \cup {g}
    /\ lpc' = [lpc EXCEPT ![l] = "intent"]
    /\ lgen' = [lgen EXCEPT ![l] = g]
    /\ lock' = "free"
    /\ UNCHANGED <<alive, log, supVars>>

\* owned_worker_command: the intent to launch is on file, the cgroup exists.
LaunchIntent(g, l) ==
    /\ g \in alive
    /\ lock = "controller"
    /\ lpc[l] = "unused"
    /\ file.token = g /\ file.active
    /\ file' = [file EXCEPT !.pending = @ \cup {l}, !.contained = TRUE]
    /\ leaves' = leaves \cup {g}
    /\ lpc' = [lpc EXCEPT ![l] = "intent"]
    /\ lgen' = [lgen EXCEPT ![l] = g]
    /\ lock' = "free"
    /\ UNCHANGED <<alive, log, supVars>>

\* create_subprocess_exec, which may fail and leaves the intent behind.
SpawnLauncher(l) ==
    /\ lpc[l] = "intent"
    /\ lgen[l] \in alive
    /\ \E pc \in {"spawned", "gone"} : lpc' = [lpc EXCEPT ![l] = pc]
    /\ UNCHANGED <<file, lock, leaves, alive, lgen, log, supVars>>

\* register_worker reads the file without the lock.
LauncherReads(l) ==
    /\ lpc[l] = "spawned"
    /\ lpc' = [lpc EXCEPT ![l] =
          IF file.active /\ file.token = lgen[l] /\ file.contained
          THEN "checked" ELSE "gone"]
    /\ UNCHANGED <<file, lock, leaves, alive, lgen, log, supVars>>

\* join_containment: into the leaf, if it is still there.
LauncherJoins(l) ==
    /\ lpc[l] = "checked"
    /\ lpc' = [lpc EXCEPT ![l] = IF lgen[l] \in leaves THEN "joined" ELSE "gone"]
    /\ UNCHANGED <<file, lock, leaves, alive, lgen, log, supVars>>

\* Mutant: the lock is given back before the payload is executed.
LauncherRegisters_unlocked(l) ==
    /\ lpc[l] = "joined"
    /\ lock = "free"
    /\ file.active /\ file.token = lgen[l] /\ file.contained /\ l \in file.pending
    /\ file' = [file EXCEPT !.pending = @ \ {l}, !.workers = @ \cup {l}]
    /\ lpc' = [lpc EXCEPT ![l] = "registered"]
    /\ UNCHANGED <<lock, leaves, alive, lgen, log, supVars>>

\* Under the lock: still active, its intent on file.  Then it is a registered
\* worker, and the lock is kept until exec.
LauncherRegisters(l) ==
    /\ lpc[l] = "joined"
    /\ lock = "free"
    /\ file.active /\ file.token = lgen[l] /\ file.contained /\ l \in file.pending
    /\ file' = [file EXCEPT !.pending = @ \ {l}, !.workers = @ \cup {l}]
    /\ lpc' = [lpc EXCEPT ![l] = "registered"]
    /\ lock' = l
    /\ UNCHANGED <<leaves, alive, lgen, log, supVars>>

\* os.execvpe: close-on-exec releases the lock.
LauncherExecs(l) ==
    /\ lpc[l] = "registered"
    /\ lpc' = [lpc EXCEPT ![l] = "worker"]
    /\ lock' = Released({l})
    /\ UNCHANGED <<file, leaves, alive, lgen, log, supVars>>

\* The payload ends, or the launcher does: refused under the lock, no lock in 2 s,
\* the deadline past, exec failed, or killed with the attempt it belongs to.
LauncherEnds(l) ==
    /\ lpc[l] \in Unjoined \cup Joined
    /\ lpc' = [lpc EXCEPT ![l] = "gone"]
    /\ lock' = Released({l})
    /\ UNCHANGED <<file, leaves, alive, lgen, log, supVars>>

\* The controller publishes the outcome of its run, once in its life.
ControllerFinishes(g) ==
    /\ g \in alive
    /\ log.by # g
    /\ \E o \in {"COMPLETE", "BLOCKED"} : log' = [by |-> g, outcome |-> o, new |-> TRUE]
    /\ UNCHANGED <<file, lock, leaves, alive, launchVars, supVars>>

\* The controller of g is dead: its lock is free, its intents are never spawned.
Dead(g) ==
    /\ alive' = alive \ {g}
    /\ lpc' = [l \in Launches |-> IF lgen[l] = g /\ lpc[l] = "intent" THEN "gone" ELSE lpc[l]]
    /\ lock' = Released({"controller"})

\* It exits or crashes.
ControllerExits(g) ==
    /\ g \in alive
    /\ Dead(g)
    /\ UNCHANGED <<file, leaves, lgen, log, supVars>>

-----------------------------------------------------------------------------
(* The supervisor.  Every step is bounded: it waits for nobody. *)

Goto(pc) == sup' = pc /\ UNCHANGED outcome

End(o) == sup' = "done" /\ outcome' = o

\* _fail_closed: a BLOCKED verdict, unless the log has one that counts.
FailClosed(o) ==
    /\ End(o)
    /\ log' = IF log.new THEN log ELSE [by |-> 0, outcome |-> "BLOCKED", new |-> TRUE]

\* Mutant: a lock taken without a time limit.
Revoke_blocking ==
    /\ lock = "free"
    /\ file' = [file EXCEPT !.active = FALSE]
    /\ revoked' = TRUE

\* revoke_generation, which gives up after 2 s if another process holds the lock.
Revoke ==
    IF lock = "free"
    THEN file' = [file EXCEPT !.active = FALSE] /\ revoked' = TRUE
    ELSE revoked' = FALSE /\ UNCHANGED file

\* run: the state an earlier supervisor left.
ReadPriorState ==
    /\ sup = "start"
    /\ snap' = file
    /\ Goto(IF file.token = 0 THEN "recovered" ELSE "recover")
    /\ UNCHANGED <<file, lock, log, restarts, watched, revoked, verified, world>>

\* Mutant: a controller process that still runs is no reason to stop.
PriorControllerGone_spawn_only == ~snap.spawnPending

\* No controller was being spawned, and the one on file does not run.
PriorControllerGone == ~snap.spawnPending /\ snap.controller \notin alive

\* Its generation is revoked; is its controller known to have ended?
RevokePrior ==
    /\ sup = "recover"
    /\ Revoke
    /\ verified' = (revoked' /\ PriorControllerGone)
    /\ Goto("cleanup")
    /\ UNCHANGED <<lock, log, restarts, watched, snap, world>>

\* _start_seq is set: verdicts of earlier supervisions no longer count.
Recovered ==
    /\ sup = "recovered"
    /\ log' = [log EXCEPT !.new = FALSE]
    /\ restarts' = 0
    /\ Goto("loop")
    /\ UNCHANGED <<file, lock, watched, snap, revoked, verified, world>>

\* The deadline has passed before a controller is spawned.
DeadlineBeforeSpawn ==
    /\ sup = "loop"
    /\ FailClosed("BLOCKED")
    /\ UNCHANGED <<file, lock, run, world>>

\* _supervise_one: activate_generation, under a new token.
ActivateGeneration ==
    /\ sup = "loop"
    /\ IF lock = "free" /\ file.workers = {} /\ file.pending = {}
       THEN /\ file' = [NoFile EXCEPT !.token = file.token + 1, !.active = TRUE,
                                      !.spawnPending = TRUE]
            /\ Goto(IF RequireContainment THEN "preflight" ELSE "spawn")
            /\ UNCHANGED log
       ELSE FailClosed("CLEANUP_BLOCKED") /\ UNCHANGED file
    /\ UNCHANGED <<lock, run, world>>

\* preflight_worker_containment makes the leaf; the root may not be delegated.
PreflightContainment ==
    /\ sup = "preflight"
    /\ \/ /\ leaves' = leaves \cup {file.token}
          /\ file' = [file EXCEPT !.contained = TRUE]
          /\ Goto("spawn")
          /\ UNCHANGED log
       \/ /\ FailClosed("CLEANUP_BLOCKED")
          /\ UNCHANGED <<file, leaves>>
    /\ UNCHANGED <<lock, alive, launchVars, lives, run>>

\* The controller is spawned; or the spawn fails and there is none; or it is
\* cancelled and does not answer in 5 s: there may be one, and no handle on it.
SpawnController ==
    /\ sup = "spawn"
    /\ \/ /\ alive' = alive \cup {file.token}
          /\ Goto("bind")
          /\ UNCHANGED <<file, watched>>
       \/ /\ file' = [file EXCEPT !.spawnPending = FALSE]
          /\ watched' = "UNSPAWNED"
          /\ Goto("finally")
          /\ UNCHANGED alive
       \/ /\ alive' \in {alive, alive \cup {file.token}}
          /\ watched' = "UNKNOWN"
          /\ Goto("finally")
          /\ UNCHANGED file
    /\ UNCHANGED <<lock, log, restarts, snap, revoked, verified, leaves, launchVars, lives>>

\* bind_controller: an OwnershipError if the controller keeps the lock.
BindController ==
    /\ sup = "bind"
    /\ IF lock = "free"
       THEN /\ file' = [file EXCEPT !.spawnPending = FALSE, !.controller = file.token]
            /\ Goto("watch")
            /\ UNCHANGED watched
       ELSE /\ watched' = "UNBOUND"
            /\ Goto("finally")
            /\ UNCHANGED file
    /\ UNCHANGED <<lock, log, restarts, snap, revoked, verified, world>>

\* _watch: a verdict, an exit without one, or a stall, the deadline or an
\* interrupt at any moment.
Watch ==
    /\ sup = "watch"
    /\ \/ log.new /\ watched' = log.outcome
       \/ ~log.new /\ file.token \notin alive /\ watched' = "EXITED"
       \/ watched' \in {"STALLED", "DEADLINE", "CANCELLED"}
    /\ Goto("finally")
    /\ UNCHANGED <<file, lock, log, restarts, snap, revoked, verified, world>>

\* The finally of _supervise_one: a snapshot, then the gate is closed.
ReadSnapshot ==
    /\ sup = "finally"
    /\ snap' = file
    /\ Goto("revoke")
    /\ UNCHANGED <<file, lock, log, restarts, watched, revoked, verified, world>>

RevokeGeneration ==
    /\ sup = "revoke"
    /\ Revoke
    /\ verified' = revoked'
    /\ Goto(IF watched \in {"UNSPAWNED", "UNKNOWN"} THEN "cleanup" ELSE "kill")
    /\ UNCHANGED <<lock, log, restarts, watched, snap, world>>

\* _kill: SIGTERM, then SIGKILL to the controller's group.
KillController ==
    /\ sup = "kill"
    /\ Dead(file.token)
    /\ Goto("cleanup")
    /\ UNCHANGED <<file, leaves, lgen, log, lives, run>>

\* Its end cannot be verified: no cleanup, no replacement.
KillUnverified ==
    /\ sup = "kill"
    /\ file.token \in alive
    /\ FailClosed("CLEANUP_BLOCKED")
    /\ UNCHANGED <<file, lock, run, world>>

-----------------------------------------------------------------------------
(* cleanup_workers, at startup and after a controller's life. *)

\* cgroup.kill reaches every process of the leaf; without one, known handles.
Doomed(s) == IF s.contained THEN Members(s.token) ELSE s.workers

\* From the file if the generation is surely revoked, else from the snapshot.
KillContainment ==
    /\ sup = "cleanup"
    /\ LET s == IF verified THEN file ELSE snap IN
       /\ snap' = s
       /\ IF s.contained /\ s.token \notin leaves
          THEN Goto("blocked") /\ UNCHANGED <<lock, lpc>>
          ELSE /\ lpc' = [l \in Launches |-> IF l \in Doomed(s) THEN "gone" ELSE lpc[l]]
               /\ lock' = Released(Doomed(s))
               /\ Goto(IF s.contained \/ s.workers = {} THEN "populated" ELSE "blocked")
    /\ UNCHANGED <<file, leaves, alive, lgen, lives, log, restarts, watched, revoked, verified>>

\* Mutant: a launch that may still be on its way does not matter.
Settled_no_pending == verified

\* The generation is surely revoked and no launch is on its way.
Settled == verified /\ snap.pending = {}

\* The leaf is empty: what was known is gone.
Unpopulated ==
    /\ sup = "populated"
    /\ snap.contained => Members(snap.token) = {}
    /\ Goto(IF Settled THEN "remove" ELSE "blocked")
    /\ UNCHANGED <<file, lock, log, run, world>>

\* A launcher that joined after the kill, or a process that will not die.
StillPopulated ==
    /\ sup = "populated"
    /\ snap.contained
    /\ Goto("blocked")
    /\ UNCHANGED <<file, lock, log, run, world>>

\* Under the lock the leaf is removed, which only an empty one can be ...
RemoveLeaf ==
    /\ sup = "remove"
    /\ IF /\ lock = "free"
          /\ snap.contained => snap.token \in leaves /\ Members(snap.token) = {}
       THEN /\ leaves' = IF snap.contained THEN leaves \ {snap.token} ELSE leaves
            /\ lock' = "supervisor"
            /\ Goto("removed")
       ELSE Goto("blocked") /\ UNCHANGED <<leaves, lock>>
    /\ UNCHANGED <<file, alive, launchVars, lives, log, run>>

\* ... and then the file forgets the leaf and its workers.
ForgetWorkers ==
    /\ sup = "removed"
    /\ file' = [file EXCEPT !.contained = FALSE, !.workers = {}]
    /\ lock' = "free"
    /\ Goto(IF watched = "none" THEN "recovered" ELSE "ended")
    /\ UNCHANGED <<log, run, world>>

\* The fence is tried once more; a run whose cleanup failed is not restarted.
CleanupBlocked ==
    /\ sup = "blocked"
    /\ IF revoked THEN UNCHANGED <<file, revoked>> ELSE Revoke
    /\ FailClosed("CLEANUP_BLOCKED")
    /\ UNCHANGED <<lock, restarts, watched, snap, verified, world>>

-----------------------------------------------------------------------------
(* run, after a controller's life was cleaned up. *)

\* The controller's own verdict, COMPLETE or anything else.
Finished ==
    /\ sup = "ended"
    /\ watched \in {"COMPLETE", "BLOCKED"}
    /\ End(watched)
    /\ UNCHANGED <<file, lock, log, run, world>>

\* An OwnershipError on its way out, the deadline, or no restart left.
GivesUp ==
    /\ sup = "ended"
    /\ \/ watched \in {"UNKNOWN", "UNBOUND"} /\ FailClosed("CLEANUP_BLOCKED")
       \/ watched = "DEADLINE" /\ FailClosed("BLOCKED")
       \/ /\ watched \in {"EXITED", "STALLED", "UNSPAWNED"}
          /\ restarts >= MaxRestarts
          /\ FailClosed("BLOCKED")
    /\ UNCHANGED <<file, lock, run, world>>

\* Mutant: one restart too many.
Restart_off_by_one ==
    /\ sup = "ended"
    /\ watched \in {"EXITED", "STALLED", "UNSPAWNED"}
    /\ restarts <= MaxRestarts
    /\ restarts' = restarts + 1
    /\ Goto("loop")
    /\ UNCHANGED <<file, lock, log, watched, snap, revoked, verified, world>>

\* The controller is replaced; the next life resumes the run.
Restart ==
    /\ sup = "ended"
    /\ watched \in {"EXITED", "STALLED", "UNSPAWNED"}
    /\ restarts < MaxRestarts
    /\ restarts' = restarts + 1
    /\ Goto("loop")
    /\ UNCHANGED <<file, lock, log, watched, snap, revoked, verified, world>>

\* A cancelled supervisor leaves without a verdict.
Interrupted ==
    /\ sup = "ended"
    /\ watched = "CANCELLED"
    /\ Goto("down")
    /\ UNCHANGED <<file, lock, log, run, world>>

\* The supervisor process dies at any point; what it spawned lives on.
SupervisorCrashes ==
    /\ sup \notin {"done", "down"}
    /\ Goto("down")
    /\ lock' = Released({"supervisor"})
    /\ UNCHANGED <<file, log, run, world>>

\* verdict supervise is run again on the same run directory.
SupervisorStarts ==
    /\ sup \in {"done", "down"}
    /\ lives < MaxSupervisors
    /\ lives' = lives + 1
    /\ sup' = "start"
    /\ outcome' = "none"
    /\ watched' = "none"
    /\ revoked' = TRUE
    /\ verified' = TRUE
    /\ log' = [log EXCEPT !.new = log.outcome # "none"]
    /\ UNCHANGED <<file, lock, leaves, alive, launchVars, restarts, snap>>

Supervise ==
    \/ ReadPriorState \/ RevokePrior \/ Recovered
    \/ DeadlineBeforeSpawn \/ ActivateGeneration \/ PreflightContainment
    \/ SpawnController \/ BindController \/ Watch
    \/ ReadSnapshot \/ RevokeGeneration \/ KillController \/ KillUnverified
    \/ KillContainment \/ Unpopulated \/ StillPopulated
    \/ RemoveLeaf \/ ForgetWorkers \/ CleanupBlocked
    \/ Finished \/ GivesUp \/ Restart \/ Interrupted

Next ==
    \/ Supervise
    \/ SupervisorCrashes
    \/ SupervisorStarts
    \/ \E g \in alive :
          \/ ControllerLocks(g) \/ ControllerUnlocks(g)
          \/ ControllerFinishes(g) \/ ControllerExits(g)
          \/ \E l \in Launches : LaunchIntent(g, l)
    \/ \E l \in Launches :
          \/ SpawnLauncher(l) \/ LauncherReads(l) \/ LauncherJoins(l)
          \/ LauncherRegisters(l) \/ LauncherExecs(l) \/ LauncherEnds(l)

Spec == Init /\ [][Next]_vars

\* The supervisor is a process with bounded waits: it takes its next step.
FairSpec == Spec /\ WF_vars(Supervise)

-----------------------------------------------------------------------------
(* Properties. *)

States == [token : Nat, active : BOOLEAN, spawnPending : BOOLEAN, controller : Nat,
           contained : BOOLEAN, workers : SUBSET Launches, pending : SUBSET Launches]

Verdicts == [by : Nat, outcome : {"none", "COMPLETE", "BLOCKED"}, new : BOOLEAN]

\* What is on disk and in the kernel.
WorldTypes ==
    /\ file \in States
    /\ lock \in {"free", "supervisor", "controller"} \cup Launches
    /\ leaves \subseteq Nat
    /\ alive \subseteq Nat
    /\ lpc \in [Launches -> {"unused", "intent", "gone"} \cup Unjoined \cup Joined]
    /\ lgen \in [Launches -> Nat]
    /\ log \in Verdicts

\* What the supervisor has in its variables.
SupervisorTypes ==
    /\ snap \in States
    /\ sup \in {"start", "recover", "recovered", "loop", "preflight", "spawn", "bind", "watch",
                "finally", "revoke", "kill", "cleanup", "populated", "remove", "removed",
                "blocked", "ended", "done", "down"}
    /\ restarts \in 0 .. MaxRestarts
    /\ watched \in {"none", "COMPLETE", "BLOCKED", "EXITED", "STALLED", "DEADLINE",
                    "CANCELLED", "UNSPAWNED", "UNKNOWN", "UNBOUND"}
    /\ revoked \in BOOLEAN
    /\ verified \in BOOLEAN
    /\ outcome \in {"none", "COMPLETE", "BLOCKED", "CLEANUP_BLOCKED"}
    /\ lives \in 1 .. MaxSupervisors

\* Every variable has the values its comment says, and the restarts of a supervision
\* never exceed max_restarts.
TypeOK == WorldTypes /\ SupervisorTypes

\* Across stalls, kills, crashed supervisors and new ones, a run never has two
\* controllers, and the only one that can be running is of the generation on file.
OneController == alive \subseteq {file.token}

\* No process of an earlier generation survives its replacement: a launcher, a
\* launched worker or an intent still to be spawned is of the generation on file.
NoStrays == \A l \in Launches : lpc[l] \notin {"unused", "gone"} => lgen[l] = file.token

\* A payload starts only while its generation is active: a revocation never falls
\* between the launcher's last check and its exec.
ExecsWhileActive ==
    [][\A l \in Launches :
          lpc[l] # "worker" /\ lpc'[l] = "worker" => file.active /\ file.token = lgen[l]]_vars

\* A supervisor that ends with a verdict, and not because cleanup was impossible,
\* leaves nothing running and no generation that could start anything.
QuietAtEnd ==
    outcome \in {"COMPLETE", "BLOCKED"} =>
        /\ alive = {}
        /\ \A l \in Launches : lpc[l] \in {"unused", "gone"}
        /\ ~file.active

\* Whatever controller and launchers do or fail to do, a supervisor ends.
SupervisorEnds == (sup = "start") ~> (sup \in {"done", "down"})
=============================================================================
