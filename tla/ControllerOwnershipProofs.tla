---------------------- MODULE ControllerOwnershipProofs ----------------------
(***************************************************************************)
(* Proofs about ControllerOwnership, for every set of launches and every   *)
(* number of restarts and supervisors: TypeOK, OneController, NoStrays,    *)
(* QuietAtEnd and ExecsWhileActive.                                        *)
(*                                                                         *)
(* They all follow from one inductive invariant, IInv.  There is a lemma   *)
(* per action, and in it a step per conjunct of IInv.                      *)
(***************************************************************************)
EXTENDS ControllerOwnership, TLAPS

-----------------------------------------------------------------------------
(* The inductive invariant. *)

\* Only the supervisor changes token, spawn marker and controller of the file, so its
\* snapshot of them is current; and once the generation is surely revoked nobody
\* changes the rest either.
Snapshot ==
    /\ sup = "recover" =>
          /\ snap.token = file.token
          /\ snap.spawnPending = file.spawnPending
          /\ snap.controller = file.controller
    /\ sup \in {"populated", "remove", "removed"} /\ verified => snap = file
    /\ sup \in {"kill", "cleanup", "populated", "remove", "removed"} /\ verified => ~file.active
    /\ sup \in {"remove", "removed"} => verified /\ snap.pending = {}

\* A controller is of the generation on file, which says so: its spawn was announced
\* or it is bound.  Where the supervisor has made sure, none runs.
Controllers ==
    /\ alive \subseteq {file.token} \ {0}
    /\ alive # {} => file.spawnPending \/ file.controller = file.token
    /\ sup \in {"recovered", "loop", "preflight", "spawn"} => alive = {}
    /\ sup \in {"preflight", "spawn"} => file.spawnPending /\ file.token # 0
    /\ sup \in {"cleanup", "populated", "remove", "removed"}
          /\ verified /\ watched # "UNKNOWN" => alive = {}
    /\ sup = "ended" /\ watched # "UNKNOWN" => alive = {}
    /\ sup \in {"finally", "revoke"} /\ watched = "UNSPAWNED" => alive = {}

\* Every launch that can still act is on file, as an intent or as a worker; the one
\* past the gate holds the lock of an active generation.
Launchers ==
    \A l \in Launches :
        /\ lpc[l] \in {"intent", "spawned", "checked", "joined"}
              => l \in file.pending /\ lgen[l] = file.token
        /\ lpc[l] \in {"registered", "worker"}
              => l \in file.workers /\ lgen[l] = file.token
        /\ lpc[l] = "registered" => lock = l /\ file.active

\* Workers on file are in a leaf, and nothing is on file before a first generation.
Registry ==
    /\ file.workers # {} => file.contained
    /\ file.token = 0 => ~file.active /\ file.pending = {} /\ file.workers = {}

\* Nothing runs and nothing can start.
Quiet ==
    /\ alive = {}
    /\ \A l \in Launches : lpc[l] \in {"unused", "gone"}
    /\ ~file.active

\* Between the lives of controllers, and after a verdict, the run is quiet.
QuietBetween ==
    /\ sup \in {"recovered", "loop"} => Quiet
    /\ sup = "ended" => ~file.active /\ \A l \in Launches : lpc[l] \in {"unused", "gone"}
    /\ sup = "removed" => \A l \in Launches : lpc[l] \in {"unused", "gone"}
    /\ outcome \in {"COMPLETE", "BLOCKED"} => Quiet
    /\ outcome # "none" => sup = "done"

\* The inductive invariant.
IInv == TypeOK /\ Snapshot /\ Controllers /\ Launchers /\ Registry /\ QuietBetween

-----------------------------------------------------------------------------
(* Facts about the operators of the model. *)

\* Failing closed (_fail_closed) leaves a well-formed log.
LEMMA FailClosedVerdict ==
    ASSUME log \in Verdicts, NEW o, FailClosed(o)
    PROVE  log' \in Verdicts
BY DEF FailClosed, Verdicts

\* activate_generation either starts a generation with nothing registered, or ends
\* the supervision and leaves the file alone.
LEMMA Activation ==
    ASSUME TypeOK, ActivateGeneration
    PROVE  /\ file' \in States
           /\ \/ file' = file /\ sup' = "done"
              \/ /\ file'.token # 0 /\ file'.spawnPending /\ file'.workers = {}
                 /\ sup' \in {"preflight", "spawn"}
<1>1. CASE lock = "free" /\ file.workers = {} /\ file.pending = {}
  <2>1. file.token + 1 \in Nat \ {0}
    BY DEF TypeOK, WorldTypes, States
  <2>2. file' = [token |-> file.token + 1, active |-> TRUE, spawnPending |-> TRUE, controller |-> 0,
                 contained |-> FALSE, workers |-> {}, pending |-> {}]
    BY <1>1 DEF ActivateGeneration, NoFile
  <2>3. file' \in States
    BY <2>1, <2>2 DEF States
  <2>4. sup' \in {"preflight", "spawn"}
    BY <1>1 DEF ActivateGeneration, Goto
  <2> QED
    BY <2>1, <2>2, <2>3, <2>4
<1>2. CASE ~(lock = "free" /\ file.workers = {} /\ file.pending = {})
  <2>1. file' = file /\ sup' = "done"
    BY <1>2 DEF ActivateGeneration, FailClosed, End
  <2> QED
    BY <2>1 DEF TypeOK, WorldTypes
<1> QED
  BY <1>1, <1>2

\* bind_controller changes what the file says of the controller, and nothing else.
LEMMA Binding ==
    ASSUME TypeOK, BindController
    PROVE  /\ file' \in States
           /\ file'.token = file.token
           /\ file'.active = file.active
           /\ file'.contained = file.contained
           /\ file'.workers = file.workers
           /\ file'.pending = file.pending
           /\ \/ file' = file /\ sup' = "finally" /\ watched' = "UNBOUND"
              \/ file'.controller = file.token /\ sup' = "watch"
<1>1. CASE lock = "free"
  <2>1. file' = [token |-> file.token, active |-> file.active, spawnPending |-> FALSE,
                 controller |-> file.token, contained |-> file.contained,
                 workers |-> file.workers, pending |-> file.pending]
    BY <1>1 DEF BindController, TypeOK, WorldTypes, States
  <2>2. sup' = "watch"
    BY <1>1 DEF BindController, Goto
  <2> QED
    BY <2>1, <2>2 DEF TypeOK, WorldTypes, States
<1>2. CASE lock # "free"
  <2>1. file' = file /\ sup' = "finally" /\ watched' = "UNBOUND"
    BY <1>2 DEF BindController, Goto
  <2> QED
    BY <2>1 DEF TypeOK, WorldTypes
<1> QED
  BY <1>1, <1>2

-----------------------------------------------------------------------------
(* Every action preserves IInv. *)

\* A controller that takes the lock cannot be past a launcher's gate.
LEMMA ControllerLocksIInv ==
    ASSUME IInv, NEW g \in alive, ControllerLocks(g)
    PROVE  IInv'
<1>1. WorldTypes'
  BY DEF ControllerLocks, IInv, TypeOK, WorldTypes, run, launchVars, supVars
<1>2. SupervisorTypes'
  BY OwnershipAssumption DEF ControllerLocks, IInv, TypeOK, SupervisorTypes, run,
       launchVars, supVars
<1>3. Snapshot'
  BY DEF ControllerLocks, IInv, Snapshot, run, launchVars, supVars
<1>4. Controllers'
  BY DEF ControllerLocks, IInv, Controllers, run, launchVars, supVars
<1>5. Launchers'
  BY OwnershipAssumption DEF ControllerLocks, IInv, TypeOK, WorldTypes, States, Launchers,
       Controllers, run, launchVars, supVars
<1>6. Registry'
  BY DEF ControllerLocks, IInv, Registry, run, launchVars, supVars
<1>7. QuietBetween'
  BY DEF ControllerLocks, IInv, QuietBetween, Quiet, run, launchVars, supVars
<1> QED
  BY <1>1, <1>2, <1>3, <1>4, <1>5, <1>6, <1>7 DEF IInv, TypeOK

\* A lease that ends, or a refused launch, changes nothing but the lock.
LEMMA ControllerUnlocksIInv ==
    ASSUME IInv, NEW g \in alive, ControllerUnlocks(g)
    PROVE  IInv'
<1>1. WorldTypes'
  BY DEF ControllerUnlocks, IInv, TypeOK, WorldTypes, run, launchVars, supVars
<1>2. SupervisorTypes'
  BY OwnershipAssumption DEF ControllerUnlocks, IInv, TypeOK, SupervisorTypes, run,
       launchVars, supVars
<1>3. Snapshot'
  BY DEF ControllerUnlocks, IInv, Snapshot, run, launchVars, supVars
<1>4. Controllers'
  BY DEF ControllerUnlocks, IInv, Controllers, run, launchVars, supVars
<1>5. Launchers'
  BY OwnershipAssumption DEF ControllerUnlocks, IInv, TypeOK, WorldTypes, States, Launchers,
       Controllers, run, launchVars, supVars
<1>6. Registry'
  BY DEF ControllerUnlocks, IInv, Registry, run, launchVars, supVars
<1>7. QuietBetween'
  BY DEF ControllerUnlocks, IInv, QuietBetween, Quiet, run, launchVars, supVars
<1> QED
  BY <1>1, <1>2, <1>3, <1>4, <1>5, <1>6, <1>7 DEF IInv, TypeOK

\* A published verdict changes nothing but the log.
LEMMA ControllerFinishesIInv ==
    ASSUME IInv, NEW g \in alive, ControllerFinishes(g)
    PROVE  IInv'
<1>1. WorldTypes'
  BY DEF ControllerFinishes, IInv, TypeOK, WorldTypes, Verdicts, run, launchVars, supVars
<1>2. SupervisorTypes'
  BY OwnershipAssumption DEF ControllerFinishes, IInv, TypeOK, SupervisorTypes, run,
       launchVars, supVars
<1>3. Snapshot'
  BY DEF ControllerFinishes, IInv, Snapshot, run, launchVars, supVars
<1>4. Controllers'
  BY DEF ControllerFinishes, IInv, Controllers, run, launchVars, supVars
<1>5. Launchers'
  BY DEF ControllerFinishes, IInv, Launchers, run, launchVars, supVars
<1>6. Registry'
  BY DEF ControllerFinishes, IInv, Registry, run, launchVars, supVars
<1>7. QuietBetween'
  BY DEF ControllerFinishes, IInv, QuietBetween, Quiet, run, launchVars, supVars
<1> QED
  BY <1>1, <1>2, <1>3, <1>4, <1>5, <1>6, <1>7 DEF IInv, TypeOK

\* A controller that ends takes its unspawned intents with it.
LEMMA ControllerExitsIInv ==
    ASSUME IInv, NEW g \in alive, ControllerExits(g)
    PROVE  IInv'
<1>1. WorldTypes'
  BY DEF ControllerExits, Released, Dead, IInv, TypeOK, WorldTypes, run, supVars
<1>2. SupervisorTypes'
  BY OwnershipAssumption DEF ControllerExits, Released, Dead, IInv, TypeOK, SupervisorTypes,
       run, supVars
<1>3. Snapshot'
  BY DEF ControllerExits, Released, Dead, IInv, Snapshot, run, supVars
<1>4. Controllers'
  BY DEF ControllerExits, Released, Dead, IInv, Controllers, run, supVars
<1>5. Launchers'
  BY OwnershipAssumption DEF ControllerExits, Released, Dead, IInv, TypeOK, WorldTypes,
       States, Launchers, Controllers, run, supVars
<1>6. Registry'
  BY DEF ControllerExits, Released, Dead, IInv, Registry, run, supVars
<1>7. QuietBetween'
  BY DEF ControllerExits, Released, Dead, IInv, QuietBetween, Quiet, run, supVars
<1> QED
  BY <1>1, <1>2, <1>3, <1>4, <1>5, <1>6, <1>7 DEF IInv, TypeOK

\* owned_worker_command: the new launch is on file under the current token.
LEMMA LaunchIntentIInv ==
    ASSUME IInv, NEW g \in alive, NEW l \in Launches, LaunchIntent(g, l)
    PROVE  IInv'
<1>1. WorldTypes'
  BY DEF LaunchIntent, IInv, TypeOK, WorldTypes, States, run, supVars
<1>2. SupervisorTypes'
  BY OwnershipAssumption DEF LaunchIntent, IInv, TypeOK, SupervisorTypes, run, supVars
<1>3. Snapshot'
  BY DEF LaunchIntent, IInv, Snapshot, run, supVars
<1>4. Controllers'
  BY DEF LaunchIntent, IInv, Controllers, run, supVars
<1>5. Launchers'
  BY OwnershipAssumption DEF LaunchIntent, IInv, TypeOK, WorldTypes, States, Launchers,
       Controllers, run, supVars
<1>6. Registry'
  BY DEF LaunchIntent, IInv, Registry, run, supVars
<1>7. QuietBetween'
  BY DEF LaunchIntent, IInv, TypeOK, WorldTypes, States, QuietBetween, Quiet, Snapshot, run,
       supVars
<1> QED
  BY <1>1, <1>2, <1>3, <1>4, <1>5, <1>6, <1>7 DEF IInv, TypeOK

\* create_subprocess_exec leaves the intent on file.
LEMMA SpawnLauncherIInv ==
    ASSUME IInv, NEW l \in Launches, SpawnLauncher(l)
    PROVE  IInv'
<1>1. WorldTypes'
  BY DEF SpawnLauncher, IInv, TypeOK, WorldTypes, States, Verdicts, Unjoined, Joined, run,
       supVars
<1>2. SupervisorTypes'
  BY OwnershipAssumption DEF SpawnLauncher, IInv, TypeOK, SupervisorTypes, run, supVars
<1>3. Snapshot'
  BY DEF SpawnLauncher, IInv, Snapshot, run, supVars
<1>4. Controllers'
  BY DEF SpawnLauncher, IInv, Controllers, run, supVars
<1>5. Launchers'
  BY DEF SpawnLauncher, IInv, Launchers, run, supVars
<1>6. Registry'
  BY DEF SpawnLauncher, IInv, Registry, run, supVars
<1>7. QuietBetween'
  BY DEF SpawnLauncher, IInv, QuietBetween, Quiet, run, supVars
<1> QED
  BY <1>1, <1>2, <1>3, <1>4, <1>5, <1>6, <1>7 DEF IInv, TypeOK

\* The unlocked read of register_worker changes only the launcher.
LEMMA LauncherReadsIInv ==
    ASSUME IInv, NEW l \in Launches, LauncherReads(l)
    PROVE  IInv'
<1>1. WorldTypes'
  BY DEF LauncherReads, IInv, TypeOK, WorldTypes, States, Verdicts, Unjoined, Joined, run,
       supVars
<1>2. SupervisorTypes'
  BY OwnershipAssumption DEF LauncherReads, IInv, TypeOK, SupervisorTypes, run, supVars
<1>3. Snapshot'
  BY DEF LauncherReads, IInv, Snapshot, run, supVars
<1>4. Controllers'
  BY DEF LauncherReads, IInv, Controllers, run, supVars
<1>5. Launchers'
  BY DEF LauncherReads, IInv, Launchers, run, supVars
<1>6. Registry'
  BY DEF LauncherReads, IInv, Registry, run, supVars
<1>7. QuietBetween'
  BY DEF LauncherReads, IInv, QuietBetween, Quiet, run, supVars
<1> QED
  BY <1>1, <1>2, <1>3, <1>4, <1>5, <1>6, <1>7 DEF IInv, TypeOK

\* join_containment changes only the launcher.
LEMMA LauncherJoinsIInv ==
    ASSUME IInv, NEW l \in Launches, LauncherJoins(l)
    PROVE  IInv'
<1>1. WorldTypes'
  BY DEF LauncherJoins, IInv, TypeOK, WorldTypes, States, Verdicts, Unjoined, Joined, run,
       supVars
<1>2. SupervisorTypes'
  BY OwnershipAssumption DEF LauncherJoins, IInv, TypeOK, SupervisorTypes, run, supVars
<1>3. Snapshot'
  BY DEF LauncherJoins, IInv, Snapshot, run, supVars
<1>4. Controllers'
  BY DEF LauncherJoins, IInv, Controllers, run, supVars
<1>5. Launchers'
  BY DEF LauncherJoins, IInv, Launchers, run, supVars
<1>6. Registry'
  BY DEF LauncherJoins, IInv, Registry, run, supVars
<1>7. QuietBetween'
  BY DEF LauncherJoins, IInv, QuietBetween, Quiet, run, supVars
<1> QED
  BY <1>1, <1>2, <1>3, <1>4, <1>5, <1>6, <1>7 DEF IInv, TypeOK

\* register_worker: the launch moves from pending to workers, under the lock.
LEMMA LauncherRegistersIInv ==
    ASSUME IInv, NEW l \in Launches, LauncherRegisters(l)
    PROVE  IInv'
<1>1. WorldTypes'
  BY DEF LauncherRegisters, IInv, TypeOK, WorldTypes, States, Verdicts, Unjoined, Joined,
       run, supVars
<1>2. SupervisorTypes'
  BY OwnershipAssumption DEF LauncherRegisters, IInv, TypeOK, SupervisorTypes, run, supVars
<1>3. Snapshot'
  BY DEF LauncherRegisters, IInv, Snapshot, run, supVars
<1>4. Controllers'
  BY DEF LauncherRegisters, IInv, Controllers, run, supVars
<1>5. Launchers'
  BY OwnershipAssumption DEF LauncherRegisters, IInv, TypeOK, WorldTypes, States, Launchers,
       Controllers, run, supVars
<1>6. Registry'
  BY DEF LauncherRegisters, IInv, Registry, run, supVars
<1>7. QuietBetween'
  BY DEF LauncherRegisters, IInv, QuietBetween, Quiet, run, supVars
<1> QED
  BY <1>1, <1>2, <1>3, <1>4, <1>5, <1>6, <1>7 DEF IInv, TypeOK

\* The payload starts and the lock is released.
LEMMA LauncherExecsIInv ==
    ASSUME IInv, NEW l \in Launches, LauncherExecs(l)
    PROVE  IInv'
<1>1. WorldTypes'
  BY DEF LauncherExecs, Released, IInv, TypeOK, WorldTypes, States, Verdicts, Unjoined,
       Joined, run, supVars
<1>2. SupervisorTypes'
  BY OwnershipAssumption DEF LauncherExecs, Released, IInv, TypeOK, SupervisorTypes, run,
       supVars
<1>3. Snapshot'
  BY DEF LauncherExecs, Released, IInv, Snapshot, run, supVars
<1>4. Controllers'
  BY DEF LauncherExecs, Released, IInv, Controllers, run, supVars
<1>5. Launchers'
  BY DEF LauncherExecs, Released, IInv, TypeOK, WorldTypes, States, Launchers, run, supVars
<1>6. Registry'
  BY DEF LauncherExecs, Released, IInv, Registry, run, supVars
<1>7. QuietBetween'
  BY DEF LauncherExecs, Released, IInv, QuietBetween, Quiet, run, supVars
<1> QED
  BY <1>1, <1>2, <1>3, <1>4, <1>5, <1>6, <1>7 DEF IInv, TypeOK

\* A process that ends releases what it holds.
LEMMA LauncherEndsIInv ==
    ASSUME IInv, NEW l \in Launches, LauncherEnds(l)
    PROVE  IInv'
<1>1. WorldTypes'
  BY DEF LauncherEnds, Released, IInv, TypeOK, WorldTypes, run, supVars
<1>2. SupervisorTypes'
  BY OwnershipAssumption DEF LauncherEnds, Released, IInv, TypeOK, SupervisorTypes, run,
       supVars
<1>3. Snapshot'
  BY DEF LauncherEnds, Released, IInv, Snapshot, run, supVars
<1>4. Controllers'
  BY DEF LauncherEnds, Released, IInv, Controllers, run, supVars
<1>5. Launchers'
  BY DEF LauncherEnds, Released, IInv, TypeOK, WorldTypes, States, Launchers, run, supVars
<1>6. Registry'
  BY DEF LauncherEnds, Released, IInv, Registry, run, supVars
<1>7. QuietBetween'
  BY DEF LauncherEnds, Released, IInv, QuietBetween, Quiet, run, supVars
<1> QED
  BY <1>1, <1>2, <1>3, <1>4, <1>5, <1>6, <1>7 DEF IInv, TypeOK

\* run: with no file there is nothing to recover, else the snapshot is current.
LEMMA ReadPriorStateIInv ==
    ASSUME IInv, ReadPriorState
    PROVE  IInv'
<1>1. WorldTypes'
  BY DEF ReadPriorState, Goto, IInv, TypeOK, WorldTypes, launchVars, world
<1>2. SupervisorTypes'
  BY OwnershipAssumption DEF ReadPriorState, Goto, IInv, TypeOK, SupervisorTypes,
       WorldTypes, launchVars, world
<1>3. Snapshot'
  BY DEF ReadPriorState, Goto, IInv, Snapshot, launchVars, world
<1>4. Controllers'
  BY DEF ReadPriorState, Goto, IInv, Controllers, launchVars, world
<1>5. Launchers'
  BY DEF ReadPriorState, Goto, IInv, Launchers, launchVars, world
<1>6. Registry'
  BY DEF ReadPriorState, Goto, IInv, Registry, launchVars, world
<1>7. QuietBetween'
  BY DEF ReadPriorState, Goto, IInv, TypeOK, WorldTypes, States, SupervisorTypes, Snapshot,
       Controllers, Launchers, Registry, QuietBetween, Quiet, Unjoined, Joined, launchVars,
       world
<1> QED
  BY <1>1, <1>2, <1>3, <1>4, <1>5, <1>6, <1>7 DEF IInv, TypeOK

\* run: the prior generation is sure to have no controller only if the file says so.
LEMMA RevokePriorIInv ==
    ASSUME IInv, RevokePrior
    PROVE  IInv'
<1>1. WorldTypes'
  BY DEF RevokePrior, Goto, Revoke, PriorControllerGone, IInv, TypeOK, WorldTypes, States,
       launchVars, world
<1>2. SupervisorTypes'
  BY OwnershipAssumption DEF RevokePrior, Goto, Revoke, PriorControllerGone, IInv, TypeOK,
       SupervisorTypes, launchVars, world
<1>3. Snapshot'
  BY DEF RevokePrior, Goto, Revoke, PriorControllerGone, IInv, TypeOK, WorldTypes, States,
       Snapshot, launchVars, world
<1>4. Controllers'
  <2>1. /\ file'.token = file.token
        /\ file'.spawnPending = file.spawnPending
        /\ file'.controller = file.controller
    BY DEF RevokePrior, Revoke, IInv, TypeOK, WorldTypes, States
  <2>2. verified' => PriorControllerGone
    BY Zenon DEF RevokePrior
  <2>3. verified' => alive = {}
    BY <2>2 DEF RevokePrior, PriorControllerGone, IInv, Snapshot, Controllers
  <2> QED
    BY <2>1, <2>3 DEF RevokePrior, Goto, IInv, Controllers, launchVars, world
<1>5. Launchers'
  BY OwnershipAssumption DEF RevokePrior, Goto, Revoke, PriorControllerGone, IInv, TypeOK,
       WorldTypes, States, Launchers, Controllers, launchVars, world
<1>6. Registry'
  BY DEF RevokePrior, Goto, Revoke, PriorControllerGone, IInv, TypeOK, WorldTypes, States,
       Registry, launchVars, world
<1>7. QuietBetween'
  BY DEF RevokePrior, Goto, Revoke, PriorControllerGone, IInv, QuietBetween, Quiet,
       launchVars, world
<1> QED
  BY <1>1, <1>2, <1>3, <1>4, <1>5, <1>6, <1>7 DEF IInv, TypeOK

\* run: earlier verdicts no longer count.
LEMMA RecoveredIInv ==
    ASSUME IInv, Recovered
    PROVE  IInv'
<1>1. WorldTypes'
  BY DEF Recovered, Goto, IInv, TypeOK, WorldTypes, Verdicts, launchVars, world
<1>2. SupervisorTypes'
  BY OwnershipAssumption DEF Recovered, Goto, IInv, TypeOK, SupervisorTypes, launchVars,
       world
<1>3. Snapshot'
  BY DEF Recovered, Goto, IInv, Snapshot, launchVars, world
<1>4. Controllers'
  BY DEF Recovered, Goto, IInv, Controllers, launchVars, world
<1>5. Launchers'
  BY DEF Recovered, Goto, IInv, Launchers, launchVars, world
<1>6. Registry'
  BY DEF Recovered, Goto, IInv, Registry, launchVars, world
<1>7. QuietBetween'
  BY DEF Recovered, Goto, IInv, QuietBetween, Quiet, launchVars, world
<1> QED
  BY <1>1, <1>2, <1>3, <1>4, <1>5, <1>6, <1>7 DEF IInv, TypeOK

\* run: between two lives the run is quiet, so it may end there.
LEMMA DeadlineBeforeSpawnIInv ==
    ASSUME IInv, DeadlineBeforeSpawn
    PROVE  IInv'
<1>1. WorldTypes'
  BY DEF DeadlineBeforeSpawn, End, FailClosed, IInv, TypeOK, WorldTypes, Verdicts,
       launchVars, world, run
<1>2. SupervisorTypes'
  BY OwnershipAssumption DEF DeadlineBeforeSpawn, End, FailClosed, IInv, TypeOK,
       SupervisorTypes, launchVars, world, run
<1>3. Snapshot'
  BY DEF DeadlineBeforeSpawn, End, FailClosed, IInv, Snapshot, launchVars, world, run
<1>4. Controllers'
  BY DEF DeadlineBeforeSpawn, End, FailClosed, IInv, Controllers, launchVars, world, run
<1>5. Launchers'
  BY DEF DeadlineBeforeSpawn, End, FailClosed, IInv, Launchers, launchVars, world, run
<1>6. Registry'
  BY DEF DeadlineBeforeSpawn, End, FailClosed, IInv, Registry, launchVars, world, run
<1>7. QuietBetween'
  BY DEF DeadlineBeforeSpawn, End, FailClosed, IInv, QuietBetween, Quiet, launchVars, world,
       run
<1> QED
  BY <1>1, <1>2, <1>3, <1>4, <1>5, <1>6, <1>7 DEF IInv, TypeOK

\* activate_generation: a new token over a quiet run.
LEMMA ActivateGenerationIInv ==
    ASSUME IInv, ActivateGeneration
    PROVE  IInv'
<1>1. WorldTypes'
  <2>1. file' \in States
    BY Activation DEF IInv
  <2>2. log' \in Verdicts
    <3>1. log' = log \/ FailClosed("CLEANUP_BLOCKED")
      BY DEF ActivateGeneration
    <3> QED
      BY <3>1, FailClosedVerdict DEF IInv, TypeOK, WorldTypes
  <2> QED
    BY <2>1, <2>2 DEF ActivateGeneration, IInv, TypeOK, WorldTypes, launchVars, world
<1>2. SupervisorTypes'
  BY OwnershipAssumption DEF ActivateGeneration, Goto, End, FailClosed, NoFile, IInv,
       TypeOK, SupervisorTypes, launchVars, world, run
<1>3. Snapshot'
  BY DEF ActivateGeneration, Goto, End, FailClosed, NoFile, IInv, Snapshot, launchVars,
       world, run
<1>4. Controllers'
  <2>1. alive = {} /\ alive' = {} /\ watched' = watched
    BY DEF ActivateGeneration, IInv, Controllers, run, world
  <2> QED
    BY <2>1, Activation DEF IInv, Controllers
<1>5. Launchers'
  BY DEF ActivateGeneration, Goto, End, FailClosed, NoFile, IInv, Launchers, launchVars,
       world, run
<1>6. Registry'
  BY Activation DEF IInv, Registry
<1>7. QuietBetween'
  BY DEF ActivateGeneration, Goto, End, FailClosed, NoFile, IInv, QuietBetween, Quiet,
       launchVars, world, run
<1> QED
  BY <1>1, <1>2, <1>3, <1>4, <1>5, <1>6, <1>7 DEF IInv, TypeOK

\* preflight_worker_containment adds a leaf to the new generation.
LEMMA PreflightContainmentIInv ==
    ASSUME IInv, PreflightContainment
    PROVE  IInv'
<1>1. WorldTypes'
  <2>1. file' \in States /\ leaves' \subseteq Nat
    BY DEF PreflightContainment, FailClosed, IInv, TypeOK, WorldTypes, States
  <2>2. log' \in Verdicts
    <3>1. log' = log \/ FailClosed("CLEANUP_BLOCKED")
      BY DEF PreflightContainment
    <3> QED
      BY <3>1, FailClosedVerdict DEF IInv, TypeOK, WorldTypes
  <2> QED
    BY <2>1, <2>2 DEF PreflightContainment, IInv, TypeOK, WorldTypes, launchVars
<1>2. SupervisorTypes'
  BY OwnershipAssumption DEF PreflightContainment, Goto, End, FailClosed, IInv, TypeOK,
       SupervisorTypes, launchVars, run
<1>3. Snapshot'
  BY DEF PreflightContainment, Goto, End, FailClosed, IInv, Snapshot, launchVars, run
<1>4. Controllers'
  BY DEF PreflightContainment, Goto, End, FailClosed, IInv, TypeOK, WorldTypes, States,
       Controllers, launchVars, run
<1>5. Launchers'
  BY DEF PreflightContainment, Goto, End, FailClosed, IInv, TypeOK, WorldTypes, States,
       Launchers, launchVars, run
<1>6. Registry'
  BY DEF PreflightContainment, Goto, End, FailClosed, IInv, TypeOK, WorldTypes, States,
       Registry, launchVars, run
<1>7. QuietBetween'
  BY DEF PreflightContainment, Goto, End, FailClosed, IInv, QuietBetween, Quiet, launchVars,
       run
<1> QED
  BY <1>1, <1>2, <1>3, <1>4, <1>5, <1>6, <1>7 DEF IInv, TypeOK

\* _supervise_one: a controller that may exist is announced on file.
LEMMA SpawnControllerIInv ==
    ASSUME IInv, SpawnController
    PROVE  IInv'
<1>1. WorldTypes'
  BY DEF SpawnController, Goto, IInv, TypeOK, WorldTypes, States, launchVars
<1>2. SupervisorTypes'
  BY OwnershipAssumption DEF SpawnController, Goto, IInv, TypeOK, SupervisorTypes,
       launchVars
<1>3. Snapshot'
  BY DEF SpawnController, Goto, IInv, Snapshot, launchVars
<1>4. Controllers'
  <2>1. alive = {} /\ file.token # 0
    BY DEF SpawnController, IInv, Controllers
  <2>2. file'.token = file.token
    BY DEF SpawnController, IInv, TypeOK, WorldTypes, States
  <2>3. alive' = {} \/ (alive' = {file.token} /\ file' = file)
    <3>1. alive \cup {file.token} = {file.token}
      BY <2>1
    <3>2. alive' = alive \/ (alive' = alive \cup {file.token} /\ file' = file)
      BY DEF SpawnController
    <3> QED
      BY <2>1, <3>1, <3>2
  <2>4. \/ sup' = "bind"
        \/ sup' = "finally" /\ watched' = "UNSPAWNED" /\ alive' = {}
        \/ sup' = "finally" /\ watched' = "UNKNOWN"
    BY <2>1 DEF SpawnController, Goto
  <2>5. file.spawnPending
    BY DEF SpawnController, IInv, Controllers
  <2> QED
    BY <2>1, <2>2, <2>3, <2>4, <2>5 DEF Controllers
<1>5. Launchers'
  BY DEF SpawnController, Goto, IInv, TypeOK, WorldTypes, States, Launchers, launchVars
<1>6. Registry'
  BY DEF SpawnController, Goto, IInv, TypeOK, WorldTypes, States, Registry, launchVars
<1>7. QuietBetween'
  BY DEF SpawnController, Goto, IInv, QuietBetween, Quiet, launchVars
<1> QED
  BY <1>1, <1>2, <1>3, <1>4, <1>5, <1>6, <1>7 DEF IInv, TypeOK

\* bind_controller: the announced controller is on file.
LEMMA BindControllerIInv ==
    ASSUME IInv, BindController
    PROVE  IInv'
<1>1. WorldTypes'
  BY Binding DEF BindController, IInv, TypeOK, WorldTypes, launchVars, world
<1>2. SupervisorTypes'
  BY OwnershipAssumption DEF BindController, Goto, IInv, TypeOK, SupervisorTypes,
       launchVars, world
<1>3. Snapshot'
  BY DEF BindController, Goto, IInv, Snapshot, launchVars, world
<1>4. Controllers'
  BY Binding DEF BindController, IInv, Controllers, launchVars, world
<1>5. Launchers'
  BY Binding DEF BindController, IInv, Launchers, launchVars, world
<1>6. Registry'
  BY Binding DEF IInv, Registry
<1>7. QuietBetween'
  BY DEF BindController, Goto, IInv, QuietBetween, Quiet, launchVars, world
<1> QED
  BY <1>1, <1>2, <1>3, <1>4, <1>5, <1>6, <1>7 DEF IInv, TypeOK

\* _watch only reads.
LEMMA WatchIInv ==
    ASSUME IInv, Watch
    PROVE  IInv'
<1>1. WorldTypes'
  BY DEF Watch, Goto, IInv, TypeOK, WorldTypes, launchVars, world
<1>2. SupervisorTypes'
  BY DEF Watch, Goto, IInv, TypeOK, WorldTypes, SupervisorTypes, Verdicts, launchVars, world
<1>3. Snapshot'
  BY DEF Watch, Goto, IInv, Snapshot, launchVars, world
<1>4. Controllers'
  BY DEF Watch, Goto, IInv, TypeOK, WorldTypes, Verdicts, Controllers, launchVars, world
<1>5. Launchers'
  BY DEF Watch, Goto, IInv, Launchers, launchVars, world
<1>6. Registry'
  BY DEF Watch, Goto, IInv, Registry, launchVars, world
<1>7. QuietBetween'
  BY DEF Watch, Goto, IInv, QuietBetween, Quiet, launchVars, world
<1> QED
  BY <1>1, <1>2, <1>3, <1>4, <1>5, <1>6, <1>7 DEF IInv, TypeOK

\* The finally of _supervise_one: the snapshot.
LEMMA ReadSnapshotIInv ==
    ASSUME IInv, ReadSnapshot
    PROVE  IInv'
<1>1. WorldTypes'
  BY DEF ReadSnapshot, Goto, IInv, TypeOK, WorldTypes, launchVars, world
<1>2. SupervisorTypes'
  BY OwnershipAssumption DEF ReadSnapshot, Goto, IInv, TypeOK, SupervisorTypes, WorldTypes,
       launchVars, world
<1>3. Snapshot'
  BY DEF ReadSnapshot, Goto, IInv, Snapshot, launchVars, world
<1>4. Controllers'
  BY DEF ReadSnapshot, Goto, IInv, Controllers, launchVars, world
<1>5. Launchers'
  BY DEF ReadSnapshot, Goto, IInv, Launchers, launchVars, world
<1>6. Registry'
  BY DEF ReadSnapshot, Goto, IInv, Registry, launchVars, world
<1>7. QuietBetween'
  BY DEF ReadSnapshot, Goto, IInv, QuietBetween, Quiet, launchVars, world
<1> QED
  BY <1>1, <1>2, <1>3, <1>4, <1>5, <1>6, <1>7 DEF IInv, TypeOK

\* revoke_generation, where nobody past the gate holds the lock.
LEMMA RevokeGenerationIInv ==
    ASSUME IInv, RevokeGeneration
    PROVE  IInv'
<1>1. WorldTypes'
  BY DEF RevokeGeneration, Goto, Revoke, IInv, TypeOK, WorldTypes, States, launchVars, world
<1>2. SupervisorTypes'
  BY OwnershipAssumption DEF RevokeGeneration, Goto, Revoke, IInv, TypeOK, SupervisorTypes,
       launchVars, world
<1>3. Snapshot'
  BY DEF RevokeGeneration, Goto, Revoke, IInv, TypeOK, WorldTypes, States, Snapshot,
       launchVars, world
<1>4. Controllers'
  BY DEF RevokeGeneration, Goto, Revoke, IInv, TypeOK, WorldTypes, States, Controllers,
       launchVars, world
<1>5. Launchers'
  BY OwnershipAssumption DEF RevokeGeneration, Goto, Revoke, IInv, TypeOK, WorldTypes,
       States, Launchers, Controllers, launchVars, world
<1>6. Registry'
  BY DEF RevokeGeneration, Goto, Revoke, IInv, TypeOK, WorldTypes, States, Registry,
       launchVars, world
<1>7. QuietBetween'
  BY DEF RevokeGeneration, Goto, Revoke, IInv, QuietBetween, Quiet, launchVars, world
<1> QED
  BY <1>1, <1>2, <1>3, <1>4, <1>5, <1>6, <1>7 DEF IInv, TypeOK

\* _kill: the only controller there can be is dead.
LEMMA KillControllerIInv ==
    ASSUME IInv, KillController
    PROVE  IInv'
<1>1. WorldTypes'
  BY DEF KillController, Goto, Released, Dead, IInv, TypeOK, WorldTypes, run
<1>2. SupervisorTypes'
  BY OwnershipAssumption DEF KillController, Goto, Released, Dead, IInv, TypeOK,
       SupervisorTypes, run
<1>3. Snapshot'
  BY DEF KillController, Goto, Released, Dead, IInv, Snapshot, run
<1>4. Controllers'
  BY DEF KillController, Goto, Released, Dead, IInv, Controllers, run
<1>5. Launchers'
  BY OwnershipAssumption DEF KillController, Goto, Released, Dead, IInv, TypeOK, WorldTypes,
       States, Launchers, Controllers, run
<1>6. Registry'
  BY DEF KillController, Goto, Released, Dead, IInv, Registry, run
<1>7. QuietBetween'
  BY DEF KillController, Goto, Released, Dead, IInv, QuietBetween, Quiet, run
<1> QED
  BY <1>1, <1>2, <1>3, <1>4, <1>5, <1>6, <1>7 DEF IInv, TypeOK

\* A controller that may live ends the supervision.
LEMMA KillUnverifiedIInv ==
    ASSUME IInv, KillUnverified
    PROVE  IInv'
<1>1. WorldTypes'
  BY DEF KillUnverified, End, FailClosed, IInv, TypeOK, WorldTypes, Verdicts, launchVars,
       world, run
<1>2. SupervisorTypes'
  BY OwnershipAssumption DEF KillUnverified, End, FailClosed, IInv, TypeOK, SupervisorTypes,
       launchVars, world, run
<1>3. Snapshot'
  BY DEF KillUnverified, End, FailClosed, IInv, Snapshot, launchVars, world, run
<1>4. Controllers'
  BY DEF KillUnverified, End, FailClosed, IInv, Controllers, launchVars, world, run
<1>5. Launchers'
  BY DEF KillUnverified, End, FailClosed, IInv, Launchers, launchVars, world, run
<1>6. Registry'
  BY DEF KillUnverified, End, FailClosed, IInv, Registry, launchVars, world, run
<1>7. QuietBetween'
  BY DEF KillUnverified, End, FailClosed, IInv, QuietBetween, Quiet, launchVars, world, run
<1> QED
  BY <1>1, <1>2, <1>3, <1>4, <1>5, <1>6, <1>7 DEF IInv, TypeOK

\* kill_containment: what is in the leaf is dead.
LEMMA KillContainmentIInv ==
    ASSUME IInv, KillContainment
    PROVE  IInv'
<1>1. WorldTypes'
  BY DEF KillContainment, Goto, Released, Doomed, Members, IInv, TypeOK, WorldTypes
<1>2. SupervisorTypes'
  BY OwnershipAssumption DEF KillContainment, Goto, Released, Doomed, Members, IInv, TypeOK,
       SupervisorTypes, WorldTypes
<1>3. Snapshot'
  BY DEF KillContainment, Goto, Released, Doomed, Members, IInv, Snapshot
<1>4. Controllers'
  BY DEF KillContainment, Goto, Released, Doomed, Members, IInv, Controllers
<1>5. Launchers'
  BY DEF KillContainment, Goto, Released, Doomed, Members, IInv, Launchers
<1>6. Registry'
  BY DEF KillContainment, Goto, Released, Doomed, Members, IInv, Registry
<1>7. QuietBetween'
  BY DEF KillContainment, Goto, Released, Doomed, Members, IInv, QuietBetween, Quiet
<1> QED
  BY <1>1, <1>2, <1>3, <1>4, <1>5, <1>6, <1>7 DEF IInv, TypeOK

\* cleanup_workers goes on only with the generation revoked and no intent.
LEMMA UnpopulatedIInv ==
    ASSUME IInv, Unpopulated
    PROVE  IInv'
<1>1. WorldTypes'
  BY DEF Unpopulated, Goto, Settled, Members, IInv, TypeOK, WorldTypes, launchVars, world,
       run
<1>2. SupervisorTypes'
  BY OwnershipAssumption DEF Unpopulated, Goto, Settled, Members, IInv, TypeOK,
       SupervisorTypes, launchVars, world, run
<1>3. Snapshot'
  BY DEF Unpopulated, Goto, Settled, Members, IInv, Snapshot, launchVars, world, run
<1>4. Controllers'
  BY DEF Unpopulated, Goto, Settled, Members, IInv, Controllers, launchVars, world, run
<1>5. Launchers'
  BY DEF Unpopulated, Goto, Settled, Members, IInv, Launchers, launchVars, world, run
<1>6. Registry'
  BY DEF Unpopulated, Goto, Settled, Members, IInv, Registry, launchVars, world, run
<1>7. QuietBetween'
  BY DEF Unpopulated, Goto, Settled, Members, IInv, QuietBetween, Quiet, launchVars, world,
       run
<1> QED
  BY <1>1, <1>2, <1>3, <1>4, <1>5, <1>6, <1>7 DEF IInv, TypeOK

\* cleanup_workers gives up.
LEMMA StillPopulatedIInv ==
    ASSUME IInv, StillPopulated
    PROVE  IInv'
<1>1. WorldTypes'
  BY DEF StillPopulated, Goto, IInv, TypeOK, WorldTypes, launchVars, world, run
<1>2. SupervisorTypes'
  BY OwnershipAssumption DEF StillPopulated, Goto, IInv, TypeOK, SupervisorTypes,
       launchVars, world, run
<1>3. Snapshot'
  BY DEF StillPopulated, Goto, IInv, Snapshot, launchVars, world, run
<1>4. Controllers'
  BY DEF StillPopulated, Goto, IInv, Controllers, launchVars, world, run
<1>5. Launchers'
  BY DEF StillPopulated, Goto, IInv, Launchers, launchVars, world, run
<1>6. Registry'
  BY DEF StillPopulated, Goto, IInv, Registry, launchVars, world, run
<1>7. QuietBetween'
  BY DEF StillPopulated, Goto, IInv, QuietBetween, Quiet, launchVars, world, run
<1> QED
  BY <1>1, <1>2, <1>3, <1>4, <1>5, <1>6, <1>7 DEF IInv, TypeOK

\* cleanup_workers: no intent and an empty leaf, so no launch is left.
LEMMA RemoveLeafIInv ==
    ASSUME IInv, RemoveLeaf
    PROVE  IInv'
<1>1. WorldTypes'
  BY DEF RemoveLeaf, Goto, Members, IInv, TypeOK, WorldTypes, launchVars, run
<1>2. SupervisorTypes'
  BY OwnershipAssumption DEF RemoveLeaf, Goto, Members, IInv, TypeOK, SupervisorTypes,
       launchVars, run
<1>3. Snapshot'
  BY DEF RemoveLeaf, Goto, Members, IInv, Snapshot, launchVars, run
<1>4. Controllers'
  BY DEF RemoveLeaf, Goto, Members, IInv, Controllers, launchVars, run
<1>5. Launchers'
  BY DEF RemoveLeaf, Goto, Members, IInv, TypeOK, WorldTypes, States, Launchers, Snapshot,
       launchVars, run
<1>6. Registry'
  BY DEF RemoveLeaf, Goto, Members, IInv, Registry, launchVars, run
<1>7. QuietBetween'
  BY DEF RemoveLeaf, Goto, Members, IInv, TypeOK, WorldTypes, States, SupervisorTypes,
       Snapshot, Controllers, Launchers, Registry, QuietBetween, Quiet, Unjoined, Joined,
       launchVars, run
<1> QED
  BY <1>1, <1>2, <1>3, <1>4, <1>5, <1>6, <1>7 DEF IInv, TypeOK

\* cleanup_workers forgets workers none of which runs.
LEMMA ForgetWorkersIInv ==
    ASSUME IInv, ForgetWorkers
    PROVE  IInv'
<1>1. WorldTypes'
  BY DEF ForgetWorkers, Goto, IInv, TypeOK, WorldTypes, States, launchVars, world, run
<1>2. SupervisorTypes'
  BY OwnershipAssumption DEF ForgetWorkers, Goto, IInv, TypeOK, SupervisorTypes, launchVars,
       world, run
<1>3. Snapshot'
  BY DEF ForgetWorkers, Goto, IInv, Snapshot, launchVars, world, run
<1>4. Controllers'
  BY DEF ForgetWorkers, Goto, IInv, TypeOK, WorldTypes, States, Controllers, Snapshot,
       launchVars, world, run
<1>5. Launchers'
  BY OwnershipAssumption DEF ForgetWorkers, Goto, IInv, TypeOK, WorldTypes, States,
       Launchers, QuietBetween, launchVars, world, run
<1>6. Registry'
  BY DEF ForgetWorkers, Goto, IInv, Registry, launchVars, world, run
<1>7. QuietBetween'
  BY DEF ForgetWorkers, Goto, IInv, TypeOK, WorldTypes, States, SupervisorTypes, Snapshot,
       Controllers, Launchers, Registry, QuietBetween, Quiet, Unjoined, Joined, launchVars,
       world, run
<1> QED
  BY <1>1, <1>2, <1>3, <1>4, <1>5, <1>6, <1>7 DEF IInv, TypeOK

\* The second attempt to revoke is as safe as the first.
LEMMA CleanupBlockedIInv ==
    ASSUME IInv, CleanupBlocked
    PROVE  IInv'
<1>1. WorldTypes'
  BY DEF CleanupBlocked, End, FailClosed, Revoke, IInv, TypeOK, WorldTypes, States,
       Verdicts, Unjoined, Joined, launchVars, world
<1>2. SupervisorTypes'
  BY OwnershipAssumption DEF CleanupBlocked, End, FailClosed, Revoke, IInv, TypeOK,
       SupervisorTypes, launchVars, world
<1>3. Snapshot'
  BY DEF CleanupBlocked, End, FailClosed, Revoke, IInv, Snapshot, launchVars, world
<1>4. Controllers'
  BY DEF CleanupBlocked, End, FailClosed, Revoke, IInv, TypeOK, WorldTypes, States,
       Controllers, launchVars, world
<1>5. Launchers'
  BY OwnershipAssumption DEF CleanupBlocked, End, FailClosed, Revoke, IInv, TypeOK,
       WorldTypes, States, Launchers, Controllers, launchVars, world
<1>6. Registry'
  BY DEF CleanupBlocked, End, FailClosed, Revoke, IInv, TypeOK, WorldTypes, States,
       Registry, launchVars, world
<1>7. QuietBetween'
  BY DEF CleanupBlocked, End, FailClosed, Revoke, IInv, QuietBetween, Quiet, launchVars,
       world
<1> QED
  BY <1>1, <1>2, <1>3, <1>4, <1>5, <1>6, <1>7 DEF IInv, TypeOK

\* run: a verdict ends a quiet run.
LEMMA FinishedIInv ==
    ASSUME IInv, Finished
    PROVE  IInv'
<1>1. WorldTypes'
  BY DEF Finished, End, IInv, TypeOK, WorldTypes, launchVars, world, run
<1>2. SupervisorTypes'
  BY OwnershipAssumption DEF Finished, End, IInv, TypeOK, SupervisorTypes, launchVars,
       world, run
<1>3. Snapshot'
  BY DEF Finished, End, IInv, Snapshot, launchVars, world, run
<1>4. Controllers'
  BY DEF Finished, End, IInv, Controllers, launchVars, world, run
<1>5. Launchers'
  BY DEF Finished, End, IInv, Launchers, launchVars, world, run
<1>6. Registry'
  BY DEF Finished, End, IInv, Registry, launchVars, world, run
<1>7. QuietBetween'
  BY DEF Finished, End, IInv, TypeOK, WorldTypes, States, QuietBetween, Quiet, Controllers,
       launchVars, world, run
<1> QED
  BY <1>1, <1>2, <1>3, <1>4, <1>5, <1>6, <1>7 DEF IInv, TypeOK

\* run: fail closed; BLOCKED only where the run is quiet.
LEMMA GivesUpIInv ==
    ASSUME IInv, GivesUp
    PROVE  IInv'
<1>1. WorldTypes'
  <2>1. \E o \in {"BLOCKED", "CLEANUP_BLOCKED"} : FailClosed(o)
    BY DEF GivesUp
  <2>2. log' \in Verdicts
    BY <2>1, FailClosedVerdict DEF IInv, TypeOK, WorldTypes
  <2> QED
    BY <2>2 DEF GivesUp, IInv, TypeOK, WorldTypes, launchVars, world
<1>2. SupervisorTypes'
  BY OwnershipAssumption DEF GivesUp, End, FailClosed, IInv, TypeOK, SupervisorTypes,
       launchVars, world, run
<1>3. Snapshot'
  BY DEF GivesUp, End, FailClosed, IInv, Snapshot, launchVars, world, run
<1>4. Controllers'
  BY DEF GivesUp, End, FailClosed, IInv, Controllers, launchVars, world, run
<1>5. Launchers'
  BY DEF GivesUp, End, FailClosed, IInv, Launchers, launchVars, world, run
<1>6. Registry'
  BY DEF GivesUp, End, FailClosed, IInv, Registry, launchVars, world, run
<1>7. QuietBetween'
  BY DEF GivesUp, End, FailClosed, IInv, TypeOK, WorldTypes, States, QuietBetween, Quiet,
       Controllers, launchVars, world, run
<1> QED
  BY <1>1, <1>2, <1>3, <1>4, <1>5, <1>6, <1>7 DEF IInv, TypeOK

\* run: the next life starts over a quiet run.
LEMMA RestartIInv ==
    ASSUME IInv, Restart
    PROVE  IInv'
<1>1. WorldTypes'
  BY DEF Restart, Goto, IInv, TypeOK, WorldTypes, launchVars, world
<1>2. SupervisorTypes'
  BY OwnershipAssumption DEF Restart, Goto, IInv, TypeOK, SupervisorTypes, launchVars, world
<1>3. Snapshot'
  BY DEF Restart, Goto, IInv, Snapshot, launchVars, world
<1>4. Controllers'
  BY DEF Restart, Goto, IInv, Controllers, launchVars, world
<1>5. Launchers'
  BY DEF Restart, Goto, IInv, Launchers, launchVars, world
<1>6. Registry'
  BY DEF Restart, Goto, IInv, Registry, launchVars, world
<1>7. QuietBetween'
  BY DEF Restart, Goto, IInv, TypeOK, WorldTypes, States, QuietBetween, Quiet, Controllers,
       launchVars, world
<1> QED
  BY <1>1, <1>2, <1>3, <1>4, <1>5, <1>6, <1>7 DEF IInv, TypeOK

\* run: a cancelled supervisor claims nothing.
LEMMA InterruptedIInv ==
    ASSUME IInv, Interrupted
    PROVE  IInv'
<1>1. WorldTypes'
  BY DEF Interrupted, Goto, IInv, TypeOK, WorldTypes, launchVars, world, run
<1>2. SupervisorTypes'
  BY OwnershipAssumption DEF Interrupted, Goto, IInv, TypeOK, SupervisorTypes, launchVars,
       world, run
<1>3. Snapshot'
  BY DEF Interrupted, Goto, IInv, Snapshot, launchVars, world, run
<1>4. Controllers'
  BY DEF Interrupted, Goto, IInv, Controllers, launchVars, world, run
<1>5. Launchers'
  BY DEF Interrupted, Goto, IInv, Launchers, launchVars, world, run
<1>6. Registry'
  BY DEF Interrupted, Goto, IInv, Registry, launchVars, world, run
<1>7. QuietBetween'
  BY DEF Interrupted, Goto, IInv, QuietBetween, Quiet, launchVars, world, run
<1> QED
  BY <1>1, <1>2, <1>3, <1>4, <1>5, <1>6, <1>7 DEF IInv, TypeOK

\* A crash releases the lock and claims nothing.
LEMMA SupervisorCrashesIInv ==
    ASSUME IInv, SupervisorCrashes
    PROVE  IInv'
<1>1. WorldTypes'
  BY DEF SupervisorCrashes, Goto, Released, IInv, TypeOK, WorldTypes, launchVars, world, run
<1>2. SupervisorTypes'
  BY OwnershipAssumption DEF SupervisorCrashes, Goto, Released, IInv, TypeOK,
       SupervisorTypes, launchVars, world, run
<1>3. Snapshot'
  BY DEF SupervisorCrashes, Goto, Released, IInv, Snapshot, launchVars, world, run
<1>4. Controllers'
  BY DEF SupervisorCrashes, Goto, Released, IInv, Controllers, launchVars, world, run
<1>5. Launchers'
  BY OwnershipAssumption DEF SupervisorCrashes, Goto, Released, IInv, TypeOK, WorldTypes,
       States, Launchers, Controllers, launchVars, world, run
<1>6. Registry'
  BY DEF SupervisorCrashes, Goto, Released, IInv, Registry, launchVars, world, run
<1>7. QuietBetween'
  BY DEF SupervisorCrashes, Goto, Released, IInv, QuietBetween, Quiet, launchVars, world,
       run
<1> QED
  BY <1>1, <1>2, <1>3, <1>4, <1>5, <1>6, <1>7 DEF IInv, TypeOK

\* A new supervisor knows nothing and has claimed nothing.
LEMMA SupervisorStartsIInv ==
    ASSUME IInv, SupervisorStarts
    PROVE  IInv'
<1>1. WorldTypes'
  BY DEF SupervisorStarts, IInv, TypeOK, WorldTypes, Verdicts, launchVars
<1>2. SupervisorTypes'
  BY OwnershipAssumption DEF SupervisorStarts, IInv, TypeOK, SupervisorTypes, launchVars
<1>3. Snapshot'
  BY DEF SupervisorStarts, IInv, Snapshot, launchVars
<1>4. Controllers'
  BY DEF SupervisorStarts, IInv, Controllers, launchVars
<1>5. Launchers'
  BY DEF SupervisorStarts, IInv, Launchers, launchVars
<1>6. Registry'
  BY DEF SupervisorStarts, IInv, Registry, launchVars
<1>7. QuietBetween'
  BY DEF SupervisorStarts, IInv, QuietBetween, Quiet, launchVars
<1> QED
  BY <1>1, <1>2, <1>3, <1>4, <1>5, <1>6, <1>7 DEF IInv, TypeOK

-----------------------------------------------------------------------------
(* The theorems. *)

\* A run that was never supervised satisfies the invariant.
LEMMA InitIInv ==
    ASSUME Init
    PROVE  IInv
<1>1. TypeOK
  BY OwnershipAssumption
     DEF Init, NoFile, TypeOK, WorldTypes, SupervisorTypes, States, Verdicts, Unjoined, Joined
<1>2. Snapshot /\ Controllers /\ Registry /\ QuietBetween
  BY DEF Init, NoFile, Snapshot, Controllers, Registry, QuietBetween
<1>3. Launchers
  BY DEF Init, Launchers
<1> QED
  BY <1>1, <1>2, <1>3 DEF IInv

\* A step of the supervisor, of a controller or of a launcher preserves it.
LEMMA NextIInv ==
    ASSUME IInv, [Next]_vars
    PROVE  IInv'
<1>1. CASE Supervise
  BY <1>1, ReadPriorStateIInv, RevokePriorIInv, RecoveredIInv, DeadlineBeforeSpawnIInv,
       ActivateGenerationIInv, PreflightContainmentIInv, SpawnControllerIInv,
       BindControllerIInv, WatchIInv, ReadSnapshotIInv, RevokeGenerationIInv,
       KillControllerIInv, KillUnverifiedIInv, KillContainmentIInv, UnpopulatedIInv,
       StillPopulatedIInv, RemoveLeafIInv, ForgetWorkersIInv, CleanupBlockedIInv,
       FinishedIInv, GivesUpIInv, RestartIInv, InterruptedIInv DEF Supervise
<1>2. CASE SupervisorCrashes \/ SupervisorStarts
  BY <1>2, SupervisorCrashesIInv, SupervisorStartsIInv
<1>3. ASSUME NEW g \in alive,
             \/ ControllerLocks(g) \/ ControllerUnlocks(g)
             \/ ControllerFinishes(g) \/ ControllerExits(g)
             \/ \E l \in Launches : LaunchIntent(g, l)
      PROVE  IInv'
  BY <1>3, ControllerLocksIInv, ControllerUnlocksIInv, ControllerFinishesIInv, ControllerExitsIInv,
     LaunchIntentIInv
<1>4. ASSUME NEW l \in Launches,
             \/ SpawnLauncher(l) \/ LauncherReads(l) \/ LauncherJoins(l)
             \/ LauncherRegisters(l) \/ LauncherExecs(l) \/ LauncherEnds(l)
      PROVE  IInv'
  BY <1>4, SpawnLauncherIInv, LauncherReadsIInv, LauncherJoinsIInv, LauncherRegistersIInv,
     LauncherExecsIInv, LauncherEndsIInv
<1>5. CASE UNCHANGED vars
  <2>1. /\ UNCHANGED <<file, lock, leaves, alive, lpc, lgen, log>>
        /\ UNCHANGED <<sup, restarts, watched, snap, revoked, verified, outcome, lives>>
    BY <1>5 DEF vars, launchVars, supVars, run
  <2>2. TypeOK'
    BY <2>1 DEF IInv, TypeOK, WorldTypes, SupervisorTypes
  <2>3. Snapshot' /\ Controllers' /\ Registry'
    BY <2>1 DEF IInv, Snapshot, Controllers, Registry
  <2>4. Launchers' /\ QuietBetween'
    BY <2>1 DEF IInv, Launchers, QuietBetween, Quiet
  <2> QED
    BY <2>2, <2>3, <2>4 DEF IInv
<1> QED
  BY <1>1, <1>2, <1>3, <1>4, <1>5 DEF Next

\* IInv holds in every reachable state.
THEOREM OwnershipInvariance == Spec => []IInv
<1>1. Init => IInv
  BY InitIInv
<1>2. IInv /\ [Next]_vars => IInv'
  BY NextIInv
<1> QED
  BY <1>1, <1>2, PTL DEF Spec

\* Every variable keeps its type, and no supervision restarts its controller more
\* often than max_restarts.
THEOREM OwnershipTypes == Spec => []TypeOK
<1>1. IInv => TypeOK
  BY DEF IInv
<1> QED
  BY <1>1, OwnershipInvariance, PTL

\* A run never has two controllers, whatever crashes and whoever supervises it next.
THEOREM SingleController == Spec => []OneController
<1>1. IInv => OneController
  BY DEF IInv, Controllers, OneController
<1> QED
  BY <1>1, OwnershipInvariance, PTL

\* No launcher and no worker survives the replacement of its generation.
THEOREM NoneSurvivesReplacement == Spec => []NoStrays
<1>1. IInv => NoStrays
  BY DEF IInv, TypeOK, WorldTypes, Unjoined, Joined, Launchers, NoStrays
<1> QED
  BY <1>1, OwnershipInvariance, PTL

\* A supervisor that reports a verdict leaves nothing running and nothing that could
\* start.
THEOREM VerdictsAreQuiet == Spec => []QuietAtEnd
<1>1. IInv => QuietAtEnd
  BY DEF IInv, QuietBetween, Quiet, QuietAtEnd
<1> QED
  BY <1>1, OwnershipInvariance, PTL

\* The supervisor never turns a launch into a payload: it can only end it.
LEMMA SupervisorStartsNoPayload ==
    ASSUME IInv, Supervise \/ SupervisorCrashes \/ SupervisorStarts, NEW l \in Launches
    PROVE  lpc'[l] \in {lpc[l], "gone"}
<1>1. CASE KillController
  BY <1>1 DEF KillController, Dead, IInv, TypeOK, WorldTypes
<1>2. CASE KillContainment
  BY <1>2 DEF KillContainment, IInv, TypeOK, WorldTypes
<1>3. CASE PreflightContainment \/ SpawnController \/ RemoveLeaf \/ SupervisorStarts
  BY <1>3 DEF PreflightContainment, SpawnController, RemoveLeaf, SupervisorStarts, launchVars
<1>4. CASE ReadPriorState
  BY <1>4 DEF ReadPriorState, world, launchVars
<1>5. CASE RevokePrior
  BY <1>5 DEF RevokePrior, world, launchVars
<1>6. CASE Recovered
  BY <1>6 DEF Recovered, world, launchVars
<1>7. CASE DeadlineBeforeSpawn
  BY <1>7 DEF DeadlineBeforeSpawn, world, launchVars
<1>8. CASE ActivateGeneration
  BY <1>8 DEF ActivateGeneration, world, launchVars
<1>9. CASE BindController
  BY <1>9 DEF BindController, world, launchVars
<1>10. CASE Watch
  BY <1>10 DEF Watch, world, launchVars
<1>11. CASE ReadSnapshot
  BY <1>11 DEF ReadSnapshot, world, launchVars
<1>12. CASE RevokeGeneration
  BY <1>12 DEF RevokeGeneration, world, launchVars
<1>13. CASE KillUnverified
  BY <1>13 DEF KillUnverified, world, launchVars
<1>14. CASE Unpopulated
  BY <1>14 DEF Unpopulated, world, launchVars
<1>15. CASE StillPopulated
  BY <1>15 DEF StillPopulated, world, launchVars
<1>16. CASE ForgetWorkers
  BY <1>16 DEF ForgetWorkers, world, launchVars
<1>17. CASE CleanupBlocked
  BY <1>17 DEF CleanupBlocked, world, launchVars
<1>18. CASE Finished
  BY <1>18 DEF Finished, world, launchVars
<1>19. CASE GivesUp
  BY <1>19 DEF GivesUp, world, launchVars
<1>20. CASE Restart
  BY <1>20 DEF Restart, world, launchVars
<1>21. CASE Interrupted
  BY <1>21 DEF Interrupted, world, launchVars
<1>22. CASE SupervisorCrashes
  BY <1>22 DEF SupervisorCrashes, world, launchVars
<1> QED
  BY <1>1, <1>2, <1>3, <1>4, <1>5, <1>6, <1>7, <1>8, <1>9, <1>10, <1>11, <1>12, <1>13,
       <1>14, <1>15, <1>16, <1>17, <1>18, <1>19, <1>20, <1>21, <1>22 DEF Supervise

\* A payload starts only while its generation is active and on file: a revocation
\* never falls between the last check of register_worker and its exec.
THEOREM ExecFenced == Spec => ExecsWhileActive
<1> DEFINE Gate == \A l \in Launches :
              lpc[l] # "worker" /\ lpc'[l] = "worker" => file.active /\ file.token = lgen[l]
<1>1. IInv /\ [Next]_vars => [Gate]_vars
  <2> SUFFICES ASSUME IInv, Next, NEW l \in Launches, lpc[l] # "worker", lpc'[l] = "worker"
               PROVE  file.active /\ file.token = lgen[l]
    OBVIOUS
  <2>1. CASE Supervise \/ SupervisorCrashes \/ SupervisorStarts
    BY <2>1, SupervisorStartsNoPayload
  <2>2. CASE \E g \in alive :
                \/ ControllerLocks(g) \/ ControllerUnlocks(g)
                \/ ControllerFinishes(g) \/ ControllerExits(g)
                \/ \E k \in Launches : LaunchIntent(g, k)
    <3>1. lpc'[l] \in {lpc[l], "gone", "intent"}
      BY <2>2 DEF ControllerLocks, ControllerUnlocks, ControllerFinishes, ControllerExits, Dead,
                  LaunchIntent, IInv, TypeOK, WorldTypes, launchVars
    <3> QED
      BY <3>1
  <2>3. ASSUME NEW k \in Launches,
               \/ SpawnLauncher(k) \/ LauncherReads(k) \/ LauncherJoins(k)
               \/ LauncherRegisters(k) \/ LauncherEnds(k)
        PROVE  FALSE
    <3>1. lpc'[l] \in {lpc[l], "gone", "spawned", "checked", "joined", "registered"}
      BY <2>3 DEF SpawnLauncher, LauncherReads, LauncherJoins, LauncherRegisters, LauncherEnds,
                  IInv, TypeOK, WorldTypes
    <3> QED
      BY <3>1
  <2>4. ASSUME NEW k \in Launches, LauncherExecs(k)
        PROVE  file.active /\ file.token = lgen[l]
    <3>1. k = l
      BY <2>4 DEF LauncherExecs, IInv, TypeOK, WorldTypes
    <3> QED
      BY <2>4, <3>1 DEF LauncherExecs, IInv, Launchers
  <2> QED
    BY <2>1, <2>2, <2>3, <2>4 DEF Next
<1> QED
  BY <1>1, OwnershipInvariance, PTL DEF Spec, ExecsWhileActive

=============================================================================
