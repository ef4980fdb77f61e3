-------------------------- MODULE GatewayLifecycle --------------------------
(***************************************************************************)
(* Making the local gateway ready (gateway_lifecycle.py): several          *)
(* processes call ensure_gateway_ready for one listening socket.  A call   *)
(* probes, takes a non-blocking file lock, probes again, launches the      *)
(* configured command in a process group of its own and waits for it, or   *)
(* waits for the owner of the lock.                                        *)
(*                                                                         *)
(* A launched group is its leader (perhaps a wrapper) and a descendant;    *)
(* either may serve the port.  Processes may die, hang or report           *)
(* themselves unhealthy at any time, so the signals the code sends have no *)
(* effect of their own here: only what the code then observes counts.      *)
(* Other programs may hold the port.  The probe, the operating system and  *)
(* the gateway are external.                                               *)
(*                                                                         *)
(* Abstracted: URLs, diagnostics, observers; the clock is one flag per     *)
(* call.  The launcher is SubprocessGatewayLauncher, so the group is known.*)
(***************************************************************************)
EXTENDS Naturals, FiniteSets

CONSTANTS
    Callers,   \* processes, each with one call
    NoOne,     \* nobody holds the lock or the port
    Foreign    \* a program that Verdict did not start

ASSUME GatewayAssumption ==
    /\ IsFiniteSet(Callers)
    /\ NoOne \notin Callers /\ Foreign \notin Callers
    /\ NoOne \notin Callers \X {"leader", "kid"}

VARIABLES
    pc,       \* where each call is
    outcome,  \* what it returns, from when that is decided
    late,     \* its readiness deadline has passed
    answered, \* the launched gateway's port responded at some probe
    admitted, \* the diagnostic says that a process may still be running
    lock,     \* the holder of the launch lock
    leader,   \* the leader of the group each call launched
    kid,      \* the descendants of that leader that are running
    port,     \* who listens: NoOne, Foreign or <<caller, process>>
    health,   \* what the listener answers to a probe
    lapsed    \* history: groups left running by their call and not healthy at some time

calls  == <<pc, outcome, late, answered, admitted, lock>>
system == <<leader, kid, port, health>>
vars   == <<calls, system, lapsed>>

Over == {"done", "killed"}

TypeOK ==
    /\ pc \in [Callers -> {"probe", "lock", "reprobe", "launch", "await", "awaitprobe",
                           "contend", "contendprobe", "stop", "term", "termwait", "kill",
                           "killwait"} \cup Over]
    /\ outcome \in [Callers -> {"none", "already_ready", "started", "unhealthy",
                                "failed_to_start"}]
    /\ late \in [Callers -> BOOLEAN] /\ answered \in [Callers -> BOOLEAN]
    /\ admitted \in [Callers -> BOOLEAN]
    /\ lock \in Callers \cup {NoOne}
    /\ leader \in [Callers -> {"none", "running", "zombie", "reaped"}]
    /\ kid \in [Callers -> BOOLEAN]
    /\ port \in {NoOne, Foreign} \cup (Callers \X {"leader", "kid"})
    /\ health \in {"ok", "bad", "hung"}
    /\ lapsed \subseteq Callers

Init ==
    /\ pc = [c \in Callers |-> "probe"] /\ outcome = [c \in Callers |-> "none"]
    /\ late = [c \in Callers |-> FALSE] /\ answered = [c \in Callers |-> FALSE]
    /\ admitted = [c \in Callers |-> FALSE]
    /\ lock = NoOne
    /\ leader = [c \in Callers |-> "none"] /\ kid = [c \in Callers |-> FALSE]
    /\ port \in {NoOne, Foreign} /\ health \in {"ok", "bad", "hung"}
    /\ lapsed = {}

-----------------------------------------------------------------------------
(* Probes, returns and processes. *)

\* _probe_once: reachable (ok), responded or auth_failed (bad), or no answer.
Answer == IF port = NoOne \/ health = "hung" THEN "silent" ELSE health

At(c, where) == pc[c] = where
Goto(c, where) == pc' = [pc EXCEPT ![c] = where]

\* A return leaves the with statement, and with it the lock.
Leave(c) ==
    /\ Goto(c, "done")
    /\ lock' = IF lock = c THEN NoOne ELSE lock

Decide(c, state) == outcome' = [outcome EXCEPT ![c] = state]
Return(c, state) == Leave(c) /\ Decide(c, state)

Stay == UNCHANGED <<outcome, lock>>

Running(c) == leader[c] = "running" \/ kid[c]

\* Groups that outlive their call without being the healthy gateway.
Serving(c)  == port \in {<<c, "leader">>, <<c, "kid">>} /\ health = "ok"
Lapsing     == {c \in Callers : pc[c] \in Over /\ Running(c) /\ ~Serving(c)}
NotesLapses == lapsed' = lapsed \cup Lapsing'

\* A leader that has exited is waited for.
Reaped(c) == IF leader[c] = "zombie" THEN [leader EXCEPT ![c] = "reaped"] ELSE leader

\* The first probe: reuse, report, or go for the lock.
Ensure(c) ==
    /\ At(c, "probe")
    /\ \/ Answer = "ok" /\ Return(c, "already_ready")
       \/ Answer = "bad" /\ Return(c, "unhealthy")
       \/ Answer = "silent" /\ Goto(c, "lock") /\ Stay
       \/ /\ Answer = "silent"                   \* report only, remote, or no command
          /\ \E s \in {"unhealthy", "failed_to_start"} : Return(c, s)
    /\ UNCHANGED <<late, answered, admitted, system>>
    /\ NotesLapses

\* Mutant: a lock that cannot be had is no reason not to launch.
LaunchLock_shared(c) ==
    /\ At(c, "lock")
    /\ Goto(c, "reprobe") /\ lock' = c /\ UNCHANGED outcome
    /\ UNCHANGED <<late, answered, admitted, system>>
    /\ NotesLapses

\* _launch_lock, without blocking: a lock that is held, or that flock fails to take, makes a
\* contender.  The lock file may also be unusable.
LaunchLock(c) ==
    /\ At(c, "lock")
    /\ \/ lock = NoOne /\ lock' = c /\ Goto(c, "reprobe") /\ UNCHANGED outcome
       \/ Goto(c, "contend") /\ Stay                          \* BlockingIOError, any OSError
       \/ Return(c, "failed_to_start")                       \* LockUnavailableError
    /\ UNCHANGED <<late, answered, admitted, system>>
    /\ NotesLapses

\* Under the lock only a reachable gateway ends the call.
Reprobe(c) ==
    /\ At(c, "reprobe")
    /\ IF Answer = "ok" THEN Return(c, "already_ready") ELSE Goto(c, "launch") /\ Stay
    /\ UNCHANGED <<late, answered, admitted, system>>
    /\ NotesLapses

Launch(c) ==
    /\ At(c, "launch")
    /\ \/ /\ leader' = [leader EXCEPT ![c] = "running"]
          /\ Goto(c, "await") /\ Stay
       \/ /\ Return(c, "failed_to_start")
          /\ UNCHANGED leader
    /\ UNCHANGED <<late, answered, admitted, kid, port, health>>
    /\ NotesLapses

\* Mutants: the last snapshot is returned; there is no deadline for the owner.
WaitForOwner_snapshot(c) ==
    /\ At(c, "contend")
    /\ IF late[c] THEN Return(c, "starting") ELSE Goto(c, "contendprobe") /\ Stay
    /\ UNCHANGED <<late, answered, admitted, system>>
    /\ NotesLapses

WaitForOwner_patient(c) ==
    /\ At(c, "contend")
    /\ Goto(c, "contendprobe") /\ Stay
    /\ UNCHANGED <<late, answered, admitted, system>>
    /\ NotesLapses

\* _wait_for_owner: never launches, never signals.
WaitForOwner(c) ==
    /\ At(c, "contend")
    /\ IF late[c] THEN Return(c, "failed_to_start") ELSE Goto(c, "contendprobe") /\ Stay
    /\ UNCHANGED <<late, answered, admitted, system>>
    /\ NotesLapses

ProbeForOwner(c) ==
    /\ At(c, "contendprobe")
    /\ IF Answer = "ok" THEN Return(c, "started") ELSE Goto(c, "contend") /\ Stay
    /\ UNCHANGED <<late, answered, admitted, system>>
    /\ NotesLapses

\* _wait_for_launch, the head of its loop: the deadline, then poll(), which reaps.
WaitForLaunch(c) ==
    /\ At(c, "await")
    /\ IF late[c]
       THEN /\ Goto(c, "stop")
            /\ Decide(c, IF answered[c] THEN "unhealthy" ELSE "failed_to_start")
            /\ UNCHANGED leader
       ELSE IF leader[c] = "running"
       THEN Goto(c, "awaitprobe") /\ UNCHANGED <<outcome, leader>>
       ELSE Goto(c, "stop") /\ Decide(c, "failed_to_start") /\ leader' = Reaped(c)
    /\ UNCHANGED <<late, answered, admitted, lock, kid, port, health>>
    /\ NotesLapses

ProbeLaunched(c) ==
    /\ At(c, "awaitprobe")
    /\ IF Answer = "ok" THEN Return(c, "started") ELSE Goto(c, "await") /\ Stay
    /\ answered' = [answered EXCEPT ![c] = @ \/ Answer # "silent"]
    /\ UNCHANGED <<late, admitted, system>>
    /\ NotesLapses

-----------------------------------------------------------------------------
(* _stop_launched. *)

\* killpg finds no process: a leader that was not waited for still counts.
GroupGone(c, waited) == waited[c] = "reaped" /\ ~kid[c]

Stopped(c) == Leave(c) /\ UNCHANGED <<outcome, admitted>>
GivesUp(c) == Leave(c) /\ UNCHANGED outcome /\ admitted' = [admitted EXCEPT ![c] = TRUE]

\* Mutant: a leader that has exited is an early return.
SignalTerm_leader_only(c) ==
    /\ At(c, "stop")
    /\ leader' = Reaped(c)
    /\ \/ leader[c] # "running" /\ Stopped(c)
       \/ leader[c] = "running" /\ Goto(c, "term") /\ Stay /\ UNCHANGED admitted
       \/ GivesUp(c)
    /\ UNCHANGED <<late, answered, kid, port, health>>
    /\ NotesLapses

\* poll(), which reaps a leader that has exited, then SIGTERM to the group.
SignalTerm(c) ==
    /\ At(c, "stop")
    /\ leader' = Reaped(c)
    /\ \/ GroupGone(c, leader') /\ Stopped(c)
       \/ ~GroupGone(c, leader') /\ Goto(c, "term") /\ Stay /\ UNCHANGED admitted
       \/ GivesUp(c)                                         \* the signal is refused
    /\ UNCHANGED <<late, answered, kid, port, health>>
    /\ NotesLapses

\* The leader is waited for within the grace period.
ReapLeader(c) ==
    /\ At(c, "term")
    /\ leader' = Reaped(c)
    /\ Goto(c, "termwait") /\ Stay
    /\ UNCHANGED <<late, answered, admitted, kid, port, health>>
    /\ NotesLapses

\* _wait_for_group_exit: gone, or the grace period is over.
WaitForGroup(c) ==
    /\ At(c, "termwait")
    /\ \/ GroupGone(c, leader) /\ Stopped(c)
       \/ ~GroupGone(c, leader) /\ Goto(c, "kill") /\ Stay /\ UNCHANGED admitted
    /\ UNCHANGED <<late, answered, system>>
    /\ NotesLapses

SignalKill(c) ==
    /\ At(c, "kill")
    /\ \/ GroupGone(c, leader) /\ Stopped(c)
       \/ ~GroupGone(c, leader) /\ Goto(c, "killwait") /\ Stay /\ UNCHANGED admitted
       \/ GivesUp(c)
    /\ UNCHANGED <<late, answered, system>>
    /\ NotesLapses

\* The leader is waited for, then the group; what is left is reported.
WaitForKilled(c) ==
    /\ At(c, "killwait")
    /\ leader' = Reaped(c)
    /\ \/ GroupGone(c, leader') /\ Stopped(c)
       \/ ~GroupGone(c, leader') /\ GivesUp(c)
    /\ UNCHANGED <<late, answered, kid, port, health>>
    /\ NotesLapses

-----------------------------------------------------------------------------
(* The rest of the world. *)

\* A process with a call in it is interrupted or killed; the lock goes with it.
CallerDies(c) ==
    /\ pc[c] \notin Over
    /\ Goto(c, "killed")
    /\ lock' = IF lock = c THEN NoOne ELSE lock
    /\ UNCHANGED <<outcome, late, answered, admitted, system>>
    /\ NotesLapses

DeadlinePasses(c) ==
    /\ ~late[c] /\ pc[c] \notin Over
    /\ late' = [late EXCEPT ![c] = TRUE]
    /\ UNCHANGED <<pc, outcome, answered, admitted, lock, system>>
    /\ NotesLapses

\* The port of a process that ends is free.
Unbound(p) == port' = IF port = p THEN NoOne ELSE port

LeaderExits(c) ==
    /\ leader[c] = "running"
    /\ leader' = [leader EXCEPT ![c] = "zombie"]
    /\ Unbound(<<c, "leader">>)
    /\ UNCHANGED <<calls, kid, health>>
    /\ NotesLapses

KidStarts(c) ==
    /\ leader[c] = "running" /\ ~kid[c]
    /\ kid' = [kid EXCEPT ![c] = TRUE]
    /\ UNCHANGED <<calls, leader, port, health>>
    /\ NotesLapses

KidExits(c) ==
    /\ kid[c]
    /\ kid' = [kid EXCEPT ![c] = FALSE]
    /\ Unbound(<<c, "kid">>)
    /\ UNCHANGED <<calls, leader, health>>
    /\ NotesLapses

\* A process of a group, or a foreign one, gets the free port.
Binds(p) ==
    /\ port = NoOne
    /\ port' = p
    /\ health' \in {"ok", "bad", "hung"}
    /\ UNCHANGED <<calls, leader, kid>>
    /\ NotesLapses

HealthChanges ==
    /\ port # NoOne
    /\ health' \in {"ok", "bad", "hung"} \ {health}
    /\ UNCHANGED <<calls, leader, kid, port>>
    /\ NotesLapses

ForeignStops ==
    /\ port = Foreign
    /\ port' = NoOne
    /\ UNCHANGED <<calls, leader, kid, health>>
    /\ NotesLapses

-----------------------------------------------------------------------------
CallStep(c) ==
    \/ Ensure(c) \/ LaunchLock(c) \/ Reprobe(c) \/ Launch(c)
    \/ WaitForOwner(c) \/ ProbeForOwner(c) \/ WaitForLaunch(c) \/ ProbeLaunched(c)
    \/ SignalTerm(c) \/ ReapLeader(c) \/ WaitForGroup(c) \/ SignalKill(c) \/ WaitForKilled(c)

World ==
    \/ \E c \in Callers :
          \/ CallerDies(c) \/ LeaderExits(c) \/ KidStarts(c) \/ KidExits(c)
          \/ leader[c] = "running" /\ Binds(<<c, "leader">>)
          \/ kid[c] /\ Binds(<<c, "kid">>)
    \/ Binds(Foreign) \/ ForeignStops \/ HealthChanges

Next == World \/ \E c \in Callers : CallStep(c) \/ DeadlinePasses(c)

Spec == Init /\ [][Next]_vars

\* Probes, polls and signals return, sleeps end and the clock goes on.  Nothing is
\* assumed of the gateway or of the processes it starts.
FairSpec ==
    /\ Spec
    /\ \A c \in Callers : WF_vars(CallStep(c)) /\ WF_vars(DeadlinePasses(c))

-----------------------------------------------------------------------------
(* Properties. *)

\* "a bounded wait leaves no orphan": a call that returns without a ready gateway has
\* stopped every process it started, the descendants of a dead wrapper too, or says that
\* one may still be running.
NoSilentOrphan ==
    \A c \in Callers :
        pc[c] = "done" /\ outcome[c] \in {"unhealthy", "failed_to_start"} /\ ~admitted[c]
            => ~Running(c)

\* "concurrent callers can never launch duplicates": two launched gateways run at the same
\* time only if the call that started one of them is over and that one did not answer as
\* healthy since.  Callers that die, contend, time out or are overtaken change nothing.
OneGateway ==
    Cardinality({c \in Callers : Running(c)} \ lapsed) <= 1

\* Every call returns, whatever the lock, the other callers and the gateway do.
CallsReturn == \A c \in Callers : <>(pc[c] \in Over)
=============================================================================
