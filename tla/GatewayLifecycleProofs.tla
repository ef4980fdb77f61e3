----------------------- MODULE GatewayLifecycleProofs -----------------------
(***************************************************************************)
(* Proofs about GatewayLifecycle, for every finite set of callers: TypeOK, *)
(* NoSilentOrphan and OneGateway.                                          *)
(*                                                                         *)
(* The argument for OneGateway: whoever may launch holds the lock and has  *)
(* seen, under the lock, that nothing answers as healthy; whatever ran at  *)
(* that time outside a call had lapsed already, and nothing but the holder *)
(* of the lock adds a group.                                               *)
(***************************************************************************)
EXTENDS GatewayLifecycle, FiniteSetTheorems, TLAPS

-----------------------------------------------------------------------------
(* The inductive invariant. *)

\* Before its launch a call has no process.
Before == {"probe", "lock", "reprobe", "launch", "contend", "contendprobe"}

\* From the second probe on a call may add a group, or owns one.
Owning == {"launch", "await", "awaitprobe", "stop", "term", "termwait", "kill", "killwait"}

NothingYet == \A c \in Callers : pc[c] \in Before => ~Running(c)

\* Such a call holds the launch lock.
HoldsLock == \A c \in Callers : pc[c] \in Owning \cup {"reprobe"} => lock = c

\* Groups left running by their calls are noted when they do not serve.
LapsesNoted == Lapsing \subseteq lapsed

\* A call that may launch, or has launched, is alone with its group.
Alone ==
    \A c \in Callers : pc[c] \in Owning =>
        \A x \in Callers : Running(x) => x = c \/ x \in lapsed

IInv == TypeOK /\ NothingYet /\ NoSilentOrphan /\ HoldsLock /\ LapsesNoted /\ Alone

-----------------------------------------------------------------------------
(* What a step may do. *)

\* The steps of calls that leave the processes alone.
Quiet(c) ==
    \/ Ensure(c) \/ LaunchLock(c) \/ Reprobe(c) \/ WaitForOwner(c) \/ ProbeForOwner(c)
    \/ ProbeLaunched(c) \/ WaitForGroup(c) \/ SignalKill(c) \/ CallerDies(c) \/ DeadlinePasses(c)

\* The steps of calls that wait for the leader, and the launch.
Reaping(c) == WaitForLaunch(c) \/ SignalTerm(c) \/ ReapLeader(c) \/ WaitForKilled(c)

\* The processes and the port change, no call does.
Outside ==
    \/ \E c \in Callers :
          \/ LeaderExits(c) \/ KidStarts(c) \/ KidExits(c)
          \/ leader[c] = "running" /\ Binds(<<c, "leader">>)
          \/ kid[c] /\ Binds(<<c, "kid">>)
    \/ Binds(Foreign) \/ ForeignStops \/ HealthChanges

\* Every step is of one of these kinds.
LEMMA StepKinds ==
    ASSUME Next
    PROVE  Outside \/ \E c \in Callers : Quiet(c) \/ Reaping(c) \/ Launch(c)
BY DEF Next, World, CallStep, Outside, Quiet, Reaping

\* Type correctness is preserved.
LEMMA TypeStep == TypeOK /\ [Next]_vars => TypeOK'
<1> SUFFICES ASSUME TypeOK, [Next]_vars  PROVE TypeOK'
  OBVIOUS
<1>1. lapsed' \subseteq Callers
  <2>1. Lapsing' \subseteq Callers
    BY DEF Lapsing
  <2>2. lapsed' = lapsed \/ NotesLapses
    BY DEF Next, World, CallStep, vars, Ensure, LaunchLock, Reprobe, Launch, WaitForOwner,
           ProbeForOwner, WaitForLaunch, ProbeLaunched, SignalTerm, ReapLeader, WaitForGroup,
           SignalKill, WaitForKilled, CallerDies, DeadlinePasses, LeaderExits, KidStarts,
           KidExits, Binds, HealthChanges, ForeignStops
  <2>3. QED  BY <2>1, <2>2 DEF TypeOK, NotesLapses
<1> DEFINE Typed == /\ pc' \in [Callers -> {"probe", "lock", "reprobe", "launch", "await",
                                  "awaitprobe", "contend", "contendprobe", "stop", "term",
                                  "termwait", "kill", "killwait"} \cup Over]
                    /\ outcome' \in [Callers -> {"none", "already_ready", "started", "unhealthy",
                                                 "failed_to_start"}]
                    /\ late' \in [Callers -> BOOLEAN] /\ answered' \in [Callers -> BOOLEAN]
                    /\ admitted' \in [Callers -> BOOLEAN]
                    /\ lock' \in Callers \cup {NoOne}
                    /\ leader' \in [Callers -> {"none", "running", "zombie", "reaped"}]
                    /\ kid' \in [Callers -> BOOLEAN]
                    /\ port' \in {NoOne, Foreign} \cup (Callers \X {"leader", "kid"})
                    /\ health' \in {"ok", "bad", "hung"}
<1>2. ASSUME NEW c \in Callers, Ensure(c) \/ LaunchLock(c) \/ Reprobe(c) \/ Launch(c)  PROVE Typed
  BY <1>2 DEF TypeOK, Ensure, LaunchLock, Reprobe, Launch, Return, Leave, Decide, Goto, Stay,
              system, Over
<1>3. ASSUME NEW c \in Callers, WaitForOwner(c) \/ ProbeForOwner(c)  PROVE Typed
  BY <1>3 DEF TypeOK, WaitForOwner, ProbeForOwner, Return, Leave, Decide, Goto, Stay, system, Over
<1>4. ASSUME NEW c \in Callers, WaitForLaunch(c)  PROVE Typed
  BY <1>4 DEF TypeOK, WaitForLaunch, Decide, Goto, Reaped, Over
<1>5. ASSUME NEW c \in Callers, ProbeLaunched(c)  PROVE Typed
  <2>1. answered' \in [Callers -> BOOLEAN]
    BY <1>5 DEF TypeOK, ProbeLaunched
  <2>2. QED  BY <1>5, <2>1 DEF TypeOK, ProbeLaunched, Return, Leave, Decide, Goto, Stay, system, Over
<1>6. ASSUME NEW c \in Callers, SignalTerm(c) \/ ReapLeader(c) \/ WaitForKilled(c)  PROVE Typed
  BY <1>6 DEF TypeOK, SignalTerm, ReapLeader, WaitForKilled, Stopped, GivesUp, Leave, Goto, Stay,
              Reaped, Over
<1>7. ASSUME NEW c \in Callers, WaitForGroup(c) \/ SignalKill(c)  PROVE Typed
  BY <1>7 DEF TypeOK, WaitForGroup, SignalKill, Stopped, GivesUp, Leave, Goto, Stay, system, Over
<1>8. ASSUME NEW c \in Callers, CallerDies(c) \/ DeadlinePasses(c)  PROVE Typed
  BY <1>8 DEF TypeOK, CallerDies, DeadlinePasses, Goto, system, Over
<1>9. ASSUME Outside  PROVE Typed
  <2>1. ASSUME NEW c \in Callers, LeaderExits(c) \/ KidStarts(c) \/ KidExits(c)  PROVE Typed
    BY <2>1 DEF TypeOK, LeaderExits, KidStarts, KidExits, Unbound, calls, Over
  <2>2. ASSUME NEW p \in {Foreign} \cup (Callers \X {"leader", "kid"}), Binds(p)  PROVE Typed
    BY <2>2 DEF TypeOK, Binds, calls, Over
  <2>3. ASSUME HealthChanges \/ ForeignStops  PROVE Typed
    BY <2>3 DEF TypeOK, HealthChanges, ForeignStops, calls, Over
  <2>4. QED  BY <1>9, <2>1, <2>2, <2>3 DEF Outside
<1>10. ASSUME UNCHANGED vars  PROVE Typed
  BY <1>10 DEF TypeOK, vars, calls, system, Over
<1>11. Typed
  BY <1>2, <1>3, <1>4, <1>5, <1>6, <1>7, <1>8, <1>9, <1>10, StepKinds DEF Quiet, Reaping
<1>12. QED  BY <1>1, <1>11 DEF TypeOK

\* Nothing starts to run but by a launch, and a descendant under a leader that runs.
LEMMA RunsStep ==
    ASSUME TypeOK, [Next]_vars, NEW x \in Callers, Running(x)'
    PROVE  Running(x) \/ Launch(x)
<1>1. CASE UNCHANGED system
  BY <1>1 DEF Running, system
<1>2. ASSUME NEW c \in Callers, Reaping(c)  PROVE Running(x)
  <2>1. kid' = kid /\ leader' \in {leader, Reaped(c)}
    BY <1>2 DEF Reaping, WaitForLaunch, SignalTerm, ReapLeader, WaitForKilled
  <2>2. QED  BY <2>1 DEF TypeOK, Running, Reaped
<1>3. ASSUME NEW c \in Callers, Launch(c)  PROVE Running(x) \/ Launch(x)
  BY <1>3 DEF TypeOK, Running, Launch
<1>4. CASE Outside
  <2>1. ASSUME NEW c \in Callers, LeaderExits(c)  PROVE Running(x)
    BY <2>1 DEF TypeOK, LeaderExits, Running
  <2>2. ASSUME NEW c \in Callers, KidStarts(c) \/ KidExits(c)  PROVE Running(x)
    BY <2>2 DEF TypeOK, KidStarts, KidExits, Running
  <2>3. ASSUME NEW p, Binds(p) \/ HealthChanges \/ ForeignStops  PROVE Running(x)
    BY <2>3 DEF Binds, HealthChanges, ForeignStops, Running
  <2>4. QED  BY <1>4, <2>1, <2>2, <2>3 DEF Outside
<1>5. ASSUME NEW c \in Callers, Quiet(c)  PROVE UNCHANGED system
  BY <1>5 DEF Quiet, Ensure, LaunchLock, Reprobe, WaitForOwner, ProbeForOwner, ProbeLaunched,
              WaitForGroup, SignalKill, CallerDies, DeadlinePasses
<1>6. QED  BY <1>1, <1>2, <1>3, <1>4, <1>5, StepKinds DEF vars

\* What a step notes: no lapse is forgotten, and every one there is after it.
LEMMA LapsesStep ==
    ASSUME [Next]_vars, LapsesNoted
    PROVE  lapsed \subseteq lapsed' /\ LapsesNoted'
<1>1. CASE UNCHANGED vars
  BY <1>1 DEF vars, calls, system, LapsesNoted, Lapsing, Running, Serving
<1>2. CASE Next
  <2>1. NotesLapses
    BY <1>2 DEF Next, World, CallStep, Ensure, LaunchLock, Reprobe, Launch, WaitForOwner,
           ProbeForOwner, WaitForLaunch, ProbeLaunched, SignalTerm, ReapLeader, WaitForGroup,
           SignalKill, WaitForKilled, CallerDies, DeadlinePasses, LeaderExits, KidStarts,
           KidExits, Binds, HealthChanges, ForeignStops
  <2>2. QED  BY <2>1 DEF NotesLapses, LapsesNoted
<1>3. QED  BY <1>1, <1>2

\* How a call gets on: it is in its launch only under the lock, after a probe that nothing
\* healthy answered; it leaves the lock when it returns or dies.
LEMMA CallsStep ==
    ASSUME TypeOK, HoldsLock, [Next]_vars, NEW x \in Callers
    PROVE  /\ pc'[x] \in Before => pc[x] \in Before /\ ~Launch(x)
           /\ pc'[x] \in Owning => pc[x] \in Owning \/ (At(x, "reprobe") /\ Answer # "ok")
           /\ pc'[x] \in Owning \cup {"reprobe"} => lock' = x
<1> USE GatewayAssumption
<1> DEFINE GetsOn ==
             /\ pc'[x] \in Before => pc[x] \in Before /\ ~Launch(x)
             /\ pc'[x] \in Owning => pc[x] \in Owning \/ (At(x, "reprobe") /\ Answer # "ok")
             /\ pc'[x] \in Owning \cup {"reprobe"} => lock' = x
<1>1. ASSUME NEW c \in Callers,
             Ensure(c) \/ LaunchLock(c) \/ Reprobe(c) \/ WaitForOwner(c) \/ ProbeForOwner(c)
      PROVE  GetsOn
  BY <1>1 DEF TypeOK, HoldsLock, Ensure, LaunchLock, Reprobe, WaitForOwner, ProbeForOwner, Launch,
              Return, Leave, Decide, Goto, Stay, At, Before, Owning, Over
<1>2. ASSUME NEW c \in Callers, Launch(c) \/ WaitForLaunch(c) \/ ProbeLaunched(c)
      PROVE  GetsOn
  BY <1>2 DEF TypeOK, HoldsLock, Launch, WaitForLaunch, ProbeLaunched,
              Return, Leave, Decide, Goto, Stay, At, Before, Owning, Over
<1>3. ASSUME NEW c \in Callers,
             SignalTerm(c) \/ ReapLeader(c) \/ WaitForGroup(c) \/ SignalKill(c) \/ WaitForKilled(c)
      PROVE  GetsOn
  BY <1>3 DEF TypeOK, HoldsLock, SignalTerm, ReapLeader, WaitForGroup, SignalKill, WaitForKilled,
              Launch, Stopped, GivesUp, Leave, Goto, Return, Decide, Stay, At, Before, Owning, Over
<1>4. ASSUME NEW c \in Callers, CallerDies(c) \/ DeadlinePasses(c)
      PROVE  GetsOn
  BY <1>4 DEF TypeOK, HoldsLock, CallerDies, DeadlinePasses,
              Launch, Leave, Goto, Return, Decide, Stay, At, Before, Owning, Over, system
<1>5. ASSUME Outside \/ UNCHANGED vars
      PROVE  GetsOn
  <2>1. pc' = pc /\ lock' = lock
    BY <1>5 DEF Outside, LeaderExits, KidStarts, KidExits, Binds, HealthChanges, ForeignStops,
                calls, vars
  <2>2. QED  BY <2>1 DEF HoldsLock, TypeOK, Launch, Return, Leave, Goto, At, Before
<1>6. QED  BY <1>1, <1>2, <1>3, <1>4, <1>5, StepKinds DEF Quiet, Reaping

-----------------------------------------------------------------------------
(* The invariant holds. *)

\* A call that returns without a ready gateway has seen its group gone, or says otherwise.
LEMMA OrphanStep ==
    ASSUME TypeOK, NothingYet, NoSilentOrphan, [Next]_vars
    PROVE  NoSilentOrphan'
<1> SUFFICES ASSUME NEW x \in Callers, pc'[x] = "done",
                    outcome'[x] \in {"unhealthy", "failed_to_start"}, ~admitted'[x]
             PROVE  ~Running(x)'
  BY DEF NoSilentOrphan
<1>1. CASE pc[x] = "done" /\ outcome'[x] = outcome[x] /\ admitted'[x] = admitted[x]
  <2>1. ~Running(x) /\ ~Launch(x)
    BY <1>1 DEF NoSilentOrphan, Launch, At
  <2>2. QED  BY <2>1, RunsStep
<1>2. CASE Ensure(x) \/ LaunchLock(x) \/ Reprobe(x) \/ WaitForOwner(x)
  BY <1>2 DEF TypeOK, NothingYet, Before, Running, Ensure, LaunchLock, Reprobe, WaitForOwner,
              Goto, Stay, At, system
<1>3. CASE ProbeForOwner(x) \/ ProbeLaunched(x)
  BY <1>3 DEF TypeOK, ProbeForOwner, ProbeLaunched, Return, Decide, Goto, Stay
<1>4. CASE Launch(x)
  BY <1>4 DEF TypeOK, NothingYet, Before, Running, Launch, Return, Leave, Goto, At
<1>5. CASE WaitForLaunch(x) \/ ReapLeader(x) \/ CallerDies(x)
  BY <1>5 DEF TypeOK, WaitForLaunch, ReapLeader, CallerDies, Goto
<1>6. CASE SignalTerm(x) \/ WaitForKilled(x)
  BY <1>6 DEF TypeOK, SignalTerm, WaitForKilled, Stopped, GivesUp, GroupGone, Running, Leave, Goto
<1>7. CASE WaitForGroup(x) \/ SignalKill(x)
  BY <1>7 DEF TypeOK, WaitForGroup, SignalKill, Stopped, GivesUp, GroupGone, Running, Leave, Goto,
              system
<1>8. CASE UNCHANGED <<pc, outcome, admitted>>
  BY <1>1, <1>8
<1>9. ASSUME NEW c \in Callers, c # x, Quiet(c) \/ Reaping(c) \/ Launch(c)
      PROVE  pc'[x] = pc[x] /\ outcome'[x] = outcome[x] /\ admitted'[x] = admitted[x]
  <2>1. CASE Quiet(c)
    BY <1>9, <2>1 DEF TypeOK, Quiet, Ensure, LaunchLock, Reprobe, WaitForOwner, ProbeForOwner,
           ProbeLaunched, WaitForGroup, SignalKill, CallerDies, DeadlinePasses,
           Stopped, GivesUp, Return, Leave, Decide, Goto, Stay
  <2>2. CASE Reaping(c) \/ Launch(c)
    BY <1>9, <2>2 DEF TypeOK, Reaping, WaitForLaunch, SignalTerm, ReapLeader, WaitForKilled, Launch,
           Stopped, GivesUp, Return, Leave, Decide, Goto, Stay
  <2>3. QED  BY <1>9, <2>1, <2>2
<1>10. Outside \/ UNCHANGED vars \/ DeadlinePasses(x) => UNCHANGED <<pc, outcome, admitted>>
  BY DEF Outside, LeaderExits, KidStarts, KidExits, Binds, HealthChanges, ForeignStops,
         DeadlinePasses, calls, vars
<1>11. QED
  BY <1>1, <1>2, <1>3, <1>4, <1>5, <1>6, <1>7, <1>8, <1>9, <1>10, StepKinds DEF Quiet, Reaping

\* Under the lock, what runs outside the holder's group has lapsed.
LEMMA AloneStep ==
    ASSUME IInv, [Next]_vars
    PROVE  Alone'
<1> USE DEF IInv
<1> SUFFICES ASSUME NEW c \in Callers, pc'[c] \in Owning, NEW x \in Callers, x # c, Running(x)'
             PROVE  x \in lapsed'
  BY DEF Alone
<1>1. lapsed \subseteq lapsed'
  BY LapsesStep
<1>2. pc[c] \in Owning \/ (At(c, "reprobe") /\ Answer # "ok")
  BY CallsStep
<1>3. lock = c
  BY <1>2 DEF HoldsLock, At
<1>4. Running(x) /\ pc[x] \notin Owning
  <2>1. pc[x] \notin Owning
    BY <1>3 DEF HoldsLock
  <2>2. ~Launch(x)
    BY <2>1 DEF Launch, At, Owning
  <2>3. QED  BY <2>1, <2>2, RunsStep
<1>5. CASE pc[c] \in Owning
  BY <1>1, <1>4, <1>5 DEF Alone
<1>6. CASE At(c, "reprobe") /\ Answer # "ok"
  <2>1. pc[x] \in Over
    BY <1>4 DEF TypeOK, NothingYet, Before, Owning
  <2>2. ~Serving(x)
    <3>1. port = NoOne \/ health # "ok"
      BY <1>6 DEF Answer
    <3>2. <<x, "leader">> # NoOne /\ <<x, "kid">> # NoOne
      BY GatewayAssumption
    <3>3. QED  BY <3>1, <3>2 DEF Serving
  <2>3. QED  BY <1>1, <1>4, <2>1, <2>2 DEF LapsesNoted, Lapsing
<1>7. QED  BY <1>2, <1>5, <1>6

\* No call has started.
LEMMA Initially == Init => IInv
<1> SUFFICES ASSUME Init  PROVE IInv
  OBVIOUS
<1>1. TypeOK
  BY DEF Init, TypeOK
<1>2. \A c \in Callers : pc[c] = "probe" /\ leader[c] = "none" /\ ~kid[c]
  BY DEF Init
<1>3. QED  BY <1>1, <1>2 DEF IInv, NothingYet, NoSilentOrphan, HoldsLock, LapsesNoted, Lapsing, Alone,
                            Running, Before, Owning, Over

\* Every step keeps the invariant.
LEMMA Inductive == IInv /\ [Next]_vars => IInv'
<1> SUFFICES ASSUME IInv, [Next]_vars  PROVE IInv'
  OBVIOUS
<1>1. TypeOK'
  BY TypeStep DEF IInv
<1>2. NothingYet'
  BY CallsStep, RunsStep DEF IInv, NothingYet
<1>3. HoldsLock'
  BY CallsStep DEF IInv, HoldsLock
<1>4. QED  BY <1>1, <1>2, <1>3, OrphanStep, LapsesStep, AloneStep DEF IInv

\* The inductive invariant holds in every reachable state.
THEOREM InvariantHolds == Spec => []IInv
BY Initially, Inductive, PTL DEF Spec

-----------------------------------------------------------------------------
(* The theorems. *)

\* Type correctness of the calls, the lock and the processes.
THEOREM TypeCorrect == Spec => []TypeOK
<1>1. IInv => TypeOK
  BY DEF IInv
<1>2. QED  BY <1>1, InvariantHolds, PTL

\* _stop_launched, "a bounded wait leaves no orphan", for every number of callers: who
\* returns without a ready gateway has no process left, or says that it may have.
THEOREM OrphansTold == Spec => []NoSilentOrphan
<1>1. IInv => NoSilentOrphan
  BY DEF IInv
<1>2. QED  BY <1>1, InvariantHolds, PTL

\* _launch_lock, "concurrent callers can never launch duplicates", for every number of
\* callers: at most one launched gateway runs that is in a call or serves.
THEOREM AtMostOneGateway == Spec => []OneGateway
<1>1. IInv => OneGateway
  <2> SUFFICES ASSUME IInv  PROVE OneGateway
    OBVIOUS
  <2> DEFINE S == {c \in Callers : Running(c)} \ lapsed
  <2>1. ASSUME NEW x \in S, NEW y \in S  PROVE x = y
    <3>1. CASE pc[x] \in Owning \/ pc[y] \in Owning
      BY <3>1 DEF IInv, Alone
    <3>2. CASE pc[x] \notin Owning /\ pc[y] \notin Owning
      <4>1. pc[x] \in Over /\ pc[y] \in Over
        BY <3>2 DEF IInv, TypeOK, NothingYet, Before, Owning
      <4>2. Serving(x) /\ Serving(y)
        BY <4>1 DEF IInv, LapsesNoted, Lapsing
      <4>3. QED  BY <4>2 DEF Serving
    <3>3. QED  BY <3>1, <3>2
  <2>2. CASE S = {}
    BY <2>2, FS_EmptySet DEF OneGateway
  <2>3. CASE S # {}
    <3>1. PICK x \in S : TRUE
      BY <2>3
    <3>2. S = {x}
      BY <2>1, <3>1
    <3>3. Cardinality(S) = 1
      BY <3>2, FS_Singleton
    <3>4. QED  BY <3>3 DEF OneGateway
  <2>4. QED  BY <2>2, <2>3
<1>2. QED  BY <1>1, InvariantHolds, PTL
=============================================================================
