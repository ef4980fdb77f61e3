----------------------------- MODULE HealthStore -----------------------------
(***************************************************************************)
(* The shared health cache (orchestration/health_cache.py): one JSON file  *)
(* under an exclusive lock, long-lived HealthCache objects that keep a     *)
(* copy of it in memory (Writers), short-lived ones that only run one      *)
(* locked transaction, and dispatchers (relay, worker controller, DAG      *)
(* runtime) that turn a proof into a permit before they send.              *)
(*                                                                         *)
(* A transaction (merge_and_save) loads the file, mutates and replaces it  *)
(* atomically while it holds the lock, so it is one step; a lock that is   *)
(* not had within two seconds leaves everything as it is.  What a process  *)
(* read before its transaction (the clock, a proof, its copy) is stale in  *)
(* it, and that is what the properties are about.                          *)
(*                                                                         *)
(* An entry keeps what authorises or denies a dispatch: the last check,    *)
(* its verdict, the end of a negative, the last failure and the write      *)
(* revision.  Each route has one dispatch scope.  Time is a bounded clock. *)
(***************************************************************************)
EXTENDS Naturals, FiniteSets, FiniteSetsExt

CONSTANTS
    Routes,        \* exact route ids, each with its dispatch scope
    Writers,       \* HealthCache objects that live on: prober, coordinator, census
    Dispatchers,   \* callers of commit_dispatch
    Attempts,      \* attempt ids
    Events,        \* revocation event ids
    NoOne,         \* no permit
    Backoff,       \* how long a failure stays negative
    Validity,      \* PERMIT_PROOF_MAX_VALIDITY_SECONDS
    MaxTime,       \* bound on the clock
    MaxRevision    \* bound on the write revisions of an entry

ASSUME StoreAssumption ==
    /\ IsFiniteSet(Events)
    /\ Backoff \in Nat \ {0} /\ Validity \in Nat \ {0}
    /\ MaxTime \in Nat \ {0} /\ MaxRevision \in Nat   \* the clock starts at 1
    /\ NoOne \notin Dispatchers

VARIABLES
    clock,
    disk,       \* the file: [entry, scope, attempt]
    mem,        \* the copy each writer holds
    loaded,     \* _disk_snapshot: what the writer's copy last matched
    disp,       \* the dispatchers: program counter, proof and time stamp
    worst       \* history: the latest failure ever on file, per route

vars == <<clock, disk, mem, loaded, disp, worst>>

Times == 0 .. MaxTime

-----------------------------------------------------------------------------
(* Entries. *)

Entry == [healthy: BOOLEAN, checked: Times, until: 0 .. MaxTime + Backoff,
          failed: Times, revision: Nat]

\* A route without an entry: it neither denies nor outlives anything.
NoEntry == [healthy |-> TRUE, checked |-> 0, until |-> 0, failed |-> 0, revision |-> 0]

Later(s, t) == IF s >= t THEN s ELSE t

\* last_failure_at, or the check itself for a negative that has none.
LastFailure(e) == IF e.failed # 0 \/ e.healthy THEN e.failed ELSE e.checked

\* Mutant: a second failure starts its backoff at the end of the first.
Recorded_extended(e, ok, t) ==
    [healthy  |-> ok,
     checked  |-> t,
     until    |-> IF ok THEN 0 ELSE Later(t, e.until) + Backoff,
     failed   |-> IF ok THEN LastFailure(e) ELSE Later(t, LastFailure(e)),
     revision |-> e.revision]

\* HealthCache.record and record_liveness: one probe result at time t.  A success
\* keeps the last failure, a failure never moves it back.
Recorded(e, ok, t) ==
    [healthy  |-> ok,
     checked  |-> t,
     until    |-> IF ok THEN 0 ELSE t + Backoff,
     failed   |-> IF ok THEN LastFailure(e) ELSE Later(t, LastFailure(e)),
     revision |-> e.revision]

Negative(e, t) == ~e.healthy /\ t < e.until

\* The guard of every negative that arrives late: session feedback, relay feedback and
\* record_dispatch_observation give way to newer evidence and to an equal negative.
Superseded(e, t) == e.checked > t \/ (e.checked = t /\ ~e.healthy)

-----------------------------------------------------------------------------
(* Dispatch records. *)

Scope  == [epoch: Nat, revoked: [Events -> Times]]    \* event -> observed_at, 0 if absent
Permit == Dispatchers \cup {NoOne}

NoScope == [epoch |-> 0, revoked |-> [v \in Events |-> 0]]

Accepted(s) == {v \in Events : s.revoked[v] # 0}

\* Mutant: the copy in memory is what counts.
MergedScope_mine(mine, file) == mine

\* _merge_dispatch_records for one scope: the higher epoch, the union of the events, the
\* file's record where both have one.
MergedScope(mine, file) ==
    [epoch   |-> Later(file.epoch, mine.epoch),
     revoked |-> [v \in Events |-> IF file.revoked[v] # 0 THEN file.revoked[v]
                                                         ELSE mine.revoked[v]]]

MergedDispatch(mine, file) ==
    [scope   |-> [r \in Routes |-> MergedScope(mine.scope[r], file.scope[r])],
     attempt |-> [a \in Attempts |-> IF file.attempt[a] # NoOne THEN file.attempt[a]
                                                              ELSE mine.attempt[a]]]

Contents == [entry: [Routes -> Entry], scope: [Routes -> Scope], attempt: [Attempts -> Permit]]

Empty == [entry   |-> [r \in Routes |-> NoEntry],
          scope   |-> [r \in Routes |-> NoScope],
          attempt |-> [a \in Attempts |-> NoOne]]

-----------------------------------------------------------------------------
(* The dispatchers' side: a proof and what becomes of it. *)

NoProof == [pc |-> "idle", route |-> NoOne, qualified |-> 0, epoch |-> 0, stamp |-> 0,
            attempt |-> NoOne, seen |-> {}]

Proof == [pc: {"idle", "bound", "committing", "orphan", "sent", "fenced", "served"},
          route: Routes \cup {NoOne}, qualified: Times, epoch: Nat, stamp: Times,
          attempt: Attempts \cup {NoOne}, seen: SUBSET Events]

\* The proof deadline: the passport's own expiry may only bring it forward.
Due(p) == p.qualified + Validity

TypeOK ==
    /\ clock \in Times
    /\ disk \in Contents
    /\ mem \in [Writers -> Contents]
    /\ loaded \in [Writers -> Contents]
    /\ disp \in [Dispatchers -> Proof]
    /\ worst \in [Routes -> Times]

Init ==
    /\ clock = 1
    /\ disk = Empty
    /\ mem = [w \in Writers |-> Empty]
    /\ loaded = [w \in Writers |-> Empty]
    /\ disp = [d \in Dispatchers |-> NoProof]
    /\ worst = [r \in Routes |-> 0]

Tick ==
    /\ clock < MaxTime
    /\ clock' = clock + 1
    /\ UNCHANGED <<disk, mem, loaded, disp, worst>>

\* The file is replaced by new, and the history notes the failures on it.
Replace(new) ==
    /\ disk' = new
    /\ worst' = [r \in Routes |-> Later(worst[r], LastFailure(new.entry[r]))]

-----------------------------------------------------------------------------
(* Writers. *)

\* record() on the writer's own copy, unsaved: a probe that started at time t.
RecordInMemory(w, r, ok, t) ==
    /\ mem' = [mem EXCEPT ![w].entry[r] = Recorded(@, ok, t)]
    /\ UNCHANGED <<clock, disk, loaded, disp, worst>>

\* Mutant: the newer check wins, whatever was written since the copy was read.
Overrides_newest(mine, file) == mine.checked > file.checked

\* An entry of the copy goes over the file's when it is newer and was made from the
\* file's current revision (_merge_in_memory_over_disk).
Overrides(mine, file) == mine.revision >= file.revision /\ mine.checked > file.checked

Merged(mine, file) ==
    [entry |-> [r \in Routes |->
                   IF Overrides(mine.entry[r], file.entry[r])
                   THEN [mine.entry[r] EXCEPT !.revision = file.entry[r].revision + 1]
                   ELSE file.entry[r]],
     scope   |-> MergedDispatch(mine, file).scope,
     attempt |-> MergedDispatch(mine, file).attempt]

\* save(): load, fold the copy over the file, replace it; the copy is then the file.
Save(w) ==
    /\ \A r \in Routes : disk.entry[r].revision < MaxRevision
    /\ Replace(Merged(mem[w], disk))
    /\ mem' = [mem EXCEPT ![w] = disk']
    /\ loaded' = [loaded EXCEPT ![w] = disk']
    /\ UNCHANGED <<clock, disp>>

\* reload(): what the writer changed since it last matched the file stays, if newer.
Reloaded(mine, base, file) ==
    [entry |-> [r \in Routes |->
                   IF mine.entry[r] # base.entry[r] /\ mine.entry[r].checked > file.entry[r].checked
                   THEN mine.entry[r] ELSE file.entry[r]],
     scope   |-> MergedDispatch(mine, file).scope,
     attempt |-> MergedDispatch(mine, file).attempt]

Reload(w) ==
    /\ mem' = [mem EXCEPT ![w] = IF @ = loaded[w] THEN disk ELSE Reloaded(@, loaded[w], disk)]
    /\ loaded' = [loaded EXCEPT ![w] = disk]
    /\ UNCHANGED <<clock, disk, disp, worst>>

\* A writer's process dies and is started again with a new object.
WriterRestarts(w) ==
    /\ mem[w] # disk \/ loaded[w] # disk
    /\ mem' = [mem EXCEPT ![w] = disk]
    /\ loaded' = [loaded EXCEPT ![w] = disk]
    /\ UNCHANGED <<clock, disk, disp, worst>>

\* merge_and_save of entries: the mutated entry gets the next revision.  A long-lived
\* writer's copy becomes the file, whatever it held unsaved.
Transaction(w, r, e) ==
    /\ disk.entry[r].revision < MaxRevision
    /\ Replace([disk EXCEPT !.entry[r] = [e EXCEPT !.revision = disk.entry[r].revision + 1]])
    /\ IF w \in Writers
       THEN /\ mem' = [mem EXCEPT ![w] = disk']
            /\ loaded' = [loaded EXCEPT ![w] = disk']
       ELSE UNCHANGED <<mem, loaded>>
    /\ UNCHANGED <<clock, disp>>

\* The refresh coordinator and the free-tier offload: record or record_liveness as is.
RecordLocked(w, r, ok, t) == Transaction(w, r, Recorded(disk.entry[r], ok, t))

\* Session feedback, relay feedback, record_dispatch_observation: a failure at time t.
ObserveFailure(r, t) ==
    /\ ~Superseded(disk.entry[r], t)
    /\ Transaction(NoOne, r, Recorded(disk.entry[r], FALSE, t))

\* record_passive_traffic: real traffic seen at time t, chat-only evidence.
PassiveTraffic(r, t) ==
    /\ disk.entry[r].checked < t
    /\ ~Negative(disk.entry[r], clock)
    /\ Transaction(NoOne, r, Recorded(disk.entry[r], TRUE, t))

\* record_passive_failure: dropped when newer evidence or an expired backoff says so.
PassiveFailure(r, t) ==
    /\ disk.entry[r].checked < t
    /\ Negative(Recorded(disk.entry[r], FALSE, t), clock)
    /\ Transaction(NoOne, r, Recorded(disk.entry[r], FALSE, t))

\* record_agentic_evidence: capability evidence touches no verdict, but on a route without
\* an entry it makes one that is not healthy.
AgenticEvidence(r, t) ==
    Transaction(NoOne, r,
        IF disk.entry[r] = NoEntry
        THEN [NoEntry EXCEPT !.healthy = FALSE, !.checked = t, !.until = t]
        ELSE disk.entry[r])

-----------------------------------------------------------------------------
(* Dispatchers. *)

Step(d, pc) == disp[d].pc = pc

\* revocation_is_active: a scoped negative without a newer healthy check, or with a
\* negative one still running, or within the authentication backoff.
LatestRevocation(s) == Max({s.revoked[v] : v \in Events} \cup {0})

RevocationActive(e, s) ==
    LET at == LatestRevocation(s)
    IN  /\ at # 0
        /\ IF e.checked >= at /\ ~e.healthy THEN e.until > clock
           ELSE ~(e.healthy /\ e.checked > at) /\ at + Backoff > clock

\* admission_proof over one load of the file: a passport qualified at time q, the epoch
\* in force.  seen (history) is the set of revocations that the proof knows of.
BindProof(d, r, q) ==
    LET e == disk.entry[r]
        s == disk.scope[r]
    IN  /\ Step(d, "idle")
        /\ ~Negative(e, clock)
        /\ ~RevocationActive(e, s)
        /\ q > LatestRevocation(s)
        /\ disp' = [disp EXCEPT ![d] = [NoProof EXCEPT !.pc = "bound", !.route = r,
                        !.qualified = q, !.epoch = s.epoch, !.seen = Accepted(s)]]
        /\ UNCHANGED <<clock, disk, mem, loaded, worst>>

\* The caller reads the clock and asks for the lock; the checks on the time alone are
\* made before it is had.
AskPermit(d, a) ==
    /\ Step(d, "bound")
    /\ disp' = [disp EXCEPT ![d] =
           IF clock < Due(@) THEN [@ EXCEPT !.pc = "committing", !.stamp = clock, !.attempt = a]
                             ELSE NoProof]
    /\ UNCHANGED <<clock, disk, mem, loaded, worst>>

\* Mutants: the epoch is compared before the lock only; the attempt is not looked up.
Authorised_any_epoch(d) ==
    LET p == disp[d]
        e == disk.entry[p.route]
    IN  /\ ~Negative(e, p.stamp)
        /\ LastFailure(e) < p.qualified
        /\ disk.attempt[p.attempt] = NoOne

Authorised_reused(d) ==
    LET p == disp[d]
        e == disk.entry[p.route]
    IN  /\ ~Negative(e, p.stamp)
        /\ LastFailure(e) < p.qualified
        /\ p.epoch = disk.scope[p.route].epoch

\* The conditions under the lock, with the time read before it.
Authorised(d) ==
    LET p == disp[d]
        e == disk.entry[p.route]
    IN  /\ ~Negative(e, p.stamp)
        /\ LastFailure(e) < p.qualified
        /\ p.epoch = disk.scope[p.route].epoch
        /\ disk.attempt[p.attempt] = NoOne

\* commit_dispatch under the lock.  A caller that was cancelled meanwhile (orphan) never
\* learns what its thread committed.
CommitDispatch(d) ==
    /\ disp[d].pc \in {"committing", "orphan"}
    /\ IF Authorised(d)
       THEN /\ Replace([disk EXCEPT !.attempt[disp[d].attempt] = d])
            /\ disp' = [disp EXCEPT ![d] = IF @.pc = "orphan" THEN NoProof
                                           ELSE [@ EXCEPT !.pc = "sent"]]
       ELSE /\ disp' = [disp EXCEPT ![d] = NoProof]
            /\ UNCHANGED <<disk, worst>>
    /\ UNCHANGED <<clock, mem, loaded>>

\* The lock is not had in time: nothing is written, the attempt fails.
LockTimeout(d) ==
    /\ disp[d].pc \in {"committing", "orphan"}
    /\ disp' = [disp EXCEPT ![d] = NoProof]
    /\ UNCHANGED <<clock, disk, mem, loaded, worst>>

\* The driver waiting for the commit thread is cancelled; the thread goes on.
CallerCancelled(d) ==
    /\ Step(d, "committing")
    /\ disp' = [disp EXCEPT ![d].pc = "orphan"]
    /\ UNCHANGED <<clock, disk, mem, loaded, worst>>

\* record_revocation after an answer that denies the credential or the model: once per
\* event id, replays change nothing.  observed_at is read after the permit was asked for and
\* before the lock is had.
RevokeScope(d, v, t) ==
    LET r == disp[d].route
    IN  /\ Step(d, "sent") /\ t >= disp[d].stamp
        /\ \/ /\ disk.scope[r].revoked[v] = 0
              /\ Replace([disk EXCEPT !.scope[r].revoked[v] = t, !.scope[r].epoch = @ + 1])
           \/ /\ disk.scope[r].revoked[v] # 0
              /\ UNCHANGED <<disk, worst>>
        /\ disp' = [disp EXCEPT ![d] = NoProof]
        /\ UNCHANGED <<clock, mem, loaded>>

\* The epoch read after the send: an answer obtained under a revoked permit is dropped.
CheckEpoch(d) ==
    /\ Step(d, "sent")
    /\ disp' = [disp EXCEPT ![d].pc =
           IF disk.scope[disp[d].route].epoch = disp[d].epoch THEN "served" ELSE "fenced"]
    /\ UNCHANGED <<clock, disk, mem, loaded, worst>>

NextRequest(d) ==
    /\ disp[d].pc \in {"served", "fenced"}
    /\ disp' = [disp EXCEPT ![d] = NoProof]
    /\ UNCHANGED <<clock, disk, mem, loaded, worst>>

-----------------------------------------------------------------------------
WriterStep ==
    \/ \E w \in Writers : Save(w) \/ Reload(w) \/ WriterRestarts(w)
    \/ \E r \in Routes, t \in 1 .. clock :
          \/ \E w \in Writers, ok \in BOOLEAN : RecordInMemory(w, r, ok, t)
          \/ \E w \in Writers \cup {NoOne}, ok \in BOOLEAN : RecordLocked(w, r, ok, t)
          \/ ObserveFailure(r, t) \/ PassiveTraffic(r, t) \/ PassiveFailure(r, t)
          \/ AgenticEvidence(r, t)

DispatcherStep(d) ==
    \/ \E r \in Routes, q \in 1 .. clock : BindProof(d, r, q)
    \/ \E a \in Attempts : AskPermit(d, a)
    \/ CommitDispatch(d) \/ LockTimeout(d) \/ CallerCancelled(d)
    \/ \E v \in Events, t \in 1 .. clock : RevokeScope(d, v, t)
    \/ CheckEpoch(d) \/ NextRequest(d)

Next == Tick \/ WriterStep \/ \E d \in Dispatchers : DispatcherStep(d)

Spec == Init /\ [][Next]_vars

-----------------------------------------------------------------------------
(* Properties. *)

\* A permit that a dispatcher acts on is on the file as its own: no stale save() drops it
\* and no second caller, late thread or cancelled driver consumes the same attempt id.
PermitsOnFile ==
    \A d \in Dispatchers :
        disp[d].pc \in {"sent", "served", "fenced"} => disk.attempt[disp[d].attempt] = d

Minted(d) == \E a \in Attempts : disk.attempt[a] = NoOne /\ disk'.attempt[a] = d

\* commit_dispatch: a permit is minted only from a proof that knew every revocation of its
\* scope on file, however the processes that saved and merged meanwhile were interleaved.
NoPermitOverRevocation ==
    [][\A d \in Dispatchers :
          Minted(d) => disp[d].seen = Accepted(disk.scope[disp[d].route])]_vars

\* commit_dispatch, record, save: a proof captured before a failure that ever reached the
\* file mints no permit, though a recovery, a stale copy or older evidence replaced it.
NoPermitOverFailure ==
    [][\A d \in Dispatchers :
          Minted(d) => disp[d].qualified > worst[disp[d].route]]_vars

\* The file is the atomic register of DispatchRegister: merges of stale copies never lower
\* an epoch, forget a consumed attempt or move a record by themselves.
Register == INSTANCE DispatchRegister WITH
    epoch    <- [r \in Routes |-> disk.scope[r].epoch],
    consumed <- {a \in Attempts : disk.attempt[a] # NoOne}

ImplementsRegister == Register!RSpec
=============================================================================
