-------------------------- MODULE HealthStoreProofs --------------------------
(***************************************************************************)
(* Proofs about HealthStore, for every set of routes, writers, dispatchers *)
(* and attempts and every bound: TypeOK, PermitsOnFile, the two properties *)
(* of a minted permit and the refinement of DispatchRegister.              *)
(*                                                                         *)
(* They follow from one inductive invariant, IInv: whatever a writer still *)
(* holds is behind the file, so that no merge moves a dispatch record and  *)
(* no merge forgets a failure.                                             *)
(***************************************************************************)
EXTENDS HealthStore, TLAPS

-----------------------------------------------------------------------------
(* The inductive invariant. *)

\* The dispatch records of a copy are on the file, which may have more.
RecordsBehind(mine, file) ==
    /\ \A r \in Routes :
          /\ mine.scope[r].epoch <= file.scope[r].epoch
          /\ \A v \in Events : mine.scope[r].revoked[v] # 0 => file.scope[r].revoked[v] # 0
    /\ \A a \in Attempts : mine.attempt[a] # NoOne => file.attempt[a] # NoOne

\* An entry was made from an earlier revision, or from this one and knows its failures.
EntryBehind(mine, file) ==
    /\ mine.revision <= file.revision
    /\ mine.revision = file.revision => LastFailure(file) <= LastFailure(mine)

CopiesBehind ==
    \A w \in Writers :
        /\ RecordsBehind(mem[w], disk)
        /\ \A r \in Routes : EntryBehind(mem[w].entry[r], disk.entry[r])

\* No failure that was on file is ever off it.
FailuresKept == \A r \in Routes : worst[r] = LastFailure(disk.entry[r])

\* A proof is of a route, at an epoch that was in force with the revocations it has seen;
\* who asks for a permit has an attempt id.
ProofsBound ==
    \A d \in Dispatchers :
        disp[d].pc # "idle" =>
            /\ disp[d].route \in Routes
            /\ disp[d].epoch <= disk.scope[disp[d].route].epoch
            /\ disp[d].epoch = disk.scope[disp[d].route].epoch
                  => disp[d].seen = Accepted(disk.scope[disp[d].route])
            /\ disp[d].pc # "bound" => disp[d].attempt \in Attempts

IInv == TypeOK /\ CopiesBehind /\ FailuresKept /\ ProofsBound /\ PermitsOnFile

-----------------------------------------------------------------------------
(* Entries. *)

\* A probe result makes an entry of an entry, at its revision, that knows no fewer failures.
LEMMA RecordedEntry ==
    ASSUME NEW e \in Entry, NEW ok \in BOOLEAN, NEW t \in Times, t >= 1
    PROVE  /\ Recorded(e, ok, t) \in Entry
           /\ Recorded(e, ok, t).revision = e.revision
           /\ LastFailure(e) <= LastFailure(Recorded(e, ok, t))
<1>1. LastFailure(e) \in Times
  BY StoreAssumption DEF LastFailure, Entry, Times
<1>2. Later(t, LastFailure(e)) \in Times /\ Later(t, LastFailure(e)) >= LastFailure(e)
         /\ Later(t, LastFailure(e)) # 0
  BY <1>1, StoreAssumption DEF Later, Times
<1>3. t + Backoff \in 0 .. MaxTime + Backoff /\ 0 \in 0 .. MaxTime + Backoff
  BY StoreAssumption DEF Times
<1>4. e.revision \in Nat
  BY DEF Entry
<1>5. CASE ok
  <2>1. Recorded(e, ok, t) = [healthy |-> TRUE, checked |-> t, until |-> 0,
                              failed |-> LastFailure(e), revision |-> e.revision]
    BY <1>5 DEF Recorded
  <2>2. LastFailure(Recorded(e, ok, t)) = LastFailure(e)
    BY <2>1 DEF LastFailure
  <2>3. QED  BY <1>1, <1>3, <1>4, <2>1, <2>2, StoreAssumption DEF Entry, Times
<1>6. CASE ~ok
  <2>1. Recorded(e, ok, t) = [healthy |-> FALSE, checked |-> t, until |-> t + Backoff,
                              failed |-> Later(t, LastFailure(e)), revision |-> e.revision]
    BY <1>6 DEF Recorded
  <2>2. LastFailure(Recorded(e, ok, t)) = Later(t, LastFailure(e))
    BY <1>2, <2>1 DEF LastFailure
  <2>3. QED  BY <1>1, <1>2, <1>3, <1>4, <2>1, <2>2 DEF Entry
<1>7. QED  BY <1>5, <1>6

\* The next revision of an entry is an entry with the same failures.
LEMMA NextRevision ==
    ASSUME NEW e \in Entry, NEW n \in Nat
    PROVE  /\ [e EXCEPT !.revision = n] \in Entry
           /\ [e EXCEPT !.revision = n].revision = n
           /\ LastFailure([e EXCEPT !.revision = n]) = LastFailure(e)
BY DEF Entry, LastFailure

\* The last failure of an entry is a time.
LEMMA LastFailureTime ==
    ASSUME NEW e \in Entry
    PROVE  LastFailure(e) \in Times
BY StoreAssumption DEF LastFailure, Entry, Times

\* Merging a copy that is behind the file leaves the file's dispatch records as they are.
LEMMA MergeKeepsRecords ==
    ASSUME NEW mine \in Contents, NEW file \in Contents, RecordsBehind(mine, file)
    PROVE  /\ MergedDispatch(mine, file).scope = file.scope
           /\ MergedDispatch(mine, file).attempt = file.attempt
<1>1. ASSUME NEW r \in Routes
      PROVE  MergedScope(mine.scope[r], file.scope[r]) = file.scope[r]
  <2>1. /\ file.scope[r] \in Scope /\ mine.scope[r] \in Scope
        /\ mine.scope[r].epoch <= file.scope[r].epoch
        /\ \A v \in Events : mine.scope[r].revoked[v] # 0 => file.scope[r].revoked[v] # 0
    BY <1>1 DEF Contents, RecordsBehind
  <2>2. Later(file.scope[r].epoch, mine.scope[r].epoch) = file.scope[r].epoch
    BY <2>1 DEF Later, Scope
  <2>3. [v \in Events |-> IF file.scope[r].revoked[v] # 0 THEN file.scope[r].revoked[v]
                          ELSE mine.scope[r].revoked[v]] = file.scope[r].revoked
    <3>1. \A v \in Events : file.scope[r].revoked[v] = 0
                               => mine.scope[r].revoked[v] = file.scope[r].revoked[v]
      BY <2>1
    <3>2. file.scope[r].revoked \in [Events -> Times]
      BY <2>1 DEF Scope
    <3>3. QED  BY <3>1, <3>2
  <2>4. QED  BY <2>1, <2>2, <2>3 DEF MergedScope, Scope
<1>2. MergedDispatch(mine, file).scope = file.scope
  <2>1. file.scope \in [Routes -> Scope]
    BY DEF Contents
  <2>2. MergedDispatch(mine, file).scope = [r \in Routes |-> file.scope[r]]
    BY <1>1 DEF MergedDispatch
  <2>3. QED  BY <2>1, <2>2
<1>3. MergedDispatch(mine, file).attempt = file.attempt
  <2>1. file.attempt \in [Attempts -> Permit]
    BY DEF Contents
  <2>2. \A a \in Attempts : file.attempt[a] = NoOne => mine.attempt[a] = file.attempt[a]
    BY DEF RecordsBehind
  <2>3. QED  BY <2>1, <2>2 DEF MergedDispatch
<1>4. QED  BY <1>2, <1>3

-----------------------------------------------------------------------------
(* Kinds of steps. *)

\* The file's entry may have gone on by one revision, with the failures it had.
Follows(new, old) ==
    \/ new = old
    \/ new.revision = old.revision + 1 /\ LastFailure(old) <= LastFailure(new)

\* A writer's transaction: entries go on, the dispatch records do not move.
WritesEntries ==
    /\ disk' \in Contents
    /\ disk'.scope = disk.scope /\ disk'.attempt = disk.attempt
    /\ \A r \in Routes : Follows(disk'.entry[r], disk.entry[r])
    /\ Replace(disk')
    /\ mem' \in [Writers -> Contents] /\ \A w \in Writers : mem'[w] \in {mem[w], disk'}
    /\ loaded' \in [Writers -> Contents]
    /\ UNCHANGED <<clock, disp>>

\* A writer changes its copy only.
ChangesCopy ==
    /\ mem' \in [Writers -> Contents] /\ loaded' \in [Writers -> Contents]
    /\ CopiesBehind'
    /\ UNCHANGED <<clock, disk, disp, worst>>

\* A dispatcher goes on without writing: what it then holds is bound to the file.
Holds(d, p) ==
    p.pc # "idle" =>
        /\ p.route \in Routes
        /\ p.epoch <= disk.scope[p.route].epoch
        /\ p.epoch = disk.scope[p.route].epoch => p.seen = Accepted(disk.scope[p.route])
        /\ p.pc # "bound" => p.attempt \in Attempts
        /\ p.pc \in {"sent", "served", "fenced"} => disk.attempt[p.attempt] = d

GoesOn(d) ==
    /\ \E p \in Proof : Holds(d, p) /\ disp' = [disp EXCEPT ![d] = p]
    /\ UNCHANGED <<clock, disk, mem, loaded, worst>>

\* A permit is written.
Mints(d) ==
    /\ disp[d].pc \in {"committing", "orphan"}
    /\ Authorised(d)
    /\ Replace([disk EXCEPT !.attempt[disp[d].attempt] = d])
    /\ disp' = [disp EXCEPT ![d] = IF @.pc = "orphan" THEN NoProof
                                   ELSE [@ EXCEPT !.pc = "sent"]]
    /\ UNCHANGED <<clock, mem, loaded>>

\* A revocation is accepted.
Accepts(d, v, t) ==
    LET r == disp[d].route
    IN  /\ Step(d, "sent")
        /\ disk.scope[r].revoked[v] = 0
        /\ Replace([disk EXCEPT !.scope[r].revoked[v] = t, !.scope[r].epoch = @ + 1])
        /\ disp' = [disp EXCEPT ![d] = NoProof]
        /\ UNCHANGED <<clock, mem, loaded>>

Kind ==
    \/ Tick \/ WritesEntries \/ ChangesCopy
    \/ \E d \in Dispatchers :
          GoesOn(d) \/ Mints(d) \/ \E v \in Events, t \in 1 .. clock : Accepts(d, v, t)

\* The copy of a writer that has just read the file is behind it.
LEMMA CopyBehind ==
    ASSUME NEW file \in Contents
    PROVE  RecordsBehind(file, file) /\ \A r \in Routes : EntryBehind(file.entry[r], file.entry[r])
<1>1. RecordsBehind(file, file)
  BY DEF RecordsBehind, Contents, Scope
<1>2. ASSUME NEW r \in Routes  PROVE EntryBehind(file.entry[r], file.entry[r])
  <2>1. file.entry[r] \in Entry /\ LastFailure(file.entry[r]) \in Times
    BY LastFailureTime DEF Contents
  <2>2. QED  BY <2>1 DEF EntryBehind, Entry, Times
<1>3. QED  BY <1>1, <1>2

\* A locked transaction on one entry with no fewer failures than the file's.
LEMMA TransactionWrites ==
    ASSUME IInv, NEW w, NEW r \in Routes, NEW e \in Entry, Transaction(w, r, e),
           LastFailure(disk.entry[r]) <= LastFailure(e)
    PROVE  WritesEntries
<1> DEFINE n == [e EXCEPT !.revision = disk.entry[r].revision + 1]
<1>1. disk \in Contents /\ disk.entry[r] \in Entry /\ disk.entry[r].revision + 1 \in Nat
  BY DEF IInv, TypeOK, Contents, Entry
<1>2. /\ n \in Entry /\ n.revision = disk.entry[r].revision + 1
      /\ LastFailure(n) = LastFailure(e)
  BY <1>1, NextRevision
<1> HIDE DEF n
<1>3. disk' = [disk EXCEPT !.entry[r] = n]
  BY DEF Transaction, Replace, n
<1>4. /\ disk' \in Contents
      /\ disk'.scope = disk.scope /\ disk'.attempt = disk.attempt
      /\ disk'.entry = [disk.entry EXCEPT ![r] = n]
  BY <1>1, <1>2, <1>3 DEF Contents
<1>5. ASSUME NEW q \in Routes  PROVE Follows(disk'.entry[q], disk.entry[q])
  BY <1>1, <1>2, <1>4 DEF Follows, Contents
<1>6. Replace(disk')
  BY DEF Transaction, Replace
<1>7. /\ mem' \in [Writers -> Contents] /\ \A x \in Writers : mem'[x] \in {mem[x], disk'}
      /\ loaded' \in [Writers -> Contents]
  BY <1>4 DEF IInv, TypeOK, Transaction
<1>8. QED  BY <1>4, <1>5, <1>6, <1>7 DEF WritesEntries, Transaction

\* save(): the copy's entries that go over the file's know its failures.
LEMMA SaveWrites ==
    ASSUME IInv, NEW w \in Writers, Save(w)
    PROVE  WritesEntries
<1>1. disk \in Contents /\ mem[w] \in Contents
  BY DEF IInv, TypeOK
<1>2. disk' = Merged(mem[w], disk)
  BY DEF Save, Replace
<1>3. disk'.scope = disk.scope /\ disk'.attempt = disk.attempt
  <2>1. RecordsBehind(mem[w], disk)
    BY DEF IInv, CopiesBehind
  <2>2. QED  BY <1>1, <1>2, <2>1, MergeKeepsRecords DEF Merged
<1>4. ASSUME NEW r \in Routes
      PROVE  disk'.entry[r] \in Entry /\ Follows(disk'.entry[r], disk.entry[r])
  <2>1. /\ mem[w].entry[r] \in Entry /\ disk.entry[r] \in Entry
        /\ disk.entry[r].revision + 1 \in Nat
        /\ EntryBehind(mem[w].entry[r], disk.entry[r])
    BY <1>1 DEF IInv, CopiesBehind, Contents, Entry
  <2>2. CASE Overrides(mem[w].entry[r], disk.entry[r])
    <3>1. disk'.entry[r] = [mem[w].entry[r] EXCEPT !.revision = disk.entry[r].revision + 1]
      BY <1>2, <2>2 DEF Merged
    <3>2. LastFailure(disk.entry[r]) <= LastFailure(mem[w].entry[r])
      BY <2>1, <2>2 DEF Overrides, EntryBehind, Entry
    <3>3. QED  BY <2>1, <3>1, <3>2, NextRevision DEF Follows
  <2>3. CASE ~Overrides(mem[w].entry[r], disk.entry[r])
    BY <1>2, <2>1, <2>3 DEF Merged, Follows
  <2>4. QED  BY <2>2, <2>3
<1>5. disk' \in Contents
  <2>1. disk'.entry \in [Routes -> Entry]
    BY <1>2, <1>4 DEF Merged
  <2>2. disk' = [entry |-> disk'.entry, scope |-> disk'.scope, attempt |-> disk'.attempt]
    BY <1>2 DEF Merged
  <2>3. QED  BY <1>1, <1>3, <2>1, <2>2 DEF Contents
<1>6. Replace(disk')
  BY DEF Save, Replace
<1>7. /\ mem' \in [Writers -> Contents] /\ \A x \in Writers : mem'[x] \in {mem[x], disk'}
      /\ loaded' \in [Writers -> Contents]
  BY <1>5 DEF IInv, TypeOK, Save
<1>8. QED  BY <1>3, <1>4, <1>5, <1>6, <1>7 DEF WritesEntries, Save

\* Every locked transaction of a caller knows the failures on file.
LEMMA CallersWrite ==
    ASSUME IInv, NEW r \in Routes, NEW t \in 1 .. clock,
           \/ \E w \in Writers \cup {NoOne}, ok \in BOOLEAN : RecordLocked(w, r, ok, t)
           \/ ObserveFailure(r, t) \/ PassiveTraffic(r, t) \/ PassiveFailure(r, t)
           \/ AgenticEvidence(r, t)
    PROVE  WritesEntries
<1>1. disk.entry[r] \in Entry /\ t \in Times /\ t >= 1
  BY StoreAssumption DEF IInv, TypeOK, Contents, Times
<1>2. ASSUME NEW w, NEW ok \in BOOLEAN, Transaction(w, r, Recorded(disk.entry[r], ok, t))
      PROVE  WritesEntries
  <2>1. /\ Recorded(disk.entry[r], ok, t) \in Entry
        /\ LastFailure(disk.entry[r]) <= LastFailure(Recorded(disk.entry[r], ok, t))
    BY <1>1, RecordedEntry
  <2>2. QED  BY <1>2, <2>1, TransactionWrites
<1>3. CASE AgenticEvidence(r, t)
  <2> DEFINE n == [NoEntry EXCEPT !.healthy = FALSE, !.checked = t, !.until = t]
  <2>1. NoEntry \in Entry /\ NoEntry.failed = 0 /\ NoEntry.healthy
    BY StoreAssumption DEF Entry, Times, NoEntry
  <2>2. n \in Entry /\ n.failed = NoEntry.failed /\ ~n.healthy /\ n.checked = t
    <3>1. t \in 0 .. MaxTime + Backoff
      BY <1>1, StoreAssumption DEF Times
    <3>2. n.failed = NoEntry.failed /\ n.healthy = FALSE /\ n.checked = t
      BY <2>1 DEF Entry
    <3>3. n \in Entry
      BY <1>1, <2>1, <3>1 DEF Entry
    <3>4. QED  BY <3>2, <3>3
  <2>3. CASE disk.entry[r] = NoEntry
    <3>1. LastFailure(disk.entry[r]) = 0 /\ LastFailure(n) = t
      BY <2>1, <2>2, <2>3 DEF LastFailure
    <3>2. LastFailure(disk.entry[r]) <= LastFailure(n)
      BY <1>1, <3>1
    <3>3. Transaction(NoOne, r, n)
      BY <1>3, <2>3 DEF AgenticEvidence
    <3> HIDE DEF n
    <3>4. QED  BY <2>2, <3>2, <3>3, TransactionWrites
  <2>4. CASE disk.entry[r] # NoEntry
    <3>1. LastFailure(disk.entry[r]) <= LastFailure(disk.entry[r])
      BY <1>1, LastFailureTime DEF Times
    <3>2. Transaction(NoOne, r, disk.entry[r])
      BY <1>3, <2>4 DEF AgenticEvidence
    <3>3. QED  BY <1>1, <3>1, <3>2, TransactionWrites
  <2>5. QED  BY <2>3, <2>4
<1>4. QED  BY <1>2, <1>3 DEF RecordLocked, ObserveFailure, PassiveTraffic, PassiveFailure

\* reload(): what a writer keeps of its own copy was behind the file already.
LEMMA ReloadChanges ==
    ASSUME IInv, NEW w \in Writers, Reload(w)
    PROVE  ChangesCopy
<1>1. /\ disk \in Contents /\ mem[w] \in Contents
      /\ RecordsBehind(mem[w], disk)
      /\ \A r \in Routes : EntryBehind(mem[w].entry[r], disk.entry[r])
  BY DEF IInv, TypeOK, CopiesBehind
<1> DEFINE m == Reloaded(mem[w], loaded[w], disk)
<1>2. m.scope = disk.scope /\ m.attempt = disk.attempt
  BY <1>1, MergeKeepsRecords DEF Reloaded
<1>3. ASSUME NEW r \in Routes  PROVE m.entry[r] \in {mem[w].entry[r], disk.entry[r]}
  BY <1>3 DEF Reloaded
<1>4. m \in Contents
  <2>1. m.entry \in [Routes -> Entry]
    BY <1>1, <1>3 DEF Reloaded, Contents
  <2>2. m = [entry |-> m.entry, scope |-> m.scope, attempt |-> m.attempt]
    BY DEF Reloaded
  <2>3. QED  BY <1>1, <1>2, <2>1, <2>2 DEF Contents
<1> HIDE DEF m
<1>5. RecordsBehind(m, disk) /\ \A r \in Routes : EntryBehind(m.entry[r], disk.entry[r])
  BY <1>1, <1>2, <1>3, CopyBehind DEF RecordsBehind
<1>6. mem'[w] \in {disk, m} /\ mem' = [mem EXCEPT ![w] = mem'[w]]
  BY DEF IInv, TypeOK, Reload, m
<1>7. UNCHANGED <<clock, disk, disp, worst>> /\ loaded' \in [Writers -> Contents]
  BY <1>1 DEF IInv, TypeOK, Reload
<1>8. mem' \in [Writers -> Contents]
  BY <1>1, <1>4, <1>6 DEF IInv, TypeOK
<1>9. CopiesBehind'
  <2> SUFFICES ASSUME NEW x \in Writers
               PROVE  /\ RecordsBehind(mem'[x], disk)
                      /\ \A r \in Routes : EntryBehind(mem'[x].entry[r], disk.entry[r])
    BY <1>7 DEF CopiesBehind
  <2>1. CASE x = w
    BY <1>1, <1>5, <1>6, <2>1, CopyBehind
  <2>2. CASE x # w
    <3>1. mem'[x] = mem[x]
      BY <1>6, <2>2 DEF IInv, TypeOK
    <3>2. QED  BY <3>1 DEF IInv, CopiesBehind
  <2>3. QED  BY <2>1, <2>2
<1>10. QED  BY <1>7, <1>8, <1>9 DEF ChangesCopy

\* A writer that starts again has the file; one that records keeps its revision.
LEMMA CopyChanges ==
    ASSUME IInv, NEW w \in Writers,
           \/ WriterRestarts(w)
           \/ \E r \in Routes, t \in 1 .. clock, ok \in BOOLEAN : RecordInMemory(w, r, ok, t)
    PROVE  ChangesCopy
<1>1. /\ disk \in Contents /\ mem[w] \in Contents /\ mem \in [Writers -> Contents]
      /\ loaded \in [Writers -> Contents]
      /\ CopiesBehind
  BY DEF IInv, TypeOK
<1>2. ASSUME NEW m \in Contents, mem' = [mem EXCEPT ![w] = m], RecordsBehind(m, disk),
             \A r \in Routes : EntryBehind(m.entry[r], disk.entry[r]), UNCHANGED disk
      PROVE  mem' \in [Writers -> Contents] /\ CopiesBehind'
  <2>1. mem' \in [Writers -> Contents]
    BY <1>1, <1>2
  <2>2. ASSUME NEW x \in Writers
        PROVE  /\ RecordsBehind(mem'[x], disk)
               /\ \A r \in Routes : EntryBehind(mem'[x].entry[r], disk.entry[r])
    <3>1. mem'[x] = IF x = w THEN m ELSE mem[x]
      BY <1>1, <1>2
    <3>2. CASE x = w
      BY <1>2, <3>1, <3>2
    <3>3. CASE x # w
      BY <1>1, <3>1, <3>3 DEF CopiesBehind
    <3>4. QED  BY <3>2, <3>3
  <2>3. QED  BY <1>2, <2>1, <2>2 DEF CopiesBehind
<1>3. CASE WriterRestarts(w)
  <2>1. mem' = [mem EXCEPT ![w] = disk] /\ UNCHANGED <<clock, disk, disp, worst>>
           /\ loaded' \in [Writers -> Contents]
    BY <1>1, <1>3 DEF WriterRestarts
  <2>2. mem' \in [Writers -> Contents] /\ CopiesBehind'
    BY <1>1, <1>2, <2>1, CopyBehind
  <2>3. QED  BY <2>1, <2>2 DEF ChangesCopy
<1>4. ASSUME NEW r \in Routes, NEW t \in 1 .. clock, NEW ok \in BOOLEAN, RecordInMemory(w, r, ok, t)
      PROVE  ChangesCopy
  <2> DEFINE n == Recorded(mem[w].entry[r], ok, t)
             m == [mem[w] EXCEPT !.entry[r] = n]
  <2>1. mem[w].entry[r] \in Entry /\ t \in Times /\ t >= 1
    BY <1>1, StoreAssumption DEF IInv, TypeOK, Contents, Times
  <2>2. /\ n \in Entry /\ n.revision = mem[w].entry[r].revision
        /\ LastFailure(mem[w].entry[r]) <= LastFailure(n)
    BY <2>1, RecordedEntry
  <2>3. mem' = [mem EXCEPT ![w] = m] /\ UNCHANGED <<clock, disk, loaded, disp, worst>>
    BY <1>1, <1>4 DEF RecordInMemory
  <2> HIDE DEF n
  <2>4. /\ m \in Contents /\ m.scope = mem[w].scope /\ m.attempt = mem[w].attempt
        /\ m.entry = [mem[w].entry EXCEPT ![r] = n]
    BY <1>1, <2>2 DEF Contents
  <2> HIDE DEF m
  <2>5. RecordsBehind(m, disk)
    BY <1>1, <2>4 DEF RecordsBehind, CopiesBehind
  <2>6. ASSUME NEW q \in Routes  PROVE EntryBehind(m.entry[q], disk.entry[q])
    <3>1. EntryBehind(mem[w].entry[q], disk.entry[q])
      BY <1>1 DEF CopiesBehind
    <3>2. CASE q # r
      <4>1. m.entry[q] = mem[w].entry[q]
        BY <1>1, <2>4, <3>2 DEF Contents
      <4>2. QED  BY <3>1, <4>1
    <3>3. CASE q = r
      <4>1. m.entry[r] = n
        BY <1>1, <2>4 DEF Contents
      <4>2. /\ LastFailure(n) \in Times /\ LastFailure(mem[w].entry[r]) \in Times
            /\ LastFailure(disk.entry[r]) \in Times
        BY <1>1, <2>1, <2>2, LastFailureTime DEF Contents
      <4>3. QED  BY <2>2, <3>1, <3>3, <4>1, <4>2 DEF EntryBehind, Times
    <3>4. QED  BY <3>2, <3>3
  <2>7. QED  BY <1>1, <1>2, <2>3, <2>4, <2>5, <2>6 DEF ChangesCopy
<1>5. QED  BY <1>3, <1>4

\* A dispatcher's step is one of three: it writes a permit, a revocation, or nothing.
LEMMA DispatcherKinds ==
    ASSUME IInv, NEW d \in Dispatchers, DispatcherStep(d)
    PROVE  GoesOn(d) \/ Mints(d) \/ \E v \in Events, t \in 1 .. clock : Accepts(d, v, t)
<1>1. disp[d] \in Proof /\ Holds(d, disp[d]) /\ disp \in [Dispatchers -> Proof]
  BY DEF IInv, TypeOK, ProofsBound, PermitsOnFile, Holds
<1>2. NoProof \in Proof /\ Holds(d, NoProof)
  BY StoreAssumption DEF NoProof, Proof, Holds, Times
<1>3. CASE \E r \in Routes, q \in 1 .. clock : BindProof(d, r, q)
  <2>1. PICK r \in Routes, q \in 1 .. clock : BindProof(d, r, q)
    BY <1>3
  <2> DEFINE p == [NoProof EXCEPT !.pc = "bound", !.route = r, !.qualified = q,
                                  !.epoch = disk.scope[r].epoch, !.seen = Accepted(disk.scope[r])]
  <2>2. disk.scope[r].epoch \in Nat /\ q \in Times /\ Accepted(disk.scope[r]) \in SUBSET Events
    BY StoreAssumption DEF IInv, TypeOK, Contents, Scope, Times, Accepted
  <2>3. /\ p \in Proof
        /\ p.pc = "bound" /\ p.route = r /\ p.epoch = disk.scope[r].epoch
        /\ p.seen = Accepted(disk.scope[r])
    BY <1>2, <2>2 DEF Proof
  <2>4. Holds(d, p)
    BY <2>2, <2>3 DEF Holds
  <2>5. disp' = [disp EXCEPT ![d] = p] /\ UNCHANGED <<clock, disk, mem, loaded, worst>>
    BY <2>1 DEF BindProof
  <2>6. QED  BY <2>3, <2>4, <2>5 DEF GoesOn
<1>4. CASE \E a \in Attempts : AskPermit(d, a)
  <2>1. PICK a \in Attempts : AskPermit(d, a)
    BY <1>4
  <2> DEFINE p == [disp[d] EXCEPT !.pc = "committing", !.stamp = clock, !.attempt = a]
  <2>2. p \in Proof
    BY <1>1 DEF IInv, TypeOK, Proof
  <2>3. Holds(d, p)
    BY <1>1, <2>1 DEF Holds, Proof, AskPermit, Step
  <2>4. disp' = [disp EXCEPT ![d] = p] \/ disp' = [disp EXCEPT ![d] = NoProof]
    BY <2>1 DEF AskPermit
  <2>5. QED  BY <1>2, <2>1, <2>2, <2>3, <2>4 DEF GoesOn, AskPermit
<1>5. CASE CommitDispatch(d)
  <2>1. CASE Authorised(d)
    BY <1>5, <2>1 DEF CommitDispatch, Mints
  <2>2. CASE ~Authorised(d)
    BY <1>2, <1>5, <2>2 DEF CommitDispatch, GoesOn
  <2>3. QED  BY <2>1, <2>2
<1>6. CASE LockTimeout(d) \/ NextRequest(d)
  BY <1>2, <1>6 DEF LockTimeout, NextRequest, GoesOn
<1>7. CASE CallerCancelled(d)
  <2> DEFINE p == [disp[d] EXCEPT !.pc = "orphan"]
  <2>1. p \in Proof
    BY <1>1 DEF Proof
  <2>2. Holds(d, p)
    BY <1>1, <1>7 DEF Holds, Proof, CallerCancelled, Step
  <2>3. QED  BY <1>1, <1>7, <2>1, <2>2 DEF CallerCancelled, GoesOn
<1>8. CASE \E v \in Events, t \in 1 .. clock : RevokeScope(d, v, t)
  BY <1>2, <1>8 DEF RevokeScope, GoesOn, Accepts
<1>9. CASE CheckEpoch(d)
  <2> DEFINE x == IF disk.scope[disp[d].route].epoch = disp[d].epoch THEN "served" ELSE "fenced"
             p == [disp[d] EXCEPT !.pc = x]
  <2>1. p \in Proof
    BY <1>1 DEF Proof
  <2>2. Holds(d, p)
    BY <1>1, <1>9 DEF Holds, Proof, CheckEpoch, Step
  <2>3. QED  BY <1>1, <1>9, <2>1, <2>2 DEF CheckEpoch, GoesOn
<1>10. QED  BY <1>3, <1>4, <1>5, <1>6, <1>7, <1>8, <1>9 DEF DispatcherStep

\* Every step is of one of the kinds.
LEMMA StepKinds ==
    ASSUME IInv, Next
    PROVE  Kind
<1>1. CASE WriterStep
  BY <1>1, SaveWrites, CallersWrite, ReloadChanges, CopyChanges DEF WriterStep, Kind
<1>2. CASE \E d \in Dispatchers : DispatcherStep(d)
  BY <1>2, DispatcherKinds DEF Kind
<1>3. QED  BY <1>1, <1>2 DEF Next, Kind

-----------------------------------------------------------------------------
(* The invariant holds. *)

\* Nothing on file but the entries and the records: a step that keeps the records of the
\* file keeps what the dispatchers hold.
LEMMA HeldKept ==
    ASSUME ProofsBound, PermitsOnFile, disk'.scope = disk.scope, disk'.attempt = disk.attempt,
           UNCHANGED disp
    PROVE  ProofsBound' /\ PermitsOnFile'
BY DEF ProofsBound, PermitsOnFile

\* A transaction on entries keeps the invariant: revisions go on, so stale copies fall behind.
LEMMA WritesEntriesStep ==
    ASSUME IInv, WritesEntries
    PROVE  IInv'
<1>1. /\ disk \in Contents /\ disk' \in Contents
      /\ \A w \in Writers : mem[w] \in Contents
      /\ \A r \in Routes : /\ disk.entry[r] \in Entry /\ disk'.entry[r] \in Entry
                           /\ LastFailure(disk.entry[r]) \in Times
                           /\ LastFailure(disk'.entry[r]) \in Times
  BY LastFailureTime DEF IInv, TypeOK, WritesEntries, Contents
<1>2. ASSUME NEW r \in Routes
      PROVE  worst'[r] = LastFailure(disk'.entry[r])
  <2>1. worst[r] = LastFailure(disk.entry[r]) /\ Follows(disk'.entry[r], disk.entry[r])
    BY DEF IInv, FailuresKept, WritesEntries
  <2>2. LastFailure(disk.entry[r]) <= LastFailure(disk'.entry[r])
    BY <1>1, <2>1 DEF Follows, Times
  <2>3. worst'[r] = Later(worst[r], LastFailure(disk'.entry[r]))
    BY DEF WritesEntries, Replace
  <2>4. QED  BY <1>1, <2>1, <2>2, <2>3 DEF Later, Times
<1>3. TypeOK'
  <2>1. worst' \in [Routes -> Times]
    BY <1>1, <1>2 DEF WritesEntries, Replace
  <2>2. QED  BY <2>1 DEF IInv, TypeOK, WritesEntries
<1>4. CopiesBehind'
  <2> SUFFICES ASSUME NEW w \in Writers
               PROVE  /\ RecordsBehind(mem'[w], disk')
                      /\ \A r \in Routes : EntryBehind(mem'[w].entry[r], disk'.entry[r])
    BY DEF CopiesBehind
  <2>1. CASE mem'[w] = disk'
    BY <1>1, <2>1, CopyBehind
  <2>2. CASE mem'[w] = mem[w]
    <3>1. RecordsBehind(mem[w], disk')
      BY DEF IInv, CopiesBehind, RecordsBehind, WritesEntries
    <3>2. ASSUME NEW r \in Routes  PROVE EntryBehind(mem[w].entry[r], disk'.entry[r])
      <4>1. /\ EntryBehind(mem[w].entry[r], disk.entry[r]) /\ Follows(disk'.entry[r], disk.entry[r])
            /\ mem[w].entry[r].revision \in Nat /\ disk.entry[r].revision \in Nat
        BY <1>1 DEF IInv, CopiesBehind, WritesEntries, Contents, Entry
      <4>2. CASE disk'.entry[r] = disk.entry[r]
        BY <4>1, <4>2
      <4>3. CASE disk'.entry[r].revision = disk.entry[r].revision + 1
        BY <4>1, <4>3 DEF EntryBehind
      <4>4. QED  BY <4>1, <4>2, <4>3 DEF Follows
    <3>3. QED  BY <2>2, <3>1, <3>2
  <2>3. QED  BY <2>1, <2>2 DEF WritesEntries
<1>5. ProofsBound' /\ PermitsOnFile'
  BY HeldKept DEF IInv, WritesEntries
<1>6. QED  BY <1>2, <1>3, <1>4, <1>5 DEF IInv, FailuresKept

\* So does a dispatcher that writes nothing.
LEMMA GoesOnStep ==
    ASSUME IInv, NEW d \in Dispatchers, GoesOn(d)
    PROVE  IInv'
<1>1. PICK p \in Proof : Holds(d, p) /\ disp' = [disp EXCEPT ![d] = p]
  BY DEF GoesOn
<1>2. disp' \in [Dispatchers -> Proof] /\ disp \in [Dispatchers -> Proof]
  BY <1>1 DEF IInv, TypeOK
<1>3. TypeOK' /\ CopiesBehind' /\ FailuresKept'
  BY <1>2 DEF IInv, TypeOK, CopiesBehind, FailuresKept, GoesOn
<1>4. ASSUME NEW x \in Dispatchers
      PROVE  Holds(x, disp'[x])
  <2>1. CASE x = d
    BY <1>1, <1>2, <2>1
  <2>2. CASE x # d
    BY <1>1, <1>2, <2>2 DEF IInv, ProofsBound, PermitsOnFile, Holds
  <2>3. QED  BY <2>1, <2>2
<1>5. ProofsBound' /\ PermitsOnFile'
  BY <1>2, <1>4 DEF ProofsBound, PermitsOnFile, Holds, GoesOn, Proof
<1>6. QED  BY <1>3, <1>5 DEF IInv

\* A permit is on file from then on, as the one of the dispatcher that was authorised.
LEMMA MintsStep ==
    ASSUME IInv, NEW d \in Dispatchers, Mints(d)
    PROVE  /\ IInv'
           /\ disp[d].attempt \in Attempts /\ disp[d].route \in Routes
           /\ disk.attempt[disp[d].attempt] = NoOne
           /\ disk'.attempt = [disk.attempt EXCEPT ![disp[d].attempt] = d]
           /\ disk'.scope = disk.scope
<1> DEFINE a == disp[d].attempt
<1>1. /\ disk \in Contents /\ a \in Attempts /\ disp[d].route \in Routes
      /\ disk.attempt[a] = NoOne /\ disp \in [Dispatchers -> Proof]
  BY DEF IInv, TypeOK, ProofsBound, Mints, Authorised
<1>2. disk' = [disk EXCEPT !.attempt[a] = d]
  BY DEF Mints, Replace
<1> HIDE DEF a
<1>3. /\ disk'.attempt = [disk.attempt EXCEPT ![a] = d]
      /\ disk'.scope = disk.scope /\ disk'.entry = disk.entry
      /\ disk' \in Contents
  BY <1>1, <1>2 DEF Contents, Permit
<1>4. ASSUME NEW x \in Attempts
      PROVE  disk'.attempt[x] = IF x = a THEN d ELSE disk.attempt[x]
  BY <1>1, <1>3 DEF Contents
<1>5. worst' = worst
  <2>1. ASSUME NEW r \in Routes
        PROVE  Later(worst[r], LastFailure(disk'.entry[r])) = worst[r]
    BY <1>3 DEF IInv, TypeOK, FailuresKept, Later, Times
  <2>2. QED  BY <1>2, <2>1 DEF IInv, TypeOK, Mints, Replace, a
<1>6. disp'[d] \in Proof /\ disp' = [disp EXCEPT ![d] = disp'[d]]
         /\ (disp'[d].pc # "idle" => disp'[d] = [disp[d] EXCEPT !.pc = "sent"])
  <2>1. NoProof \in Proof /\ NoProof.pc = "idle"
    BY StoreAssumption DEF NoProof, Proof, Times
  <2>2. [disp[d] EXCEPT !.pc = "sent"] \in Proof
    BY <1>1 DEF Proof
  <2>3. disp'[d] = NoProof \/ disp'[d] = [disp[d] EXCEPT !.pc = "sent"]
    BY <1>1 DEF Mints
  <2>4. disp' = [disp EXCEPT ![d] = disp'[d]]
    BY <1>1 DEF Mints
  <2>5. QED  BY <2>1, <2>2, <2>3, <2>4
<1>7. TypeOK'
  BY <1>1, <1>3, <1>5, <1>6 DEF IInv, TypeOK, Mints
<1>8. CopiesBehind'
  <2> SUFFICES ASSUME NEW w \in Writers
               PROVE  /\ RecordsBehind(mem[w], disk')
                      /\ \A r \in Routes : EntryBehind(mem[w].entry[r], disk'.entry[r])
    BY DEF CopiesBehind, Mints
  <2>1. /\ RecordsBehind(mem[w], disk)
        /\ \A r \in Routes : EntryBehind(mem[w].entry[r], disk.entry[r])
    BY DEF IInv, CopiesBehind
  <2>2. d # NoOne
    BY StoreAssumption
  <2>3. QED  BY <1>3, <1>4, <2>1, <2>2 DEF RecordsBehind
<1>9. FailuresKept'
  BY <1>3, <1>5 DEF IInv, FailuresKept
<1>10. ASSUME NEW x \in Dispatchers
       PROVE  /\ disp'[x].pc # "idle" =>
                   /\ disp'[x].route \in Routes
                   /\ disp'[x].epoch <= disk'.scope[disp'[x].route].epoch
                   /\ disp'[x].epoch = disk'.scope[disp'[x].route].epoch
                         => disp'[x].seen = Accepted(disk'.scope[disp'[x].route])
                   /\ disp'[x].pc # "bound" => disp'[x].attempt \in Attempts
              /\ disp'[x].pc \in {"sent", "served", "fenced"} => disk'.attempt[disp'[x].attempt] = x
  <2>1. CASE x = d
    <3>1. disp[d].pc # "idle"
      BY DEF Mints
    <3>2. CASE disp'[d].pc = "idle"
      BY <2>1, <3>2
    <3>3. CASE disp'[d].pc # "idle"
      <4>1. /\ disp'[d].pc = "sent" /\ disp'[d].route = disp[d].route
            /\ disp'[d].epoch = disp[d].epoch /\ disp'[d].seen = disp[d].seen
            /\ disp'[d].attempt = a
        BY <1>1, <1>6, <3>3 DEF Proof, a
      <4>2. QED  BY <1>1, <1>3, <1>4, <2>1, <3>1, <4>1 DEF IInv, ProofsBound
    <3>4. QED  BY <3>2, <3>3
  <2>2. CASE x # d
    <3>1. disp'[x] = disp[x]
      BY <1>1, <1>6, <2>2
    <3>2. disp[x].pc \in {"sent", "served", "fenced"} =>
             /\ disp[x].attempt \in Attempts /\ disp[x].attempt # a
             /\ disk.attempt[disp[x].attempt] = x
      BY <1>1, <2>2, StoreAssumption DEF IInv, PermitsOnFile, ProofsBound
    <3>3. QED  BY <1>3, <1>4, <3>1, <3>2 DEF IInv, ProofsBound
  <2>3. QED  BY <2>1, <2>2
<1>11. ProofsBound' /\ PermitsOnFile'
  BY <1>10 DEF ProofsBound, PermitsOnFile
<1>12. QED  BY <1>1, <1>3, <1>7, <1>8, <1>9, <1>11 DEF IInv, a

\* A revocation raises its epoch by one: every proof bound before it is out of date.
LEMMA AcceptsStep ==
    ASSUME IInv, NEW d \in Dispatchers, NEW v \in Events, NEW t \in 1 .. clock, Accepts(d, v, t)
    PROVE  /\ IInv'
           /\ disp[d].route \in Routes
           /\ disk'.attempt = disk.attempt
           /\ \A r \in Routes : disk'.scope[r].epoch =
                 IF r = disp[d].route THEN disk.scope[r].epoch + 1 ELSE disk.scope[r].epoch
<1> DEFINE q == disp[d].route
           s == [epoch |-> disk.scope[q].epoch + 1, revoked |-> [disk.scope[q].revoked EXCEPT ![v] = t]]
<1>1. disk \in Contents /\ q \in Routes /\ disp \in [Dispatchers -> Proof] /\ t \in Times
  BY StoreAssumption DEF IInv, TypeOK, ProofsBound, Accepts, Step, Times
<1>2. disk.scope[q] \in Scope /\ disk.scope[q].revoked[v] = 0 /\ t # 0
  BY <1>1 DEF Contents, Accepts
<1>3. disk' = [disk EXCEPT !.scope[q].revoked[v] = t, !.scope[q].epoch = @ + 1]
  BY DEF Accepts, Replace
<1> HIDE DEF q
<1>4. /\ s \in Scope
      /\ disk'.scope = [disk.scope EXCEPT ![q] = s]
      /\ disk'.attempt = disk.attempt /\ disk'.entry = disk.entry
  <2>1. s \in Scope
    BY <1>1, <1>2 DEF Scope
  <2>2. disk.scope \in [Routes -> Scope]
    BY <1>1 DEF Contents
  <2>3. disk'.attempt = disk.attempt /\ disk'.entry = disk.entry
    BY <1>1, <1>3 DEF Contents
  <2>4. disk'.scope = [disk.scope EXCEPT ![q] = s]
    <3> DEFINE k == [epoch |-> disk.scope[q].epoch, revoked |-> [disk.scope[q].revoked EXCEPT ![v] = t]]
               f == [disk EXCEPT !.scope[q].revoked[v] = t]
    <3>1. f.scope = [disk.scope EXCEPT ![q] = k]
      <4>1. f.scope = [disk.scope EXCEPT ![q] = [disk.scope[q] EXCEPT !.revoked[v] = t]]
        BY <1>1 DEF Contents
      <4>2. [disk.scope[q] EXCEPT !.revoked[v] = t] = k
        BY <1>2 DEF Scope
      <4>3. QED  BY <4>1, <4>2
    <3>2. disk'.scope = [f.scope EXCEPT ![q].epoch = @ + 1]
      BY <1>1, <1>3 DEF Contents
    <3> HIDE DEF f
    <3>3. QED  BY <1>1, <2>2, <3>1, <3>2
  <2>5. QED  BY <2>1, <2>3, <2>4
<1>5. disk' \in Contents
  <2>1. disk' = [entry |-> disk'.entry, scope |-> disk'.scope, attempt |-> disk'.attempt]
    BY <1>1, <1>3 DEF Contents
  <2>2. disk'.scope \in [Routes -> Scope]
    BY <1>1, <1>4 DEF Contents
  <2>3. QED  BY <1>1, <1>4, <2>1, <2>2 DEF Contents
<1>6. ASSUME NEW r \in Routes
      PROVE  /\ disk'.scope[r].epoch = IF r = q THEN disk.scope[r].epoch + 1 ELSE disk.scope[r].epoch
             /\ r # q => disk'.scope[r] = disk.scope[r]
             /\ \A x \in Events : disk.scope[r].revoked[x] # 0 => disk'.scope[r].revoked[x] # 0
  <2>1. CASE r = q
    BY <1>1, <1>2, <1>4, <2>1 DEF Contents, Scope
  <2>2. CASE r # q
    BY <1>1, <1>4, <2>2 DEF Contents
  <2>3. QED  BY <2>1, <2>2
<1> HIDE DEF s
<1>7. worst' = worst
  <2>1. ASSUME NEW r \in Routes
        PROVE  Later(worst[r], LastFailure(disk'.entry[r])) = worst[r]
    BY <1>4 DEF IInv, TypeOK, FailuresKept, Later, Times
  <2>2. worst' = [r \in Routes |-> Later(worst[r], LastFailure(disk'.entry[r]))]
    BY DEF Accepts, Replace
  <2>3. QED  BY <2>1, <2>2 DEF IInv, TypeOK
<1>8. disp' \in [Dispatchers -> Proof] /\ disp'[d].pc = "idle"
         /\ \A x \in Dispatchers \ {d} : disp'[x] = disp[x]
  <2>1. NoProof \in Proof /\ NoProof.pc = "idle"
    BY StoreAssumption DEF NoProof, Proof, Times
  <2>2. QED  BY <1>1, <2>1 DEF Accepts
<1>9. TypeOK'
  BY <1>1, <1>5, <1>7, <1>8 DEF IInv, TypeOK, Accepts
<1>10. CopiesBehind'
  <2> SUFFICES ASSUME NEW w \in Writers
               PROVE  /\ RecordsBehind(mem[w], disk')
                      /\ \A r \in Routes : EntryBehind(mem[w].entry[r], disk'.entry[r])
    BY DEF CopiesBehind, Accepts
  <2>1. /\ RecordsBehind(mem[w], disk) /\ mem[w] \in Contents
        /\ \A r \in Routes : EntryBehind(mem[w].entry[r], disk.entry[r])
    BY DEF IInv, TypeOK, CopiesBehind
  <2>2. ASSUME NEW r \in Routes
        PROVE  /\ mem[w].scope[r].epoch <= disk'.scope[r].epoch
               /\ \A x \in Events : mem[w].scope[r].revoked[x] # 0 => disk'.scope[r].revoked[x] # 0
    <3>1. mem[w].scope[r].epoch \in Nat /\ disk.scope[r].epoch \in Nat
      BY <1>1, <2>1 DEF Contents, Scope
    <3>2. QED  BY <1>6, <2>1, <3>1 DEF RecordsBehind
  <2>3. QED  BY <1>4, <2>1, <2>2 DEF RecordsBehind
<1>11. FailuresKept'
  BY <1>4, <1>7 DEF IInv, FailuresKept
<1>12. ProofsBound'
  <2> SUFFICES ASSUME NEW x \in Dispatchers, disp'[x].pc # "idle"
               PROVE  /\ disp'[x].route \in Routes
                      /\ disp'[x].epoch <= disk'.scope[disp'[x].route].epoch
                      /\ disp'[x].epoch = disk'.scope[disp'[x].route].epoch
                            => disp'[x].seen = Accepted(disk'.scope[disp'[x].route])
                      /\ disp'[x].pc # "bound" => disp'[x].attempt \in Attempts
    BY DEF ProofsBound
  <2>1. disp'[x] = disp[x] /\ disp[x] \in Proof
    BY <1>1, <1>8
  <2>2. /\ disp[x].route \in Routes /\ disp[x].epoch <= disk.scope[disp[x].route].epoch
        /\ disp[x].epoch = disk.scope[disp[x].route].epoch
              => disp[x].seen = Accepted(disk.scope[disp[x].route])
        /\ disp[x].pc # "bound" => disp[x].attempt \in Attempts
        /\ disp[x].epoch \in Nat /\ disk.scope[disp[x].route].epoch \in Nat
    BY <1>1, <2>1 DEF IInv, ProofsBound, Proof, Contents, Scope
  <2>3. QED  BY <1>6, <2>1, <2>2
<1>13. PermitsOnFile'
  BY <1>4, <1>8 DEF IInv, PermitsOnFile
<1>14. QED  BY <1>1, <1>4, <1>6, <1>9, <1>10, <1>11, <1>12, <1>13 DEF IInv, q

\* Nothing is on file and nobody holds a proof at first.
LEMMA Initially == Init => IInv
<1> SUFFICES ASSUME Init  PROVE IInv
  OBVIOUS
<1>1. Empty \in Contents
  BY StoreAssumption DEF Empty, Contents, NoEntry, NoScope, Entry, Scope, Permit, Times
<1>2. NoProof \in Proof /\ NoProof.pc = "idle"
  BY StoreAssumption DEF NoProof, Proof, Times
<1>3. 1 \in Times
  BY StoreAssumption DEF Times, Init
<1>4. TypeOK
  BY <1>1, <1>2, <1>3, StoreAssumption DEF Init, TypeOK, Times
<1>5. CopiesBehind
  BY <1>1, CopyBehind DEF Init, CopiesBehind
<1>6. FailuresKept
  BY DEF Init, FailuresKept, LastFailure, Empty, NoEntry
<1>7. ProofsBound /\ PermitsOnFile
  BY <1>2 DEF Init, ProofsBound, PermitsOnFile
<1>8. QED  BY <1>4, <1>5, <1>6, <1>7 DEF IInv

\* Every step keeps the invariant.
LEMMA Inductive == IInv /\ [Next]_vars => IInv'
<1> SUFFICES ASSUME IInv, [Next]_vars  PROVE IInv'
  OBVIOUS
<1>1. CASE UNCHANGED vars
  BY <1>1 DEF vars, IInv, TypeOK, CopiesBehind, FailuresKept, ProofsBound, PermitsOnFile
<1>2. CASE Tick
  <2>1. clock' \in Times
    BY <1>2, StoreAssumption DEF IInv, TypeOK, Tick, Times
  <2>2. QED  BY <1>2, <2>1 DEF IInv, TypeOK, CopiesBehind, FailuresKept, ProofsBound,
                              PermitsOnFile, Tick
<1>3. CASE ChangesCopy
  <2>1. ProofsBound' /\ PermitsOnFile'
    BY <1>3, HeldKept DEF IInv, ChangesCopy
  <2>2. QED  BY <1>3, <2>1 DEF IInv, TypeOK, FailuresKept, ChangesCopy
<1>4. QED  BY <1>1, <1>2, <1>3, StepKinds, WritesEntriesStep, GoesOnStep, MintsStep, AcceptsStep
           DEF Kind

\* The inductive invariant holds in every reachable state.
THEOREM InvariantHolds == Spec => []IInv
BY Initially, Inductive, PTL DEF Spec

-----------------------------------------------------------------------------
(* The theorems. *)

\* Type correctness of the file, the copies and the dispatchers.
THEOREM TypeCorrect == Spec => []TypeOK
<1>1. IInv => TypeOK
  BY DEF IInv
<1>2. QED  BY <1>1, InvariantHolds, PTL

\* commit_dispatch and save(): the permit a dispatcher acts on stays on file as its own,
\* for any number of writers with stale copies, callers and late commit threads.
THEOREM PermitsStayOnFile == Spec => []PermitsOnFile
<1>1. IInv => PermitsOnFile
  BY DEF IInv
<1>2. QED  BY <1>1, InvariantHolds, PTL

\* A permit is only ever written by the dispatcher whose permit it is.
LEMMA MintedByMints ==
    ASSUME IInv, [Next]_vars, NEW d \in Dispatchers, Minted(d)
    PROVE  Mints(d) /\ disp[d].route \in Routes
<1>1. PICK a \in Attempts : disk.attempt[a] = NoOne /\ disk'.attempt[a] = d
  BY DEF Minted
<1>2. disk'.attempt # disk.attempt
  BY <1>1, StoreAssumption
<1>3. PICK x \in Dispatchers : Mints(x)
  <2>1. ~WritesEntries /\ ~ChangesCopy /\ ~Tick /\ ~UNCHANGED vars
    BY <1>2 DEF WritesEntries, ChangesCopy, Tick, vars
  <2>2. \A x \in Dispatchers : ~GoesOn(x) /\ \A v \in Events, t \in 1 .. clock : ~Accepts(x, v, t)
    BY <1>2, AcceptsStep DEF GoesOn
  <2>3. QED  BY <2>1, <2>2, StepKinds DEF Kind
<1>4. /\ disp[x].attempt \in Attempts /\ disp[x].route \in Routes
      /\ disk'.attempt = [disk.attempt EXCEPT ![disp[x].attempt] = x]
      /\ disk.attempt \in [Attempts -> Permit]
  BY <1>3, MintsStep DEF IInv, TypeOK, Contents
<1>5. x = d
  BY <1>1, <1>4, StoreAssumption
<1>6. QED  BY <1>3, <1>4, <1>5

\* commit_dispatch: no permit is minted from a proof that did not know a revocation of its
\* scope, however saves, reloads and merges of stale copies were interleaved.
THEOREM RevocationsRespected == Spec => NoPermitOverRevocation
<1>1. IInv /\ [Next]_vars =>
         [\A d \in Dispatchers :
             Minted(d) => disp[d].seen = Accepted(disk.scope[disp[d].route])]_vars
  <2> SUFFICES ASSUME IInv, [Next]_vars, NEW d \in Dispatchers, Minted(d)
               PROVE  disp[d].seen = Accepted(disk.scope[disp[d].route])
    OBVIOUS
  <2>1. Mints(d)
    BY MintedByMints
  <2>2. QED  BY <2>1 DEF Mints, Authorised, IInv, ProofsBound
<1>2. QED  BY <1>1, InvariantHolds, PTL DEF Spec, NoPermitOverRevocation

\* commit_dispatch, record, save: no permit is minted from a proof captured before a failure
\* that ever reached the file.
THEOREM FailuresRespected == Spec => NoPermitOverFailure
<1>1. IInv /\ [Next]_vars =>
         [\A d \in Dispatchers : Minted(d) => disp[d].qualified > worst[disp[d].route]]_vars
  <2> SUFFICES ASSUME IInv, [Next]_vars, NEW d \in Dispatchers, Minted(d)
               PROVE  disp[d].qualified > worst[disp[d].route]
    OBVIOUS
  <2>1. Mints(d) /\ disp[d].route \in Routes
    BY MintedByMints
  <2>2. LastFailure(disk.entry[disp[d].route]) < disp[d].qualified
    BY <2>1 DEF Mints, Authorised
  <2>3. worst[disp[d].route] = LastFailure(disk.entry[disp[d].route])
    BY <2>1 DEF IInv, FailuresKept
  <2>4. worst[disp[d].route] \in Times /\ disp[d].qualified \in Times
    BY <2>1 DEF IInv, TypeOK, Proof
  <2>5. QED  BY <2>2, <2>3, <2>4 DEF Times
<1>2. QED  BY <1>1, InvariantHolds, PTL DEF Spec, NoPermitOverFailure

-----------------------------------------------------------------------------
(* The file is the atomic register. *)

Epochs   == [r \in Routes |-> disk.scope[r].epoch]
Consumed == {a \in Attempts : disk.attempt[a] # NoOne}

\* A minted permit consumes one attempt id, against the epochs in force.
LEMMA MintsConsumes ==
    ASSUME IInv, NEW d \in Dispatchers, Mints(d)
    PROVE  Register!Consumes(disp[d].attempt)
<1>1. /\ disp[d].attempt \in Attempts /\ disk.attempt[disp[d].attempt] = NoOne
      /\ disk'.attempt = [disk.attempt EXCEPT ![disp[d].attempt] = d]
      /\ disk'.scope = disk.scope /\ disk.attempt \in [Attempts -> Permit]
      /\ d # NoOne
  BY MintsStep, StoreAssumption DEF IInv, TypeOK, Contents
<1>2. Consumed' = Consumed \cup {disp[d].attempt} /\ disp[d].attempt \notin Consumed
  BY <1>1 DEF Consumed
<1>3. Epochs' = Epochs
  BY <1>1 DEF Epochs
<1>4. QED  BY <1>2, <1>3 DEF Register!Consumes, Consumed, Epochs

\* An accepted revocation raises the epoch of one scope by one.
LEMMA AcceptsRevokes ==
    ASSUME IInv, NEW d \in Dispatchers, NEW v \in Events, NEW t \in 1 .. clock, Accepts(d, v, t)
    PROVE  Register!Revokes(disp[d].route)
<1>1. /\ disp[d].route \in Routes /\ disk'.attempt = disk.attempt
      /\ \A r \in Routes : disk'.scope[r].epoch =
            IF r = disp[d].route THEN disk.scope[r].epoch + 1 ELSE disk.scope[r].epoch
  BY AcceptsStep
<1>2. Epochs' = [Epochs EXCEPT ![disp[d].route] = @ + 1]
  BY <1>1 DEF Epochs
<1>3. Consumed' = Consumed
  BY <1>1 DEF Consumed
<1>4. QED  BY <1>2, <1>3 DEF Register!Revokes, Consumed, Epochs

\* The shared file, with any number of processes that keep and save stale copies of it,
\* implements the atomic register that DispatchRegister specifies.
THEOREM RegisterImplemented == Spec => ImplementsRegister
<1>1. Init => Register!RInit
  BY DEF Init, Register!RInit, Empty, NoScope
<1>2. IInv /\ [Next]_vars => [Register!RNext]_<<Epochs, Consumed>>
  <2> SUFFICES ASSUME IInv, [Next]_vars  PROVE [Register!RNext]_<<Epochs, Consumed>>
    OBVIOUS
  <2>1. CASE disk'.scope = disk.scope /\ disk'.attempt = disk.attempt
    BY <2>1 DEF Epochs, Consumed
  <2>2. ASSUME NEW d \in Dispatchers, Mints(d)  PROVE Register!RNext
    <3>1. disp[d].attempt \in Attempts
      BY <2>2, MintsStep
    <3>2. QED  BY <2>2, <3>1, MintsConsumes DEF Register!RNext, Register!Consumes
  <2>3. ASSUME NEW d \in Dispatchers, NEW v \in Events, NEW t \in 1 .. clock, Accepts(d, v, t)
        PROVE  Register!RNext
    <3>1. disp[d].route \in Routes
      BY <2>3, AcceptsStep
    <3>2. QED  BY <2>3, <3>1, AcceptsRevokes DEF Register!RNext, Register!Revokes
  <2>4. QED  BY <2>1, <2>2, <2>3, StepKinds
             DEF Kind, WritesEntries, ChangesCopy, Tick, GoesOn, vars
<1>3. QED  BY <1>1, <1>2, InvariantHolds, PTL
           DEF Spec, ImplementsRegister, Register!RSpec, Epochs, Consumed
=============================================================================
