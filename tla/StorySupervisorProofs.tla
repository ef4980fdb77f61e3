------------------------ MODULE StorySupervisorProofs ------------------------
(***************************************************************************)
(* Proofs about StorySupervisor, for every set of supervisors, stories and *)
(* footprints and every bound: TypeOK, WithinCap, WritersApart, FencedOff. *)
(*                                                                         *)
(* They follow from one inductive invariant, IInv.  Steps that differ only *)
(* in when a supervisor leaves are one case, Departs; the proof of each    *)
(* conjunct has a step per kind of action that can disturb it.             *)
(***************************************************************************)
EXTENDS StorySupervisor, FiniteSetTheorems, TLAPS

-----------------------------------------------------------------------------
(* The inductive invariant. *)

Deciding == {"fence", "evaluate", "claim"}

\* Attempts are counted where the code counts them, and a client belongs to one.
Counted ==
    \A p \in Supervisors :
        /\ pc[p] \in {"start"} \cup Deciding => attempts[p] = 0
        /\ pc[p] = "run" => attempts[p] <= MaxRestarts
        /\ pc[p] \in {"verify", "watch", "stop", "settle"} => attempts[p] >= 1
        /\ client[p] => attempts[p] >= 1

\* Who decides holds supervisor.lock; who runs holds it too, or its story's lock.
Locked ==
    /\ \A p \in Supervisors :
          /\ pc[p] \in Deciding => master = p
          /\ pc[p] \in {"evaluate", "claim"} => multi
          /\ pc[p] \in Running => IF multi THEN holder[asks[p]] = p ELSE master = p
    /\ \A s \in Stories :
          holder[s] # NoOne => multi /\ asks[holder[s]] = s /\ pc[holder[s]] \in Running

\* What the cap is about: running stories that every admission saw.
Noticed == RunningStories \ overlooked

\* A story that was found admissible still has room when its lock is claimed.
Room ==
    \A p \in Supervisors :
        At(p, "claim") => asks[p] \in overlooked \/ Cardinality(Noticed \ {asks[p]}) < cap

\* Running stories that were seen are apart, from each other and from the one to be claimed.
Apart ==
    /\ \A s, t \in RunningStories :
          s # t /\ s \notin missed[holder[t]] /\ t \notin missed[holder[s]]
              => ~Collide(wants[holder[s]], wants[holder[t]])
    /\ \A p \in Supervisors, s \in RunningStories :
          At(p, "claim") /\ s \notin missed[p] => ~Collide(wants[p], wants[holder[s]])

\* A supervisor's live session is that of its current attempt; between attempts it has none.
OneSession ==
    \A s \in live :
        /\ s[2] <= attempts[s[1]]
        /\ pc[s[1]] \in Running => s = Current(s[1]) /\ pc[s[1]] \notin {"run", "settle"}

\* With the flag off, what is live and not late is still to be fenced, or one's own.
Fence ==
    \A p \in Supervisors :
        ~multi /\ At(p, "fence") => live \ late \subseteq fence[p]

IInv == TypeOK /\ Counted /\ Locked /\ WithinCap /\ Room /\ Apart /\ OneSession /\ Fence /\ FencedOff
-----------------------------------------------------------------------------
(* Kinds of steps. *)

\* A supervisor ends or is killed.
Departs(p) ==
    /\ pc[p] \notin Gone
    /\ \E where \in Gone : Goto(p, where)
    /\ Released(p)
    /\ live' \subseteq live
    /\ UNCHANGED <<setup, attempts, client, late, overlooked>>

\* It takes supervisor.lock.
Enters(p) == At(p, "start") /\ master = NoOne /\ Takes(p) /\ UNCHANGED <<setup, run>>

\* It gets the lock of its story.
Claims(p) ==
    /\ At(p, "claim") /\ holder[asks[p]] = NoOne
    /\ holder' = [holder EXCEPT ![asks[p]] = p]
    /\ master' = IF master = p THEN NoOne ELSE master
    /\ Goto(p, "run")
    /\ UNCHANGED <<setup, wants, fence, result, missed, run>>

\* An attempt goes on or ends, and its session with it before the next one.
Proceeds(p) ==
    /\ \/ At(p, "verify") /\ Goto(p, "watch") /\ live' = live
       \/ pc[p] \in {"verify", "watch"} /\ Goto(p, "stop") /\ live' = live
       \/ At(p, "stop") /\ Goto(p, "settle") /\ live' = live \ {Current(p)}
       \/ At(p, "settle") /\ Goto(p, "run") /\ attempts[p] <= MaxRestarts /\ live' = live
    /\ \E r \in {"none", "ok", "failed", "raised"} : result' = [result EXCEPT ![p] = r]
    /\ \E b \in BOOLEAN : client' = [client EXCEPT ![p] = b /\ @]
    /\ UNCHANGED <<setup, master, holder, wants, fence, missed, attempts, late, overlooked>>

\* It is found admissible.
Evaluates(p) ==
    \E f \in Footprints, unread \in SUBSET RunningStories : EvaluateAdmission(p, f, unread)

StepOf(p) ==
    \/ Departs(p) \/ Enters(p) \/ FenceOne(p) \/ Fenced(p)
    \/ Evaluates(p) \/ Claims(p) \/ Launch(p) \/ Proceeds(p) \/ SessionBegins(p)

\* Every step is of one of these kinds.
LEMMA StepKinds ==
    ASSUME TypeOK, Next
    PROVE  \/ \E p \in Supervisors : StepOf(p)
           \/ \E s \in Sessions : SessionEnds(s)
<1>1. ASSUME NEW p \in Supervisors,
             Start(p) \/ FenceFails(p) \/ Deferred(p) \/ ClaimStory(p) \/ LaunchBlocked(p)
                \/ StopFails(p) \/ Interrupted(p) \/ Killed(p)
      PROVE  Departs(p) \/ Enters(p) \/ Claims(p)
  <2>1. CASE Start(p)
    BY <2>1 DEF TypeOK, Start, Departs, Enters, Leave, Goto, At, Gone, setup, run
  <2>2. CASE ClaimStory(p)
    BY <2>2 DEF TypeOK, ClaimStory, Departs, Claims, Leave, Goto, At, Gone, setup, run
  <2>3. CASE FenceFails(p) \/ Deferred(p) \/ LaunchBlocked(p) \/ StopFails(p) \/ Interrupted(p)
    BY <2>3 DEF TypeOK, FenceFails, Deferred, LaunchBlocked, StopFails, Interrupted, Departs,
                Leave, Goto, At, Gone, run
  <2>4. CASE Killed(p)
    BY <2>4 DEF TypeOK, Killed, Departs, Goto, At, Gone, setup, run
  <2>5. QED  BY <1>1, <2>1, <2>2, <2>3, <2>4
<1>2. ASSUME NEW p \in Supervisors,
             IdentityVerified(p) \/ Raises(p) \/ Exits(p) \/ Fails(p) \/ StopOwned(p) \/ Settle(p)
      PROVE  Departs(p) \/ Proceeds(p)
  <2>1. CASE IdentityVerified(p)
    <3>1. result' = [result EXCEPT ![p] = result[p]] /\ client' = [client EXCEPT ![p] = TRUE /\ @]
      BY <2>1 DEF TypeOK, IdentityVerified, own, setup, run
    <3>2. QED  BY <2>1, <3>1 DEF TypeOK, IdentityVerified, Proceeds, Goto, At, own, setup, run
  <2>2. CASE Raises(p) \/ Exits(p) \/ Fails(p)
    <3>1. client' = [client EXCEPT ![p] = FALSE /\ @]
      BY <2>2 DEF TypeOK, Raises, Exits, Fails, EndAttempt
    <3>2. QED  BY <2>2, <3>1 DEF TypeOK, Raises, Exits, Fails, EndAttempt, Proceeds, Goto, At
  <2>3. CASE StopOwned(p)
    <3>1. client' = [client EXCEPT ![p] = TRUE /\ @]
      BY <2>3 DEF TypeOK, StopOwned
    <3>2. CASE result[p] = "raised"
      BY <2>3, <3>2 DEF TypeOK, StopOwned, Departs, Leave, Goto, At, Gone
    <3>3. CASE result[p] # "raised"
      <4>1. result' = [result EXCEPT ![p] = result[p]]
        BY <2>3, <3>3 DEF TypeOK, StopOwned, own
      <4>2. QED  BY <2>3, <3>1, <3>3, <4>1 DEF TypeOK, StopOwned, Proceeds, Goto, At, own
    <3>4. QED  BY <3>2, <3>3
  <2>4. CASE Settle(p)
    <3>1. client' = [client EXCEPT ![p] = TRUE /\ @]
      BY <2>4 DEF TypeOK, Settle, setup, run
    <3>2. CASE Leave(p)
      BY <2>4, <3>2 DEF TypeOK, Settle, Departs, Leave, Goto, At, Gone, setup, run
    <3>3. CASE attempts[p] <= MaxRestarts /\ Again(p)
      BY <2>4, <3>1, <3>3 DEF TypeOK, Settle, Again, Proceeds, Goto, At, setup, run
    <3>4. QED  BY <2>4, <3>2, <3>3 DEF Settle
  <2>5. QED  BY <1>2, <2>1, <2>2, <2>3, <2>4
<1>3. QED  BY <1>1, <1>2 DEF Next, SupervisorStep, StepOf, Evaluates

-----------------------------------------------------------------------------
(* Each conjunct is inductive relative to the others. *)

\* The current attempt of a supervisor with a client is a session.
LEMMA CurrentSession ==
    ASSUME TypeOK, Counted, NEW p \in Supervisors, attempts[p] >= 1
    PROVE  Current(p) \in Sessions
BY SupervisorAssumption DEF TypeOK, Current, Sessions

\* A step keeps the types: the restart loop bounds attempts, and a begun session has one.
LEMMA TypeStep == TypeOK /\ Counted /\ Next => TypeOK'
<1> SUFFICES ASSUME TypeOK, Counted, Next PROVE TypeOK'
  OBVIOUS
<1> USE SupervisorAssumption DEF Running, Gone, setup
<1>1. ASSUME NEW p \in Supervisors, Departs(p) PROVE TypeOK'
  BY <1>1 DEF TypeOK, Departs, Released, Goto
<1>2. ASSUME NEW p \in Supervisors, Enters(p) PROVE TypeOK'
  BY <1>2 DEF TypeOK, Enters, Takes, Directory, Goto, run
<1>3. ASSUME NEW p \in Supervisors, FenceOne(p) PROVE TypeOK'
  <2>1. PICK s \in fence[p] : fence' = [fence EXCEPT ![p] = @ \ {s}] /\ Stopped(s)
    BY <1>3 DEF FenceOne
  <2>2. client' \in [Supervisors -> BOOLEAN] /\ live' \subseteq Sessions
    BY <2>1 DEF Stopped, TypeOK
  <2>3. QED  BY <1>3, <2>1, <2>2 DEF TypeOK, FenceOne
<1>4. ASSUME NEW p \in Supervisors, Fenced(p) PROVE TypeOK'
  BY <1>4 DEF TypeOK, Fenced, Goto, own, run
<1>5. ASSUME NEW p \in Supervisors, NEW f \in Footprints,
             NEW unread \in SUBSET RunningStories, EvaluateAdmission(p, f, unread)
      PROVE TypeOK'
  BY <1>5 DEF TypeOK, EvaluateAdmission, RunningStories, Goto
<1>6. ASSUME NEW p \in Supervisors, Claims(p) PROVE TypeOK'
  BY <1>6 DEF TypeOK, Claims, Goto, run
<1>7. ASSUME NEW p \in Supervisors, Launch(p) PROVE TypeOK'
  BY <1>7 DEF TypeOK, Counted, Launch, Goto, At, own
<1>8. ASSUME NEW p \in Supervisors, Proceeds(p) PROVE TypeOK'
  <2>1. client' \in [Supervisors -> BOOLEAN]
    BY <1>8 DEF TypeOK, Proceeds
  <2>2. QED  BY <1>8, <2>1 DEF TypeOK, Proceeds, Goto
<1>9. ASSUME NEW p \in Supervisors, SessionBegins(p) PROVE TypeOK'
  <2>1. Current(p) \in Sessions
    BY <1>9, CurrentSession DEF SessionBegins, Counted
  <2>2. QED  BY <1>9, <2>1 DEF TypeOK, SessionBegins, own
<1>10. ASSUME NEW s \in Sessions, SessionEnds(s) PROVE TypeOK'
  <2>1. client' \in [Supervisors -> BOOLEAN] /\ live' \subseteq Sessions
    BY <1>10 DEF TypeOK, SessionEnds, Stopped
  <2>2. QED  BY <1>10, <2>1 DEF TypeOK, SessionEnds, own
<1>11. QED
  BY StepKinds, <1>1, <1>2, <1>3, <1>4, <1>5, <1>6, <1>7, <1>8, <1>9, <1>10 DEF StepOf, Evaluates

\* Attempts are counted by Launch only, and recover starts no more than it may.
LEMMA CountedStep == TypeOK /\ Counted /\ Next => Counted'
<1> SUFFICES ASSUME TypeOK, Counted, Next PROVE Counted'
  OBVIOUS
<1> USE SupervisorAssumption DEF Running, Gone, Deciding, setup
<1>1. ASSUME NEW p \in Supervisors, Departs(p) PROVE Counted'
  BY <1>1 DEF TypeOK, Counted, Departs, Goto
<1>2. ASSUME NEW p \in Supervisors, Enters(p) PROVE Counted'
  BY <1>2 DEF TypeOK, Counted, Enters, Takes, Goto, At, run
<1>3. ASSUME NEW p \in Supervisors, FenceOne(p) PROVE Counted'
  <2>1. \A q \in Supervisors : client'[q] => client[q]
    BY <1>3 DEF TypeOK, FenceOne, Stopped
  <2>2. QED  BY <1>3, <2>1 DEF Counted, FenceOne
<1>4. ASSUME NEW p \in Supervisors, Fenced(p) PROVE Counted'
  BY <1>4 DEF TypeOK, Counted, Fenced, Goto, At, run
<1>5. ASSUME NEW p \in Supervisors, NEW f \in Footprints,
             NEW unread \in SUBSET RunningStories, EvaluateAdmission(p, f, unread)
      PROVE Counted'
  BY <1>5 DEF TypeOK, Counted, EvaluateAdmission, Goto, At, run
<1>6. ASSUME NEW p \in Supervisors, Claims(p) PROVE Counted'
  BY <1>6 DEF TypeOK, Counted, Claims, Goto, At, run
<1>7. ASSUME NEW p \in Supervisors, Launch(p) PROVE Counted'
  BY <1>7 DEF TypeOK, Counted, Launch, Goto, At, own
<1>8. ASSUME NEW p \in Supervisors, Proceeds(p) PROVE Counted'
  <2>1. \A q \in Supervisors : client'[q] => client[q]
    BY <1>8 DEF TypeOK, Proceeds
  <2>2. QED  BY <1>8, <2>1 DEF TypeOK, Counted, Proceeds, Goto, At
<1>9. ASSUME NEW p \in Supervisors, SessionBegins(p) PROVE Counted'
  BY <1>9 DEF Counted, SessionBegins
<1>10. ASSUME NEW s \in Sessions, SessionEnds(s) PROVE Counted'
  <2>1. \A q \in Supervisors : client'[q] => client[q]
    BY <1>10 DEF TypeOK, SessionEnds, Stopped
  <2>2. QED  BY <1>10, <2>1 DEF Counted, SessionEnds
<1>11. QED
  BY StepKinds, <1>1, <1>2, <1>3, <1>4, <1>5, <1>6, <1>7, <1>8, <1>9, <1>10 DEF StepOf, Evaluates

\* Locks are taken before what they protect and go with their process.
LEMMA LockedStep == TypeOK /\ Locked /\ Next => Locked'
<1> SUFFICES ASSUME TypeOK, Locked, Next PROVE Locked'
  OBVIOUS
<1> USE SupervisorAssumption DEF Running, Gone, Deciding, setup
<1>1. ASSUME NEW p \in Supervisors, Departs(p) PROVE Locked'
  BY <1>1 DEF TypeOK, Locked, Departs, Released, Goto
<1>2. ASSUME NEW p \in Supervisors, Enters(p) PROVE Locked'
  BY <1>2 DEF TypeOK, Locked, Enters, Takes, Goto, At, run
<1>3. ASSUME NEW p \in Supervisors, FenceOne(p) PROVE Locked'
  BY <1>3 DEF Locked, FenceOne
<1>4. ASSUME NEW p \in Supervisors, Fenced(p) PROVE Locked'
  BY <1>4 DEF TypeOK, Locked, Fenced, Goto, At, own, run
<1>5. ASSUME NEW p \in Supervisors, NEW f \in Footprints,
             NEW unread \in SUBSET RunningStories, EvaluateAdmission(p, f, unread)
      PROVE Locked'
  BY <1>5 DEF TypeOK, Locked, EvaluateAdmission, Goto, At, run
<1>6. ASSUME NEW p \in Supervisors, Claims(p) PROVE Locked'
  BY <1>6 DEF TypeOK, Locked, Claims, Goto, At, run
<1>7. ASSUME NEW p \in Supervisors, Launch(p) PROVE Locked'
  BY <1>7 DEF TypeOK, Locked, Launch, Goto, At, own
<1>8. ASSUME NEW p \in Supervisors, Proceeds(p) PROVE Locked'
  BY <1>8 DEF TypeOK, Locked, Proceeds, Goto, At
<1>9. ASSUME NEW p \in Supervisors, SessionBegins(p) PROVE Locked'
  BY <1>9 DEF Locked, SessionBegins, own
<1>10. ASSUME NEW s \in Sessions, SessionEnds(s) PROVE Locked'
  BY <1>10 DEF Locked, SessionEnds, own
<1>11. QED
  BY StepKinds, <1>1, <1>2, <1>3, <1>4, <1>5, <1>6, <1>7, <1>8, <1>9, <1>10 DEF StepOf, Evaluates

\* Cardinality does not grow when stories stop running.
LEMMA FewerStories ==
    ASSUME NEW R, NEW Q \in SUBSET R, R \subseteq Stories
    PROVE  /\ IsFiniteSet(R) /\ Cardinality(R) \in Nat /\ Cardinality(Q) \in Nat
           /\ Cardinality(Q) <= Cardinality(R)
<1>1. IsFiniteSet(R)
  BY FS_Subset, SupervisorAssumption
<1>2. IsFiniteSet(Q) /\ Cardinality(Q) <= Cardinality(R)
  BY <1>1, FS_Subset
<1>3. QED  BY <1>1, <1>2, FS_CardinalityType

\* A step that starts no story and finds none admissible keeps the cap.
LEMMA CapKept ==
    ASSUME TypeOK, WithinCap, Room, asks' = asks, cap' = cap,
           Noticed' \subseteq Noticed, overlooked \subseteq overlooked',
           \A p \in Supervisors : At(p, "claim")' => At(p, "claim")
    PROVE  WithinCap' /\ Room'
<1> USE SupervisorAssumption
<1>0. cap \in Nat
  BY DEF TypeOK
<1>1. Noticed \subseteq Stories
  BY DEF Noticed, RunningStories
<1>2. WithinCap'
  <2>1. Cardinality(Noticed') <= Cardinality(Noticed)
        /\ Cardinality(Noticed') \in Nat /\ Cardinality(Noticed) \in Nat
    BY <1>1, FewerStories
  <2>2. Cardinality(Noticed) <= cap
    BY DEF WithinCap, Noticed
  <2>3. Cardinality(Noticed') <= cap'
    BY <1>0, <2>1, <2>2
  <2>4. QED  BY <2>3 DEF WithinCap, Noticed
<1>3. ASSUME NEW p \in Supervisors, At(p, "claim")', asks'[p] \notin overlooked'
      PROVE  Cardinality(Noticed' \ {asks'[p]}) < cap'
  <2>1. Cardinality(Noticed \ {asks[p]}) < cap
    BY <1>3 DEF Room
  <2>2. /\ Noticed' \ {asks[p]} \subseteq Noticed \ {asks[p]}
        /\ Noticed \ {asks[p]} \subseteq Stories
    BY <1>1
  <2>3. QED  BY <1>0, <2>1, <2>2, FewerStories
<1>4. QED  BY <1>2, <1>3 DEF Room

\* Admission under supervisor.lock leaves room for the claim, unless it missed a story.
LEMMA CapStep == TypeOK /\ Locked /\ WithinCap /\ Room /\ Next => WithinCap' /\ Room'
<1> SUFFICES ASSUME TypeOK, Locked, WithinCap, Room, Next PROVE WithinCap' /\ Room'
  OBVIOUS
<1> USE SupervisorAssumption
<1> DEFINE Calm ==
        /\ asks' = asks /\ cap' = cap /\ overlooked' = overlooked
        /\ RunningStories' \subseteq RunningStories
        /\ \A q \in Supervisors : At(q, "claim")' => At(q, "claim")
<1>0. cap \in Nat /\ Noticed \subseteq Stories
  BY DEF TypeOK, Noticed, RunningStories
<1>1. Cardinality(Noticed) <= cap
  BY DEF WithinCap, Noticed
<1>2. ASSUME NEW p \in Supervisors,
             Departs(p) \/ Enters(p) \/ FenceOne(p) \/ Fenced(p) \/ Launch(p) \/ Proceeds(p)
                \/ SessionBegins(p)
      PROVE  Calm
  <2>1. CASE Departs(p)
    BY <2>1 DEF TypeOK, Departs, Released, RunningStories, Goto, At, Gone, setup
  <2>2. CASE Enters(p)
    BY <2>2 DEF TypeOK, Enters, Takes, RunningStories, Goto, At, setup, run
  <2>3. CASE FenceOne(p)
    BY <2>3 DEF TypeOK, FenceOne, RunningStories, At, setup
  <2>4. CASE Fenced(p)
    BY <2>4 DEF TypeOK, Fenced, RunningStories, Goto, At, setup, own, setup, run
  <2>5. CASE Launch(p)
    BY <2>5 DEF TypeOK, Launch, RunningStories, Goto, At, setup, own
  <2>6. CASE Proceeds(p)
    BY <2>6 DEF TypeOK, Proceeds, RunningStories, Goto, At, setup
  <2>7. CASE SessionBegins(p)
    BY <2>7 DEF TypeOK, SessionBegins, RunningStories, At, setup, own
  <2>8. QED  BY <1>2, <2>1, <2>2, <2>3, <2>4, <2>5, <2>6, <2>7
<1>3. ASSUME NEW s \in Sessions, SessionEnds(s) PROVE Calm
  BY <1>3 DEF SessionEnds, RunningStories, At, setup, own
<1>4. ASSUME Calm PROVE WithinCap' /\ Room'
  BY <1>4, CapKept DEF Noticed
<1>5. ASSUME NEW p \in Supervisors, NEW f \in Footprints,
             NEW unread \in SUBSET RunningStories, EvaluateAdmission(p, f, unread)
      PROVE  WithinCap' /\ Room'
  <2> DEFINE seen == RunningStories \ unread
  <2>1. /\ asks' = asks /\ cap' = cap /\ overlooked' = overlooked \cup unread
        /\ Noticed' \subseteq Noticed /\ Noticed' \subseteq seen /\ seen \subseteq Stories
        /\ (asks[p] \in seen /\ asks[p] \notin overlooked' => asks[p] \in Noticed')
    BY <1>5 DEF EvaluateAdmission, Noticed, RunningStories, setup
  <2>2. /\ IsFiniteSet(Noticed') /\ Cardinality(Noticed') \in Nat
        /\ Cardinality(Noticed') <= Cardinality(Noticed) /\ Cardinality(Noticed) \in Nat
    BY <1>0, <2>1, FewerStories, FS_Subset
  <2>3. Cardinality(Noticed') <= cap
    BY <1>0, <1>1, <2>2
  <2>4. WithinCap'
    BY <2>1, <2>3 DEF WithinCap, Noticed
  <2>5. ASSUME asks[p] \notin overlooked' PROVE Cardinality(Noticed' \ {asks[p]}) < cap
    <3>1. CASE asks[p] \in seen
      <4>1. Cardinality(Noticed' \ {asks[p]}) = Cardinality(Noticed') - 1
        BY <2>1, <2>2, <2>5, <3>1, FS_RemoveElement
      <4>2. QED  BY <1>0, <2>2, <2>3, <4>1
    <3>2. CASE asks[p] \notin seen
      <4>1. Cardinality(seen) < cap
        BY <1>5, <3>2 DEF EvaluateAdmission, Admissible, Governed
      <4>2. Noticed' \ {asks[p]} \subseteq seen
        BY <2>1
      <4>3. QED  BY <1>0, <2>1, <4>1, <4>2, FewerStories
    <3>3. QED  BY <3>1, <3>2
  <2>6. \A q \in Supervisors : At(q, "claim")' => q = p
    BY <1>5 DEF TypeOK, Locked, EvaluateAdmission, Goto, At, Deciding
  <2>7. QED  BY <2>1, <2>4, <2>5, <2>6 DEF Room
<1>6. ASSUME NEW p \in Supervisors, Claims(p) PROVE WithinCap' /\ Room'
  <2>1. /\ asks' = asks /\ cap' = cap /\ overlooked' = overlooked
        /\ RunningStories' = RunningStories \cup {asks[p]}
    BY <1>6 DEF TypeOK, Claims, RunningStories, setup, run
  <2>2. Cardinality(Noticed') <= cap
    <3>1. CASE asks[p] \in overlooked
      <4>1. Noticed' = Noticed
        BY <2>1, <3>1 DEF Noticed
      <4>2. QED  BY <1>1, <4>1
    <3>2. CASE asks[p] \notin overlooked
      <4>1. Noticed' = (Noticed \ {asks[p]}) \cup {asks[p]}
        BY <2>1, <3>2 DEF Noticed
      <4>2. Cardinality(Noticed \ {asks[p]}) < cap
        BY <1>6, <3>2 DEF Claims, Room
      <4>3. IsFiniteSet(Noticed \ {asks[p]}) /\ Cardinality(Noticed \ {asks[p]}) \in Nat
        BY <1>0, FewerStories
      <4>4. Cardinality((Noticed \ {asks[p]}) \cup {asks[p]})
               = Cardinality(Noticed \ {asks[p]}) + 1
        BY <4>3, FS_AddElement
      <4>5. QED  BY <1>0, <4>1, <4>2, <4>3, <4>4
    <3>3. QED  BY <3>1, <3>2
  <2>3. WithinCap'
    BY <2>1, <2>2 DEF WithinCap, Noticed
  <2>4. \A q \in Supervisors : ~At(q, "claim")'
    BY <1>6 DEF TypeOK, Locked, Claims, Goto, At, Deciding
  <2>5. QED  BY <2>3, <2>4 DEF Room
<1>7. QED
  BY StepKinds, <1>2, <1>3, <1>4, <1>5, <1>6 DEF StepOf, Evaluates

\* The claim follows an admission whose collision check still holds for what it saw.
LEMMA ApartStep == TypeOK /\ Locked /\ Apart /\ Next => Apart'
<1> SUFFICES ASSUME TypeOK, Locked, Apart, Next PROVE Apart'
  OBVIOUS
<1> USE SupervisorAssumption DEF Deciding, Running
<1>1. ASSUME NEW p \in Supervisors, Departs(p) PROVE Apart'
  <2>1. /\ \A s \in RunningStories' : s \in RunningStories /\ holder'[s] = holder[s] /\ holder[s] # p
        /\ \A q \in Supervisors \ {p} : wants'[q] = wants[q] /\ missed'[q] = missed[q]
        /\ \A q \in Supervisors : At(q, "claim")' => At(q, "claim") /\ q # p
    BY <1>1 DEF TypeOK, Departs, Released, RunningStories, Goto, At, Gone
  <2>2. \A s \in RunningStories : holder[s] \in Supervisors
    BY DEF TypeOK, RunningStories
  <2>3. QED  BY <2>1, <2>2 DEF Apart
<1>2. ASSUME NEW p \in Supervisors,
             Enters(p) \/ FenceOne(p) \/ Fenced(p) \/ Launch(p) \/ Proceeds(p) \/ SessionBegins(p)
      PROVE  holder' = holder /\ wants' = wants /\ missed' = missed
               /\ \A q \in Supervisors : At(q, "claim")' => At(q, "claim")
  BY <1>2 DEF TypeOK, Enters, Takes, FenceOne, Fenced, Launch, Proceeds, SessionBegins, Goto, At, own
<1>3. ASSUME NEW s \in Sessions, SessionEnds(s)
      PROVE  holder' = holder /\ wants' = wants /\ missed' = missed
               /\ \A q \in Supervisors : At(q, "claim")' => At(q, "claim")
  BY <1>3 DEF SessionEnds, At, own
<1>4. ASSUME NEW p \in Supervisors, NEW f \in Footprints,
             NEW unread \in SUBSET RunningStories, EvaluateAdmission(p, f, unread)
      PROVE  Apart'
  <2>1. /\ holder' = holder /\ RunningStories' = RunningStories
        /\ wants' = [wants EXCEPT ![p] = f] /\ missed' = [missed EXCEPT ![p] = unread]
        /\ \A q \in Supervisors : At(q, "claim")' => q = p
        /\ \A s \in RunningStories : holder[s] \in Supervisors \ {p}
    BY <1>4 DEF TypeOK, Locked, EvaluateAdmission, RunningStories, Goto, At
  <2>2. \A s \in RunningStories \ unread : ~Collide(f, wants[holder[s]])
    BY <1>4 DEF EvaluateAdmission, Admissible
  <2>3. /\ wants'[p] = f /\ missed'[p] = unread
        /\ \A s \in RunningStories : wants'[holder[s]] = wants[holder[s]]
                                     /\ missed'[holder[s]] = missed[holder[s]]
    BY <2>1 DEF TypeOK
  <2>4. QED  BY <2>1, <2>2, <2>3 DEF Apart
<1>5. ASSUME NEW p \in Supervisors, Claims(p) PROVE Apart'
  <2>1. /\ RunningStories' = RunningStories \cup {asks[p]}
        /\ wants' = wants /\ missed' = missed
        /\ asks[p] \notin RunningStories /\ holder'[asks[p]] = p
        /\ \A s \in RunningStories : holder'[s] = holder[s]
        /\ \A q \in Supervisors : ~At(q, "claim")'
    BY <1>5 DEF TypeOK, Locked, Claims, RunningStories, Goto, At
  <2>2. \A s \in RunningStories :
            s \notin missed[p] => ~Collide(wants[p], wants[holder[s]])
                                  /\ ~Collide(wants[holder[s]], wants[p])
    BY <1>5 DEF Claims, Apart, Collide, Overlap
  <2>3. QED  BY <2>1, <2>2 DEF Apart
<1>6. ASSUME holder' = holder, wants' = wants, missed' = missed,
             \A q \in Supervisors : At(q, "claim")' => At(q, "claim")
      PROVE  Apart'
  BY <1>6 DEF Apart, RunningStories
<1>7. QED
  BY StepKinds, <1>1, <1>2, <1>3, <1>4, <1>5, <1>6 DEF StepOf, Evaluates

\* stop_owned_daemon ends an attempt's session before the next attempt.
LEMMA SessionStep == TypeOK /\ Counted /\ OneSession /\ Next => OneSession'
<1> SUFFICES ASSUME TypeOK, Counted, OneSession, Next PROVE OneSession'
  OBVIOUS
<1> USE SupervisorAssumption DEF Running, Gone, Deciding
<1>0. \A s \in live : s[1] \in Supervisors /\ s[2] >= 1 /\ s[2] \in Nat /\ s = <<s[1], s[2]>>
  BY DEF TypeOK, Sessions
<1>1. ASSUME NEW p \in Supervisors, Departs(p) PROVE OneSession'
  BY <1>0, <1>1 DEF TypeOK, OneSession, Departs, Goto, Current
<1>2. ASSUME NEW p \in Supervisors,
             Enters(p) \/ Fenced(p) \/ Claims(p) \/ Evaluates(p)
      PROVE  OneSession'
  <2>1. /\ live' = live /\ attempts' = attempts
        /\ \E where : pc' = [pc EXCEPT ![p] = where]
        /\ pc[p] \in {"start"} \cup Deciding
    BY <1>2 DEF TypeOK, Enters, Takes, Fenced, Claims, Evaluates, EvaluateAdmission, Goto, At, setup, run
  <2>2. \A s \in live : s[1] # p
    BY <1>0, <2>1 DEF Counted, OneSession
  <2>3. QED  BY <1>0, <2>1, <2>2 DEF TypeOK, OneSession, Current
<1>3. ASSUME live' \subseteq live, attempts' = attempts, pc' = pc PROVE OneSession'
  BY <1>0, <1>3 DEF OneSession, Current
<1>4. ASSUME NEW p \in Supervisors, FenceOne(p) PROVE OneSession'
  BY <1>3, <1>4 DEF FenceOne, Stopped
<1>5. ASSUME NEW p \in Supervisors, Launch(p) PROVE OneSession'
  <2>1. /\ live' = live /\ attempts' = [attempts EXCEPT ![p] = @ + 1]
        /\ pc' = [pc EXCEPT ![p] = "verify"] /\ pc[p] = "run"
    BY <1>5 DEF Launch, Goto, At
  <2>2. \A s \in live : s[1] # p
    BY <1>0, <2>1 DEF OneSession
  <2>3. QED  BY <1>0, <2>1, <2>2 DEF TypeOK, OneSession, Current
<1>6. ASSUME NEW p \in Supervisors, Proceeds(p) PROVE OneSession'
  <2>1. CASE At(p, "stop")
    <3>1. /\ live' = live \ {Current(p)} /\ attempts' = attempts
          /\ pc' = [pc EXCEPT ![p] = "settle"]
      BY <1>6, <2>1 DEF Proceeds, Goto, At
    <3>2. \A s \in live' : s[1] # p
      BY <1>0, <2>1, <3>1 DEF OneSession, At
    <3>3. QED  BY <1>0, <3>1, <3>2 DEF TypeOK, OneSession, Current
  <2>2. CASE ~At(p, "stop")
    <3>1. live' = live /\ attempts' = attempts
      BY <1>6, <2>2 DEF Proceeds
    <3>2. \/ pc[p] \in {"verify", "watch"} /\ pc' = [pc EXCEPT ![p] = "watch"]
          \/ pc[p] \in {"verify", "watch"} /\ pc' = [pc EXCEPT ![p] = "stop"]
          \/ pc[p] = "settle" /\ pc' = [pc EXCEPT ![p] = "run"]
      BY <1>6, <2>2 DEF Proceeds, Goto, At
    <3>3. QED  BY <1>0, <3>1, <3>2 DEF TypeOK, OneSession, Current
  <2>3. QED  BY <2>1, <2>2
<1>7. ASSUME NEW p \in Supervisors, SessionBegins(p) PROVE OneSession'
  <2>1. /\ live' = live \cup {Current(p)} /\ attempts' = attempts /\ pc' = pc
        /\ pc[p] \in {"verify", "killed"}
    BY <1>7 DEF SessionBegins
  <2>2. Current(p)[1] = p /\ Current(p)[2] = attempts[p] /\ attempts[p] \in Nat
    BY DEF TypeOK, Current
  <2>3. QED  BY <1>0, <2>1, <2>2 DEF OneSession, Current
<1>8. ASSUME NEW s \in Sessions, SessionEnds(s) PROVE OneSession'
  BY <1>3, <1>8 DEF SessionEnds, Stopped
<1>9. QED
  BY StepKinds, <1>1, <1>2, <1>4, <1>5, <1>6, <1>7, <1>8 DEF StepOf, Evaluates

\* Only the holder of supervisor.lock is past it when the flag is off.
LEMMA Alone ==
    ASSUME TypeOK, Locked, ~multi, NEW p \in Supervisors, pc[p] \in {"fence"} \cup Running,
           NEW q \in Supervisors, pc[q] \in {"fence"} \cup Running
    PROVE  p = q /\ master = p
BY SupervisorAssumption DEF TypeOK, Locked, Deciding

\* The fence reaches every session that was live when supervisor.lock was taken.
LEMMA FenceStep ==
    TypeOK /\ Counted /\ Locked /\ OneSession /\ Fence /\ FencedOff /\ Next => Fence' /\ FencedOff'
<1> SUFFICES ASSUME TypeOK, Counted, Locked, OneSession, Fence, FencedOff, Next, ~multi
             PROVE  Fence' /\ FencedOff'
  <2>1. TypeOK /\ Next => multi' = multi
    BY StepKinds DEF StepOf, Evaluates, Departs, Enters, FenceOne, Fenced, EvaluateAdmission, Claims, Launch,
                     Proceeds, SessionBegins, SessionEnds, setup
  <2>2. QED  BY <2>1 DEF Fence, FencedOff
<1> USE SupervisorAssumption
<1>1. ASSUME NEW p \in Supervisors, Enters(p) PROVE Fence' /\ FencedOff'
  <2>1. /\ live' = live /\ late' = late /\ master = NoOne
        /\ pc' = [pc EXCEPT ![p] = "fence"] /\ fence' = [fence EXCEPT ![p] = Directory(p)]
    BY <1>1 DEF Enters, Takes, Goto, run
  <2>2. \A q \in Supervisors : pc[q] \notin {"fence"} \cup Running
    BY <2>1 DEF TypeOK, Locked, Deciding
  <2>3. \A q \in Supervisors : pc'[q] \in {"fence"} \cup Running => q = p /\ pc'[q] = "fence"
    BY <2>1, <2>2 DEF TypeOK
  <2>4. live \subseteq Directory(p)
    BY DEF TypeOK, OneSession, Directory
  <2>5. fence'[p] = Directory(p)
    BY <2>1 DEF TypeOK
  <2>6. QED  BY <2>1, <2>3, <2>4, <2>5 DEF Fence, FencedOff, At, Running
<1>2. ASSUME NEW p \in Supervisors, FenceOne(p) PROVE Fence' /\ FencedOff'
  <2>1. PICK s \in fence[p] : fence' = [fence EXCEPT ![p] = @ \ {s}] /\ Stopped(s)
    BY <1>2 DEF FenceOne
  <2>2. At(p, "fence") /\ pc' = pc /\ late' = late /\ live' = live \ {s}
    BY <1>2, <2>1 DEF FenceOne, Stopped
  <2>3. \A q \in Supervisors : pc[q] \in {"fence"} \cup Running => q = p
    BY <2>2, Alone DEF At
  <2>4. QED  BY <2>1, <2>2, <2>3 DEF TypeOK, Fence, FencedOff, At, Running
<1>3. ASSUME NEW p \in Supervisors, Fenced(p) PROVE Fence' /\ FencedOff'
  <2>1. /\ At(p, "fence") /\ fence[p] = {} /\ pc' = [pc EXCEPT ![p] = "run"]
        /\ fence' = fence /\ late' = late /\ live' = live
    BY <1>3 DEF Fenced, Goto, own, run
  <2>2. \A q \in Supervisors : pc[q] \in {"fence"} \cup Running => q = p
    BY <2>1, Alone DEF At
  <2>3. live \ late = {}
    BY <2>1 DEF Fence
  <2>4. QED  BY <2>1, <2>2, <2>3 DEF TypeOK, Fence, FencedOff, At, Running
<1>4. ASSUME NEW p \in Supervisors, SessionBegins(p) PROVE Fence' /\ FencedOff'
  <2>1. /\ live' = live \cup {Current(p)} /\ pc' = pc /\ fence' = fence
        /\ pc[p] \in {"verify", "killed"} /\ Current(p)[1] = p
        /\ late' = IF ~multi /\ At(p, "killed") /\ master # NoOne THEN late \cup {Current(p)} ELSE late
    BY <1>4 DEF SessionBegins, own, Current
  <2>2. ASSUME NEW q \in Supervisors, pc[q] \in {"fence"} \cup Running
        PROVE  (live' \ late' \subseteq live \ late) \/ (q = p /\ pc[q] = "verify")
    <3>1. master = q
      BY <2>2, Alone
    <3>2. CASE pc[p] = "killed"
      BY <2>1, <3>1, <3>2 DEF At
    <3>3. CASE pc[p] = "verify"
      BY <2>2, <3>3, Alone DEF Running
    <3>4. QED  BY <2>1, <3>2, <3>3
  <2>3. live' \ late' \subseteq (live \ late) \cup {Current(p)}
    BY <2>1
  <2>4. QED  BY <2>1, <2>2, <2>3 DEF Fence, FencedOff, At, Running
<1>5. ASSUME live' \subseteq live, late' = late,
             \A q \in Supervisors :
                /\ pc'[q] = "fence" => pc[q] = "fence" /\ fence'[q] = fence[q]
                /\ pc'[q] \in Running => pc[q] \in Running
      PROVE  Fence' /\ FencedOff'
  BY <1>5 DEF Fence, FencedOff, At
<1>6. ASSUME NEW p \in Supervisors, Departs(p) PROVE Fence' /\ FencedOff'
  BY <1>5, <1>6 DEF TypeOK, Departs, Released, Goto, Gone, Running
<1>7. ASSUME NEW p \in Supervisors, Launch(p) \/ Proceeds(p) PROVE Fence' /\ FencedOff'
  BY <1>5, <1>7 DEF TypeOK, Launch, Proceeds, Goto, At, own, Running
<1>8. ASSUME NEW p \in Supervisors, Claims(p) \/ Evaluates(p)
      PROVE  FALSE
  BY <1>8 DEF Locked, Claims, Evaluates, EvaluateAdmission, At
<1>9. ASSUME NEW s \in Sessions, SessionEnds(s) PROVE Fence' /\ FencedOff'
  BY <1>5, <1>9 DEF SessionEnds, Stopped, own
<1>10. QED
  BY StepKinds, <1>1, <1>2, <1>3, <1>4, <1>6, <1>7, <1>8, <1>9 DEF StepOf, Evaluates

-----------------------------------------------------------------------------
(* The theorems. *)

\* No supervisor has started.
LEMMA Initially == Init => IInv
<1> SUFFICES ASSUME Init PROVE IInv
  OBVIOUS
<1> USE SupervisorAssumption
<1>1. TypeOK
  BY DEF Init, TypeOK, Running, Gone
<1>2. RunningStories = {}
  BY DEF Init, RunningStories
<1>3. WithinCap
  <2>1. RunningStories \ overlooked = {} /\ cap \in Nat
    BY <1>1, <1>2 DEF TypeOK
  <2>2. QED  BY <2>1, FS_EmptySet DEF WithinCap
<1>4. Counted /\ Locked /\ Room /\ Apart /\ OneSession /\ Fence /\ FencedOff
  BY <1>2 DEF Init, Counted, Locked, Room, Apart, OneSession, Fence, FencedOff, At, Running,
              Gone, Deciding
<1>5. QED  BY <1>1, <1>3, <1>4 DEF IInv

\* Every step keeps the invariant.
LEMMA Inductive == IInv /\ [Next]_vars => IInv'
<1>1. CASE Next
  BY <1>1, TypeStep, CountedStep, LockedStep, CapStep, ApartStep, SessionStep, FenceStep DEF IInv
<1>2. CASE UNCHANGED vars
  BY <1>2 DEF IInv, TypeOK, Counted, Locked, WithinCap, Room, Apart, OneSession, Fence, FencedOff,
              Noticed, RunningStories, Current, At, vars, setup, own, run
<1>3. QED  BY <1>1, <1>2

\* The invariant holds in every reachable state of the supervisors and the daemon.
THEOREM InvariantHolds == Spec => []IInv
BY Initially, Inductive, PTL DEF Spec

\* The state keeps its type: no supervisor starts more than --max-restarts + 1 attempts
\* (recover), and every live session is that of a started attempt.
THEOREM TypeCorrect == Spec => []TypeOK
<1>1. IInv => TypeOK
  BY DEF IInv
<1>2. QED  BY InvariantHolds, <1>1, PTL

\* However admissions, takeovers, kills and releases of story locks interleave, and whichever
\* locks cannot be read, the stories that every admission saw are within the governor's cap
\* (evaluate_admission under supervisor.lock).
THEOREM CapHolds == Spec => []WithinCap
<1>1. IInv => WithinCap
  BY DEF IInv
<1>2. QED  BY InvariantHolds, <1>1, PTL

\* Two supervised writers work on different stories; when each was seen, they have known
\* footprints that share no file under entries that can be compared, and with the flag off
\* there is one writer (collide, the story locks and supervisor.lock).
THEOREM WritersKeptApart == Spec => []WritersApart
<1>1. ASSUME IInv PROVE WritersApart
  <2> SUFFICES ASSUME NEW s \in Supervised, NEW t \in Supervised, s # t
               PROVE  /\ multi /\ asks[s[1]] # asks[t[1]]
                      /\ ~Unseen(s[1], t[1]) =>
                            /\ {} \notin {wants[s[1]], wants[t[1]]}
                            /\ \A d \in wants[s[1]], e \in wants[t[1]] :
                                  Comparable(d, e) => Writes[d] \cap Writes[e] = {}
    BY DEF WritersApart
  <2>1. /\ s[1] \in Supervisors /\ t[1] \in Supervisors
        /\ pc[s[1]] \in Running /\ pc[t[1]] \in Running
    BY <1>1 DEF IInv, TypeOK, Sessions, Supervised
  <2>2. s[1] # t[1]
    BY <1>1, <2>1 DEF IInv, OneSession, Supervised
  <2>3. multi
    BY <1>1, <2>1, <2>2, Alone DEF IInv
  <2>4. holder[asks[s[1]]] = s[1] /\ holder[asks[t[1]]] = t[1]
    BY <1>1, <2>1, <2>3 DEF IInv, Locked
  <2>5. asks[s[1]] \in RunningStories /\ asks[t[1]] \in RunningStories
    BY <1>1, <2>1, <2>4, SupervisorAssumption DEF IInv, TypeOK, RunningStories
  <2>6. ASSUME ~Unseen(s[1], t[1]) PROVE ~Collide(wants[s[1]], wants[t[1]])
    BY <1>1, <2>2, <2>4, <2>5, <2>6 DEF IInv, Apart, Unseen
  <2>7. wants[s[1]] \subseteq Entries /\ wants[t[1]] \subseteq Entries
    BY <1>1, <2>1 DEF IInv, TypeOK, Entries
  <2>8. ASSUME ~Unseen(s[1], t[1]), NEW d \in wants[s[1]], NEW e \in wants[t[1]], Comparable(d, e)
        PROVE  Writes[d] \cap Writes[e] = {}
    <3>1. d \in Entries /\ e \in Entries /\ ~Overlap(d, e)
      BY <2>6, <2>7, <2>8 DEF Collide
    <3>2. QED  BY <2>8, <3>1, FootprintAssumption
  <2>9. ASSUME ~Unseen(s[1], t[1]) PROVE {} \notin {wants[s[1]], wants[t[1]]}
    BY <2>6, <2>9 DEF Collide
  <2>10. QED  BY <2>2, <2>3, <2>4, <2>8, <2>9
<1>2. QED  BY InvariantHolds, <1>1, PTL

\* With the flag off, a supervisor past the fence of main() has no writer beside its own,
\* except one that a killed supervisor's client submitted after the lock was taken.
THEOREM FenceHolds == Spec => []FencedOff
<1>1. IInv => FencedOff
  BY DEF IInv
<1>2. QED  BY InvariantHolds, <1>1, PTL
=============================================================================
