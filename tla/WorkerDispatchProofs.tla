------------------------ MODULE WorkerDispatchProofs ------------------------
(***************************************************************************)
(* Proofs about WorkerDispatch, for every pool of candidates, every budget *)
(* and every set of failing writes: TypeOK, and, where a timeout of spawn  *)
(* is recognised (TimeoutIsBuiltin), OneWriter, Delivered and, when the    *)
(* bridge's answers do not fail, OneOwnedChild.                            *)
(*                                                                         *)
(* The argument: the request in request.json names the one child that may  *)
(* be working.  The controller names the next one only after an answer to  *)
(* that very request has told it that the child was refused or deleted,    *)
(* and by then the bridge has nothing of the old request in hand.          *)
(***************************************************************************)
EXTENDS WorkerDispatch, FiniteSetTheorems, TLAPS

-----------------------------------------------------------------------------
(* The inductive invariants. *)

\* A candidate is tried at most once, so attempts never outnumber candidates.
Counts ==
    /\ pc \in {"permit"} \cup Waiting => at \in Numbers
    /\ pc \in {"loop", "permit", "spawning", "collecting"} => failed < at
    /\ pc = "reaping" => failed <= at
    /\ pc \in {"permit", "spawning", "collecting"} => failed < MaxAttempts
    /\ request.method = "spawn" => request.name \in Numbers
    /\ bridge = "spawning" => serving.name \in Numbers

Busy == {"spawning", "deleting"}

\* Requests are taken in order, answered after they are taken, and are of the call the
\* controller waits for.
Mailbox ==
    /\ response.id <= serving.id /\ serving.id <= request.id
    /\ serving.name <= request.name
    /\ serving.id = request.id => serving = request
    /\ bridge \in Busy => response.id < serving.id
    /\ pc = "spawning" => request.method = "spawn" /\ request.name = Attempt
    /\ pc = "collecting" => request.method = "collect" /\ request.name = handle /\ handle = Attempt
    /\ pc = "reaping" => request.method = "delete" /\ request.name = handle
    /\ request.name <= Attempt /\ (pc \in {"loop", "permit", "reaping"} => request.name <= failed)
    /\ request.method # "none" => request.name \in Numbers

\* A child that is not working under an answer that admits it.
Safe(c) == child[c] \in {"none", "deleted"} \/ c \in misreported

\* Between attempts the bridge has nothing in hand, and the last child is safe.
Between ==
    pc \in {"loop", "permit"} =>
        /\ serving.id = request.id /\ bridge \notin Busy
        /\ request.name \in Numbers => Safe(request.name)

\* Only the child of the last request may work; the names after it are unused.
Current ==
    /\ \A c \in Numbers : c # request.name => Safe(c)
    /\ \A c \in Numbers : c > request.name => child[c] = "none" /\ c \notin misreported
    /\ \A c \in owned : child[c] # "none"
    /\ request.method = "spawn" /\ serving.id # request.id
          => child[request.name] = "none" /\ bridge \notin Busy
    /\ bridge = "spawning" => /\ serving.method = "spawn" /\ serving.name = request.name
                              /\ child[request.name] = "none"
    /\ bridge = "deleting" => serving.method = "delete"

\* What an answer to the last request says is so, and stays so.
Truthful ==
    response.id = request.id =>
        /\ request.method = "spawn" /\ ~response.ok => Safe(request.name)
        /\ request.method = "delete" /\ response.ok => child[request.name] = "deleted"
        /\ response.value = "ok" => /\ request.name \in Numbers
                                    /\ child[request.name] \in {"settled", "deleted"}
                                    /\ result[request.name] = "ok"

\* A SUCCESS names the child of the last request.
Named ==
    /\ outcome.state # "none" => pc \in {"ended", "exited", "killed"}
    /\ outcome.state = "SUCCESS" => /\ outcome.child = request.name /\ request.name \in Numbers
                                    /\ child[request.name] \in {"settled", "deleted"}
                                    /\ result[request.name] = "ok"

TInv == TypeOK /\ Counts
IInv == TInv /\ Mailbox /\ Between /\ Current /\ Truthful /\ Named

-----------------------------------------------------------------------------
(* Types and counts. *)

\* The pool is a sequence of providers and windows.
LEMMA PoolType ==
    /\ Len(Candidates) \in Nat
    /\ \A i \in Numbers : Candidates[i].provider \in Nat /\ Candidates[i].window \in Nat
<1>1. ASSUME NEW S, NEW s \in Seq(S)  PROVE Len(s) \in Nat /\ \A i \in 1 .. Len(s) : s[i] \in S
  OBVIOUS
<1>2. Candidates \in Seq([provider: Nat, window: Nat])
  BY DispatchAssumption
<1>3. Len(Candidates) \in Nat /\ \A i \in Numbers : Candidates[i] \in [provider: Nat, window: Nat]
  BY <1>1, <1>2 DEF Numbers
<1>4. QED  BY <1>3

\* Names and ids are numbers.
LEMMA NumberTypes ==
    ASSUME TInv
    PROVE  /\ Numbers \subseteq Nat
           /\ request.name \in Nat /\ serving.name \in Nat
           /\ response.id \in Nat /\ serving.id \in Nat /\ request.id \in Nat /\ failed \in Nat
<1>1. Numbers \subseteq Nat
  BY DEF Numbers
<1>2. /\ request.name \in {0} \cup Numbers /\ serving.name \in {0} \cup Numbers
      /\ response.id \in Nat /\ serving.id \in Nat /\ request.id \in Nat /\ failed \in Nat
  BY DEF TInv, TypeOK, Request
<1>3. ASSUME NEW n \in {0} \cup Numbers  PROVE n \in Nat
  <2>1. CASE n = 0
    BY <2>1
  <2>2. CASE n \in Numbers
    BY <1>1, <2>2
  <2>3. QED  BY <2>1, <2>2
<1>4. request.name \in Nat /\ serving.name \in Nat
  BY <1>2, <1>3
<1>5. QED  BY <1>1, <1>2, <1>4

\* Steps of the controller before a call: the candidates are gone through.
LEMMA RankingType ==
    ASSUME TInv,
           \/ Exclude \/ GiveUp \/ Healthy \/ Denied \/ Spawn
           \/ \E f \in Failures : Unhealthy(f)
    PROVE  TInv'
<1> USE DEF TInv, TypeOK, Counts
<1>1. Len(Candidates) \in Nat /\ MaxAttempts \in Nat
  BY PoolType, DispatchAssumption
<1>2. CASE Exclude \/ \E f \in Failures : Unhealthy(f)
  <2>1. pc = "loop" /\ at \in Numbers /\ at' = at + 1 /\ at' \in 1 .. Len(Candidates) + 1
    BY <1>1, <1>2 DEF Exclude, Unhealthy, Eligible, Considers, NextCandidate, Numbers
  <2>2. blocked' \subseteq {Candidates[i].provider : i \in Numbers}
    BY <1>2, <2>1 DEF Exclude, Unhealthy, Provider
  <2>3. UNCHANGED <<pc, failed, overflow, handle, persist, polls, outcome, request, response, bridge,
                    serving, owned, reported, child, result, misreported>>
    BY <1>2 DEF Exclude, Unhealthy, kernel, children
  <2>4. QED  BY <2>1, <2>2, <2>3 DEF Waiting
<1>3. CASE GiveUp
  <2>1. pc' = "ended" /\ outcome' \in [state: {"none", "SUCCESS", "FAIL_CLOSED"}, child: {0} \cup Numbers]
    BY <1>3 DEF GiveUp, Finish
  <2>2. UNCHANGED <<at, failed, blocked, overflow, handle, persist, polls, request, response, bridge,
                    serving, owned, reported, child, result, misreported>>
    BY <1>3 DEF GiveUp, kernel, children
  <2>3. QED  BY <2>1, <2>2 DEF Waiting
<1>4. CASE Healthy \/ Denied
  <2>1. /\ Healthy => pc = "loop" /\ pc' = "permit" /\ at' = at /\ at \in Numbers /\ failed < MaxAttempts
        /\ Denied => pc = "permit" /\ pc' = "loop" /\ at' = at + 1 /\ at' \in 1 .. Len(Candidates) + 1
    BY <1>1 DEF Healthy, Denied, Eligible, Considers, WithinBudget, NextCandidate, Numbers
  <2>2. UNCHANGED <<failed, blocked, overflow, handle, persist, polls, outcome, request, response, bridge,
                    serving, owned, reported, child, result, misreported>>
    BY <1>4 DEF Healthy, Denied, kernel, children
  <2>3. QED  BY <1>4, <2>1, <2>2 DEF Waiting
<1>5. CASE Spawn
  <2>1. Attempt \in Numbers /\ request.id + 1 \in Nat
    BY <1>1, <1>5 DEF Spawn, Attempt, Numbers, Request
  <2>2. request' \in Request /\ request'.name \in Numbers
    BY <1>5, <2>1 DEF Spawn, Call, Request
  <2>3. pc = "permit" /\ pc' = "spawning" /\ handle' = 0 /\ persist' = FALSE /\ polls' = 0
           /\ 0 \in 0 .. MaxPolls
    BY <1>5, DispatchAssumption DEF Spawn
  <2>4. UNCHANGED <<at, failed, blocked, overflow, outcome, response, bridge,
                    serving, owned, reported, child, result, misreported>>
    BY <1>5 DEF Spawn, kernel, children
  <2>5. QED  BY <2>2, <2>3, <2>4 DEF Waiting
<1>6. QED  BY <1>2, <1>3, <1>4, <1>5

\* The failure handler.
LEMMA FailsType ==
    ASSUME TInv, pc \in {"spawning", "collecting"}, NEW f \in Failures, NEW h \in {0} \cup Numbers,
           NEW local \in BOOLEAN, Fails(f, h, local), UNCHANGED <<polls, response, kernel, children>>
    PROVE  TInv'
<1> USE DEF TInv, TypeOK, Counts
<1>1. /\ at \in Numbers /\ Candidates[at].provider \in Nat /\ Candidates[at].window \in Nat
      /\ failed + 1 \in 0 .. MaxAttempts /\ failed + 1 <= at
  <2>1. at \in Numbers /\ failed < at /\ failed < MaxAttempts /\ failed \in 0 .. MaxAttempts
    BY DEF Waiting
  <2>2. MaxAttempts \in Nat /\ at \in Nat
    BY <2>1, DispatchAssumption DEF Numbers
  <2>3. failed + 1 \in 0 .. MaxAttempts /\ failed + 1 <= at
    BY ONLY <2>1, <2>2
  <2>4. QED  BY <2>1, <2>3, PoolType
<1>2. blocked' \subseteq {Candidates[i].provider : i \in Numbers} /\ overflow' \in Nat
  BY <1>1 DEF Fails, Provider
<1>3. failed' = failed + 1 /\ handle' = h /\ persist' = local
  BY DEF Fails
<1>4. UNCHANGED <<polls, response, bridge, serving, owned, reported, child, result, misreported>>
  BY DEF kernel, children
<1>5. CASE Finish("FAIL_CLOSED", 0) /\ UNCHANGED <<at, request>>
  BY <1>1, <1>2, <1>3, <1>4, <1>5 DEF Finish, Waiting
<1>6. CASE Call("delete", h) /\ pc' = "reaping" /\ UNCHANGED <<at, outcome>>
  <2>1. request' \in Request /\ request'.method = "delete"
    BY <1>6 DEF Call, Request
  <2>2. QED  BY <1>1, <1>2, <1>3, <1>4, <1>6, <2>1 DEF Waiting
<1>7. CASE pc' = "loop" /\ NextCandidate /\ UNCHANGED <<outcome, request>>
  BY <1>1, <1>2, <1>3, <1>4, <1>7, PoolType DEF NextCandidate, Numbers, Waiting
<1>8. QED  BY <1>5, <1>6, <1>7 DEF Fails

\* Steps of the controller in a call.
LEMMA CallingType ==
    ASSUME TInv,
           \/ SpawnTimesOut \/ SpawnRefused \/ SpawnRejected \/ SpawnAdmitted
           \/ CollectAgain \/ CollectFails \/ Succeed \/ Reaped \/ ReapUnconfirmed \/ Exit \/ Killed
    PROVE  TInv'
<1>1. pc \in {"spawning", "collecting"} => Attempt \in Numbers
  BY PoolType DEF TInv, TypeOK, Counts, Attempt, Numbers, Waiting
<1>2. ASSUME pc = "spawning", NEW f \in Failures, NEW h \in {0} \cup Numbers, Receipted(f, h),
             UNCHANGED <<polls, response, kernel, children>>
      PROVE  TInv'
  BY <1>2, FailsType DEF Receipted, Failures
<1>3. CASE SpawnTimesOut
  BY <1>1, <1>2, <1>3 DEF SpawnTimesOut, Late, Failures
<1>4. CASE SpawnRefused
  BY <1>2, <1>4 DEF SpawnRefused
<1>5. CASE SpawnRejected
  BY <1>1, <1>2, <1>5 DEF SpawnRejected, Failures
<1>6. CASE SpawnAdmitted
  <2>1. CASE Fails("other", Attempt, TRUE)
    BY <1>1, <1>6, <2>1, FailsType DEF SpawnAdmitted, Failures
  <2>2. CASE pc' = "collecting" /\ Call("collect", Attempt)
               /\ UNCHANGED <<at, failed, blocked, overflow, persist, outcome>>
    <3>1. request' \in Request /\ request'.method = "collect"
      BY <1>1, <1>6, <2>2 DEF SpawnAdmitted, Call, Request, TInv, TypeOK
    <3>2. QED  BY <1>1, <1>6, <2>2, <3>1
               DEF SpawnAdmitted, TInv, TypeOK, Counts, kernel, children, Waiting
  <2>3. QED  BY <1>6, <2>1, <2>2 DEF SpawnAdmitted
<1>7. CASE CollectAgain
  <2>1. request' \in Request /\ request'.method = "collect"
    BY <1>7 DEF CollectAgain, Call, Request, TInv, TypeOK
  <2>2. polls' \in 0 .. MaxPolls
    BY <1>7, DispatchAssumption DEF CollectAgain, TInv, TypeOK
  <2>3. QED  BY <1>7, <2>1, <2>2 DEF CollectAgain, TInv, TypeOK, Counts, kernel, children, Waiting
<1>8. CASE CollectFails
  BY <1>8, FailsType DEF CollectFails, Failures, TInv, TypeOK
<1>9. CASE Succeed \/ ReapUnconfirmed \/ Exit \/ Killed
  BY <1>9 DEF Succeed, ReapUnconfirmed, Exit, Killed, Finish, TInv, TypeOK, Counts, kernel, children,
              Waiting
<1>10. CASE Reaped
  BY <1>10, PoolType DEF Reaped, Finish, NextCandidate, TInv, TypeOK, Counts, kernel, children,
              Waiting, Numbers
<1>11. QED  BY <1>3, <1>4, <1>5, <1>6, <1>7, <1>8, <1>9, <1>10

\* Steps of the bridge and of the children.
LEMMA BridgeType ==
    ASSUME TInv, BridgeStep \/ \E c \in Numbers : Settles(c)
    PROVE  TInv'
<1> USE DEF TInv, TypeOK, Counts
<1>1. ASSUME NEW r \in Request, NEW ok \in BOOLEAN, NEW v \in {"none", "running", "ok"} \cup Failures,
             Respond(r, ok, v)
      PROVE  /\ response' \in [id: Nat, ok: BOOLEAN, value: {"none", "running", "ok"} \cup Failures]
             /\ bridge' \in {"poll", "closing"}
  BY <1>1 DEF Respond, Request
<1>2. CASE Take
  <2>1. /\ response' \in [id: Nat, ok: BOOLEAN, value: {"none", "running", "ok"} \cup Failures]
        /\ bridge' \in {"poll", "closing", "spawning", "deleting"}
        /\ bridge' = "spawning" => request.method = "spawn"
    <3>1. CASE bridge' \in Busy /\ UNCHANGED response
      BY <1>2, <3>1 DEF Take, Busy, Respond
    <3>2. CASE request.name \in owned /\ Respond(request, TRUE, IF child[request.name] = "settled"
                                    THEN result[request.name] ELSE "running")
      BY <1>1, <3>2
    <3>3. CASE Respond(request, FALSE, "none")
      BY <1>1, <3>3
    <3>4. QED  BY <1>2, <3>1, <3>2, <3>3 DEF Take, Busy
  <2>2. QED  BY <1>2, <2>1 DEF Take, controller, children, Waiting
<1>3. CASE Spawned
  <2>1. /\ response' \in [id: Nat, ok: BOOLEAN, value: {"none", "running", "ok"} \cup Failures]
        /\ bridge' \in {"poll", "closing"}
    BY <1>1, <1>3 DEF Spawned
  <2>2. /\ child' \in [Numbers -> {"none", "working", "settled", "deleted"}]
        /\ owned' \subseteq Numbers /\ misreported' \subseteq Numbers
    BY <1>3 DEF Spawned
  <2>3. UNCHANGED <<pc, at, failed, blocked, overflow, handle, persist, polls, outcome, request,
                    serving, reported, result>>
    BY <1>3 DEF Spawned, controller
  <2>4. QED  BY <2>1, <2>2, <2>3
<1>4. CASE SpawnRaises
  <2>1. /\ response' \in [id: Nat, ok: BOOLEAN, value: {"none", "running", "ok"} \cup Failures]
        /\ bridge' \in {"poll", "closing"}
    BY <1>1, <1>4 DEF SpawnRaises
  <2>2. QED  BY <1>4, <2>1 DEF SpawnRaises, controller, children
<1>5. CASE Deleted
  <2>1. /\ response' \in [id: Nat, ok: BOOLEAN, value: {"none", "running", "ok"} \cup Failures]
        /\ bridge' \in {"poll", "closing"}
    BY <1>1, <1>5 DEF Deleted
  <2>2. /\ child' \in [Numbers -> {"none", "working", "settled", "deleted"}]
        /\ owned' \subseteq Numbers /\ misreported' \subseteq Numbers
    BY <1>5 DEF Deleted
  <2>3. UNCHANGED <<pc, at, failed, blocked, overflow, handle, persist, polls, outcome, request,
                    serving, reported, result>>
    BY <1>5 DEF Deleted, controller
  <2>4. QED  BY <2>1, <2>2, <2>3
<1>6. CASE Stop
  BY <1>6 DEF Stop, controller, children
<1>7. CASE Close
  BY <1>7 DEF Close, controller, Leftover
<1>8. CASE \E c \in Numbers : Settles(c)
  BY <1>8 DEF Settles, controller, kernel
<1>9. QED  BY <1>2, <1>3, <1>4, <1>5, <1>6, <1>7, <1>8 DEF BridgeStep

\* Every step keeps types and counts.
LEMMA TypeStep == TInv /\ [Next]_vars => TInv'
<1> SUFFICES ASSUME TInv, [Next]_vars  PROVE TInv'
  OBVIOUS
<1>1. CASE UNCHANGED vars
  BY <1>1 DEF vars, controller, kernel, children, TInv, TypeOK, Counts
<1>2. QED  BY <1>1, RankingType, CallingType, BridgeType DEF Next, ControllerStep

\* At first nothing was asked and no child exists.
LEMMA TypeInitially == Init => TInv
<1> SUFFICES ASSUME Init  PROVE TInv
  OBVIOUS
<1>1. Len(Candidates) \in Nat /\ MaxAttempts \in Nat /\ MaxPolls \in Nat
  BY PoolType, DispatchAssumption
<1>2. NoRequest \in Request /\ NoRequest.method = "none"
  BY DEF NoRequest, Request
<1>3. NoResponse \in [id: Nat, ok: BOOLEAN, value: {"none", "running", "ok"} \cup Failures]
  BY DEF NoResponse
<1>4. TypeOK
  <2>1. at \in 1 .. Len(Candidates) + 1 /\ failed \in 0 .. MaxAttempts /\ polls \in 0 .. MaxPolls
    BY <1>1 DEF Init
  <2>2. request \in Request /\ serving \in Request
           /\ response \in [id: Nat, ok: BOOLEAN, value: {"none", "running", "ok"} \cup Failures]
    BY <1>2, <1>3 DEF Init
  <2>3. /\ child \in [Numbers -> {"none", "working", "settled", "deleted"}]
        /\ result \in [Numbers -> {"none", "ok"} \cup Failures]
        /\ outcome \in [state: {"none", "SUCCESS", "FAIL_CLOSED"}, child: {0} \cup Numbers]
    BY DEF Init
  <2>4. QED  BY <2>1, <2>2, <2>3 DEF Init, TypeOK
<1>5. Counts
  BY <1>2 DEF Init, Counts, Waiting
<1>6. QED  BY <1>4, <1>5 DEF TInv

\* Type correctness, whatever Python does with the timeout of a spawn.
THEOREM TypeCorrect == Spec => []TypeOK
<1>1. Spec => []TInv
  BY TypeInitially, TypeStep, PTL DEF Spec
<1>2. TInv => TypeOK
  BY DEF TInv
<1>3. QED  BY <1>1, <1>2, PTL

-----------------------------------------------------------------------------
(* Kinds of controller steps, by what they do to the mailbox. *)

mailbox == <<request, response, kernel, children>>

\* The controller ends, with no new success.
Rests ==
    /\ pc' \in {"ended", "exited", "killed"}
    /\ failed' \in {failed, failed + 1}
    /\ outcome' \in {outcome, [state |-> "FAIL_CLOSED", child |-> 0]}
    /\ UNCHANGED mailbox

\* It goes through its candidates.
Ranks ==
    /\ pc \in {"loop", "permit"} /\ pc' \in {"loop", "permit"}
    /\ UNCHANGED <<failed, outcome, mailbox>>

\* An answer lets it go on to the next candidate.
Advances ==
    /\ Answered
    /\ \/ pc = "spawning" /\ ~response.ok /\ failed' = failed + 1
       \/ pc = "reaping" /\ response.ok /\ failed' = failed
    /\ pc' = "loop"
    /\ UNCHANGED <<outcome, mailbox>>

\* It calls.
Calls ==
    /\ \/ /\ pc = "permit" /\ pc' = "spawning" /\ Call("spawn", Attempt) /\ failed' = failed
       \/ /\ pc \in {"spawning", "collecting"} /\ handle' = Attempt
          /\ \/ pc' = "collecting" /\ Call("collect", Attempt) /\ failed' = failed
             \/ pc' = "reaping" /\ Call("delete", Attempt) /\ failed' = failed + 1
    /\ UNCHANGED <<outcome, response, kernel, children>>

\* It succeeds.
Succeeds ==
    /\ pc = "collecting" /\ Answered /\ response.value = "ok"
    /\ pc' = "ended" /\ failed' = failed
    /\ outcome' = [state |-> "SUCCESS", child |-> handle]
    /\ UNCHANGED mailbox

\* A failure ends the operation, is followed by the deletion of the child of this attempt,
\* or, when there is no child to delete, by the next candidate.
LEMMA FailsKinds ==
    ASSUME TInv, pc \in {"spawning", "collecting"}, NEW f, NEW h, NEW local \in BOOLEAN, Fails(f, h, local),
           h = Attempt \/ (h = 0 /\ pc = "spawning" /\ Answered /\ ~response.ok),
           UNCHANGED <<polls, response, kernel, children>>
    PROVE  Rests \/ Calls \/ Advances
<1>1. failed' = failed + 1 /\ handle' = h
  BY DEF Fails
<1>2. CASE Finish("FAIL_CLOSED", 0) /\ UNCHANGED <<at, request>>
  BY <1>1, <1>2 DEF Finish, Rests, mailbox
<1>3. CASE h # 0 /\ Call("delete", h) /\ pc' = "reaping" /\ UNCHANGED <<at, outcome>>
  BY <1>1, <1>3 DEF Calls
<1>4. CASE h = 0 /\ pc' = "loop" /\ NextCandidate /\ UNCHANGED <<outcome, request>>
  <2>1. h # Attempt
    BY <1>4 DEF Attempt, TInv, TypeOK
  <2>2. QED  BY <1>1, <1>4, <2>1 DEF Advances, mailbox
<1>5. QED  BY <1>2, <1>3, <1>4 DEF Fails

\* Every step of the controller is of one of these kinds, where a spawn that times out is
\* recognised by its exception.
LEMMA ControllerKinds ==
    ASSUME TimeoutIsBuiltin, TInv, Mailbox, ControllerStep \/ Killed
    PROVE  Rests \/ Ranks \/ Advances \/ Calls \/ Succeeds
<1>1. CASE Exclude \/ Healthy \/ Denied \/ \E f \in Failures : Unhealthy(f)
  BY <1>1 DEF Exclude, Healthy, Denied, Unhealthy, Eligible, Considers, Ranks, mailbox
<1>2. CASE GiveUp \/ ReapUnconfirmed \/ Exit \/ Killed
  BY <1>2 DEF GiveUp, ReapUnconfirmed, Exit, Killed, Finish, Rests, mailbox
<1>3. CASE Spawn
  BY <1>3 DEF Spawn, Calls
<1>4. ASSUME pc = "spawning", NEW f, NEW h, Receipted(f, h), UNCHANGED <<polls, response, kernel, children>>,
             h = Attempt \/ (h = 0 /\ Answered /\ ~response.ok)
      PROVE  Rests \/ Calls \/ Advances
  <2>1. CASE Fails(f, h, FALSE)
    BY <1>4, <2>1, FailsKinds
  <2>2. CASE Fails("other", h, TRUE)
    BY <1>4, <2>2, FailsKinds
  <2>3. QED  BY <1>4, <2>1, <2>2 DEF Receipted
<1>5. CASE SpawnTimesOut \/ SpawnRejected
  <2>1. Late = Attempt
    BY DEF Late
  <2>2. QED  BY <1>4, <1>5, <2>1 DEF SpawnTimesOut, SpawnRejected
<1>6. CASE SpawnRefused
  BY <1>4, <1>6 DEF SpawnRefused
<1>7. CASE SpawnAdmitted
  <2>1. CASE Fails("other", Attempt, TRUE)
    BY <1>7, <2>1, FailsKinds DEF SpawnAdmitted
  <2>2. CASE pc' = "collecting" /\ Call("collect", Attempt)
               /\ UNCHANGED <<at, failed, blocked, overflow, persist, outcome>>
    BY <1>7, <2>2 DEF SpawnAdmitted, Calls
  <2>3. QED  BY <1>7, <2>1, <2>2 DEF SpawnAdmitted
<1>8. CASE CollectAgain
  BY <1>8 DEF CollectAgain, Calls, Mailbox
<1>9. CASE CollectFails
  <2>1. pc = "collecting" /\ handle = Attempt /\ \E f : Fails(f, handle, FALSE)
    BY <1>9 DEF CollectFails, Mailbox
  <2>2. QED  BY <1>9, <2>1, FailsKinds DEF CollectFails
<1>10. CASE Succeed
  BY <1>10 DEF Succeed, Finish, Succeeds, Rests, mailbox
<1>11. CASE Reaped
  BY <1>11 DEF Reaped, Finish, Rests, Advances, mailbox
<1>12. QED  BY <1>1, <1>2, <1>3, <1>5, <1>6, <1>7, <1>8, <1>9, <1>10, <1>11 DEF ControllerStep

-----------------------------------------------------------------------------
(* The controller keeps the invariant. *)

\* It ends or goes through candidates: the mailbox and the children are as they were.
LEMMA RestsStep ==
    ASSUME IInv, TInv', Rests \/ Ranks
    PROVE  IInv'
<1> USE DEF IInv
<1>1. UNCHANGED <<request, response, bridge, serving, owned, reported, child, result, misreported>>
  BY DEF Rests, Ranks, mailbox, kernel, children
<1>2. failed \in Nat /\ failed' \in {failed, failed + 1} /\ (Ranks => failed' = failed)
  BY DEF Rests, Ranks, TInv, TypeOK
<1>3. Mailbox'
  <2>1. request.name \in Nat
    BY NumberTypes
  <2>2. QED  BY <1>1, <1>2, <2>1 DEF Mailbox, Rests, Ranks, Attempt
<1>4. Between' /\ Current' /\ Truthful'
  BY <1>1 DEF Between, Current, Truthful, Safe, Rests, Ranks
<1>5. Named'
  BY <1>1 DEF Named, Rests, Ranks
<1>6. QED  BY <1>3, <1>4, <1>5

\* It goes on to the next candidate after an answer: nothing of the old call is in hand.
LEMMA AdvancesStep ==
    ASSUME IInv, TInv', Advances
    PROVE  IInv'
<1> USE DEF IInv
<1>1. UNCHANGED <<request, response, bridge, serving, owned, reported, child, result, misreported,
                  outcome>>
  BY DEF Advances, mailbox, kernel, children
<1>2. /\ response.id \in Nat /\ serving.id \in Nat /\ request.id \in Nat /\ failed \in Nat
      /\ response.id = request.id
  BY DEF TInv, TypeOK, Request, Advances, Answered
<1>3. Mailbox'
  BY <1>1, <1>2 DEF Mailbox, Advances, Attempt, TInv, TypeOK, Request
<1>4. serving.id = request.id /\ bridge \notin Busy
  BY <1>2 DEF Mailbox
<1>5. Safe(request.name)
  BY <1>2 DEF Advances, Mailbox, Truthful, Safe
<1>6. Between'
  BY <1>1, <1>4, <1>5 DEF Between, Safe
<1>7. Current' /\ Truthful' /\ Named'
  BY <1>1 DEF Current, Truthful, Named, Safe, Advances
<1>8. QED  BY <1>3, <1>6, <1>7

\* It succeeds with the terminal of the child it asked about.
LEMMA SucceedsStep ==
    ASSUME IInv, TInv', Succeeds
    PROVE  IInv'
<1> USE DEF IInv
<1>1. UNCHANGED <<request, response, bridge, serving, owned, reported, child, result, misreported>>
  BY DEF Succeeds, mailbox, kernel, children
<1>2. Mailbox' /\ Between' /\ Current' /\ Truthful'
  BY <1>1 DEF Mailbox, Between, Current, Truthful, Safe, Succeeds, Attempt
<1>3. Named'
  BY <1>1 DEF Named, Succeeds, Mailbox, Truthful, Answered
<1>4. QED  BY <1>2, <1>3

\* It calls: with a fresh id, for the child it has or for a name that is unused.
LEMMA CallsStep ==
    ASSUME IInv, TInv', Calls
    PROVE  IInv'
<1> USE DEF IInv
<1>1. UNCHANGED <<response, bridge, serving, owned, reported, child, result, misreported, outcome>>
  BY DEF Calls, kernel, children
<1>2. /\ response.id \in Nat /\ serving.id \in Nat /\ request.id \in Nat /\ failed \in Nat
      /\ request.name \in Nat /\ serving.name \in Nat
  BY NumberTypes
<1>3. /\ request'.id = request.id + 1 /\ request'.name = Attempt /\ request'.name \in Numbers
      /\ request'.method = CASE pc' = "spawning" -> "spawn" [] pc' = "collecting" -> "collect"
                             [] pc' = "reaping" -> "delete"
      /\ pc' \in {"spawning", "collecting", "reaping"}
  <2>1. Attempt \in Numbers
    BY <1>2, PoolType DEF Calls, TInv, TypeOK, Counts, Attempt, Numbers, Waiting
  <2>2. QED  BY <2>1 DEF Calls, Call
<1>4. Mailbox'
  BY <1>1, <1>2, <1>3 DEF Mailbox, Calls, Attempt
<1>5. Between' /\ Truthful' /\ Named'
  BY <1>1, <1>2, <1>3 DEF Between, Truthful, Named, Mailbox, Calls
<1>6. Current'
  <2>1. CASE pc = "permit"
    <3>1. serving.id = request.id /\ bridge \notin Busy
             /\ (request.name \in Numbers => Safe(request.name)) /\ request.name < Attempt
      BY <1>2, <2>1 DEF Between, Mailbox, Attempt
    <3>2. \A c \in Numbers : Safe(c)
      BY <3>1 DEF Current
    <3>3. \A c \in Numbers : c > Attempt => child[c] = "none" /\ c \notin misreported
      BY <1>2, <3>1 DEF Current, Attempt, Numbers
    <3>4. child[Attempt] = "none"
      BY <1>3, <3>1 DEF Current, Attempt, Numbers
    <3>5. QED  BY <1>1, <1>2, <1>3, <3>1, <3>2, <3>3, <3>4 DEF Current, Safe, Busy
  <2>2. CASE pc \in {"spawning", "collecting"}
    <3>1. request.name = Attempt /\ request'.method # "spawn"
      BY <1>3, <2>2 DEF Mailbox, Calls, Call
    <3>2. QED  BY <1>1, <1>2, <1>3, <3>1 DEF Current, Safe
  <2>3. QED  BY <2>1, <2>2 DEF Calls
<1>7. QED  BY <1>4, <1>5, <1>6

-----------------------------------------------------------------------------
(* The bridge and the children keep the invariant. *)

\* A request is taken: an answer to it at once is the truth.
LEMMA TakeStep ==
    ASSUME IInv, TInv', Take
    PROVE  IInv'
<1> USE DEF IInv
<1>1. /\ response.id \in Nat /\ serving.id \in Nat /\ request.id \in Nat
      /\ request.name \in Nat /\ serving.name \in Nat
  BY NumberTypes
<1>2. /\ bridge = "poll" /\ serving' = request /\ request.id # serving.id /\ response.id < request.id
      /\ UNCHANGED <<pc, failed, handle, outcome, request, owned, child, result, misreported>>
  BY <1>1 DEF Take, Mailbox, controller, children
<1>3. \/ bridge' = "spawning" /\ request.method = "spawn" /\ response' = response
      \/ bridge' = "deleting" /\ request.method = "delete" /\ response' = response
      \/ bridge' = "closing" /\ response' = response
      \/ /\ bridge' = "poll" /\ response'.id = request.id /\ request.method # "spawn"
         /\ \/ ~response'.ok /\ response'.value = "none"
            \/ /\ request.method = "collect" /\ request.name \in owned
               /\ response'.value = "ok" => /\ child[request.name] = "settled"
                                            /\ result[request.name] = "ok"
  <2>1. CASE request.method = "collect" /\ request.name \in owned
               /\ Respond(request, TRUE, IF child[request.name] = "settled"
                                        THEN result[request.name] ELSE "running")
    BY <2>1 DEF Respond
  <2>2. CASE request.method # "spawn" /\ Respond(request, FALSE, "none")
    BY <2>2 DEF Respond
  <2>3. QED  BY <2>1, <2>2 DEF Take
<1>4. Mailbox'
  BY <1>1, <1>2, <1>3 DEF Mailbox, Busy, Attempt
<1>5. Between' /\ Named'
  BY <1>2 DEF Between, Named
<1>6. Current'
  BY <1>2, <1>3 DEF Current, Safe, Busy
<1>7. Truthful'
  BY <1>1, <1>2, <1>3 DEF Truthful, TInv, TypeOK
<1>8. QED  BY <1>4, <1>5, <1>6, <1>7

\* What the bridge writes when it is done with the request it serves.
LEMMA RespondMailbox ==
    ASSUME IInv, bridge \in Busy, NEW ok, NEW v, Respond(serving, ok, v),
           UNCHANGED <<controller, request, serving>>
    PROVE  /\ Mailbox' /\ Between' /\ bridge' \in {"poll", "closing"}
           /\ response'.id = request.id =>
                 serving = request /\ response'.ok = ok /\ response'.value = v
<1>1. /\ response.id \in Nat /\ serving.id \in Nat /\ request.id \in Nat
  BY DEF IInv, TInv, TypeOK, Request
<1>2. /\ bridge' \in {"poll", "closing"}
      /\ \/ response'.id = serving.id /\ response'.ok = ok /\ response'.value = v
         \/ response' = response
      /\ response.id < serving.id
  BY DEF Respond, IInv, Mailbox
<1>3. UNCHANGED <<pc, failed, handle, request, serving>>
  BY DEF controller
<1>4. Mailbox'
  BY <1>1, <1>2, <1>3 DEF IInv, Mailbox, Busy, Attempt
<1>5. Between'
  BY <1>3 DEF IInv, Between
<1>6. QED  BY <1>1, <1>2, <1>4, <1>5 DEF IInv, Mailbox

\* A child is admitted, or refused.
LEMMA SpawnedStep ==
    ASSUME IInv, TInv', Spawned \/ SpawnRaises
    PROVE  IInv'
<1> USE DEF IInv
<1>1. /\ bridge = "spawning" /\ bridge \in Busy /\ serving.method = "spawn"
      /\ serving.name = request.name /\ request.name \in Numbers /\ child[request.name] = "none"
      /\ request.method = "spawn" => serving.id = request.id
      /\ UNCHANGED <<controller, request, serving, result>>
  BY DEF Spawned, SpawnRaises, Current, Busy, TInv, Counts, children
<1>2. UNCHANGED <<pc, outcome>>
  BY <1>1 DEF controller
<1>3. PICK ok \in BOOLEAN :
         /\ Respond(serving, ok, "none")
         /\ \/ /\ child' = [child EXCEPT ![request.name] = "working"]
               /\ owned' = owned \cup {request.name}
               /\ misreported' = IF ok THEN misreported ELSE misreported \cup {request.name}
            \/ ~ok /\ UNCHANGED <<child, owned, misreported>>
  BY <1>1 DEF Spawned, SpawnRaises, children
<1>4. /\ Mailbox' /\ Between' /\ bridge' \in {"poll", "closing"}
      /\ response'.id = request.id => serving = request /\ response'.ok = ok /\ response'.value = "none"
  BY <1>1, <1>3, RespondMailbox
<1>5. \A c \in Numbers : c # request.name => child'[c] = child[c] /\ (c \in misreported' <=> c \in misreported)
  BY <1>3 DEF TInv, TypeOK
<1>6. Current'
  <2>1. \A c \in owned' : child'[c] # "none"
    BY <1>1, <1>3 DEF Current, TInv, TypeOK
  <2>2. request.name \in Nat /\ Numbers \subseteq Nat
    BY NumberTypes
  <2>3. \A c \in Numbers : c > request.name => c # request.name
    BY <2>2
  <2>4. QED  BY <1>1, <1>4, <1>5, <2>1, <2>3 DEF Current, Safe, Busy
<1>7. Truthful'
  <2>1. ~ok => Safe(request.name)'
    BY <1>1, <1>3 DEF Safe
  <2>2. QED  BY <1>1, <1>4, <2>1 DEF Truthful, Safe
<1>8. Named'
  BY <1>1, <1>2 DEF Named
<1>9. QED  BY <1>4, <1>6, <1>7, <1>8

\* A child is deleted, or the deletion fails and is answered as such.
LEMMA DeletedStep ==
    ASSUME IInv, TInv', Deleted
    PROVE  IInv'
<1> USE DEF IInv
<1>1. /\ bridge = "deleting" /\ bridge \in Busy /\ serving.method = "delete"
      /\ request.method = "spawn" => serving.id = request.id
      /\ serving.name <= request.name
      /\ UNCHANGED <<controller, request, serving, result, misreported>>
  BY DEF Deleted, Current, Mailbox, Busy
<1>2. UNCHANGED <<pc, outcome>>
  BY <1>1 DEF controller
<1>3. PICK ok \in BOOLEAN :
         /\ Respond(serving, ok, "none")
         /\ \/ /\ child' = [child EXCEPT ![serving.name] = "deleted"]
               /\ owned' = owned \ {serving.name}
            \/ ~ok /\ UNCHANGED <<child, owned>>
  BY DEF Deleted
<1>4. /\ Mailbox' /\ Between' /\ bridge' \in {"poll", "closing"}
      /\ response'.id = request.id => serving = request /\ response'.ok = ok /\ response'.value = "none"
  BY <1>1, <1>3, RespondMailbox
<1>5. \A c \in Numbers : child'[c] = child[c] \/ (c = serving.name /\ child'[c] = "deleted")
  BY <1>3 DEF TInv, TypeOK
<1>6. Current'
  <2>1. request.name \in Nat /\ serving.name \in Nat /\ Numbers \subseteq Nat
    BY NumberTypes
  <2>2. ASSUME NEW c \in Numbers, c > request.name  PROVE child'[c] = "none"
    <3>1. c # serving.name
      BY ONLY <1>1, <2>1, <2>2
    <3>2. child[c] = "none"
      BY <2>2 DEF Current
    <3>3. QED  BY <1>5, <3>1, <3>2
  <2>3. \A c \in owned' : child'[c] # "none"
    BY <1>3, <1>5 DEF Current, TInv, TypeOK
  <2>4. QED  BY <1>1, <1>4, <1>5, <2>2, <2>3 DEF Current, Safe, Busy
<1>7. Truthful'
  <2>1. ok /\ serving = request /\ request.name \in Numbers => child'[request.name] = "deleted"
    BY <1>3 DEF TInv, TypeOK
  <2>2. QED  BY <1>1, <1>4, <2>1 DEF Truthful, Mailbox
<1>8. Named'
  BY <1>1, <1>2, <1>5 DEF Named
<1>9. QED  BY <1>4, <1>6, <1>7, <1>8

\* The bridge ends, and deletes what it owns or reports that it could not.
LEMMA ClosingStep ==
    ASSUME IInv, TInv', Stop \/ Close
    PROVE  IInv'
<1> USE DEF IInv
<1>1. /\ bridge \notin Busy /\ bridge' \notin Busy
      /\ UNCHANGED <<controller, request, response, serving, result, misreported>>
  BY DEF Stop, Close, Busy, children
<1>2. UNCHANGED <<pc, failed, handle, outcome>>
  BY <1>1 DEF controller
<1>3. /\ \A c \in Numbers : child'[c] = child[c] \/ (c \in owned /\ child'[c] = "deleted")
      /\ owned' \subseteq owned
  BY DEF Stop, Close, children, Leftover, TInv, TypeOK
<1>4. Mailbox' /\ Between'
  BY <1>1, <1>2, <1>3 DEF Mailbox, Between, Safe, Attempt
<1>5. Current'
  <2>1. \A c \in owned' : child'[c] # "none"
    BY <1>3 DEF Current, TInv, TypeOK
  <2>2. \A c \in Numbers : child[c] = "none" => child'[c] = "none"
    BY <1>3 DEF Current
  <2>3. QED  BY <1>1, <1>3, <2>1, <2>2 DEF Current, Safe, Busy, TInv, Counts
<1>6. Truthful' /\ Named'
  BY <1>1, <1>2, <1>3 DEF Truthful, Named, Safe, Mailbox
<1>7. QED  BY <1>4, <1>5, <1>6

\* A child settles: it was working, so it is the current one or misreported.
LEMMA SettlesStep ==
    ASSUME IInv, TInv', NEW c \in Numbers, Settles(c)
    PROVE  IInv'
<1> USE DEF IInv
<1>1. /\ child[c] = "working" /\ child' = [child EXCEPT ![c] = "settled"]
      /\ UNCHANGED <<controller, request, response, bridge, serving, owned, misreported>>
      /\ \A x \in Numbers : x # c => result'[x] = result[x]
  BY DEF Settles, kernel, TInv, TypeOK
<1>2. UNCHANGED <<pc, failed, handle, outcome>>
  BY <1>1 DEF controller
<1>3. /\ \A x \in Numbers : child'[x] = IF x = c THEN "settled" ELSE child[x]
      /\ \A x \in Numbers : child[x] \in {"none", "deleted", "settled"} =>
            child'[x] = child[x] /\ result'[x] = result[x]
  BY <1>1 DEF TInv, TypeOK
<1>4. \A x \in Numbers : Safe(x) => Safe(x)'
  BY <1>1, <1>3 DEF Safe
<1>5. Mailbox' /\ Between'
  BY <1>1, <1>2, <1>4 DEF Mailbox, Between, Attempt
<1>6. Current'
  <2>1. \A x \in owned' : child'[x] # "none"
    BY <1>1, <1>3 DEF Current, TInv, TypeOK
  <2>2. QED  BY <1>1, <1>3, <1>4, <2>1 DEF Current, TInv, Counts
<1>7. Truthful' /\ Named'
  BY <1>1, <1>2, <1>3, <1>4 DEF Truthful, Named, Mailbox
<1>8. QED  BY <1>5, <1>6, <1>7

-----------------------------------------------------------------------------
(* The theorems. *)

\* Nothing was asked and nothing answered at first.
LEMMA Initially == Init => IInv
<1> SUFFICES ASSUME Init  PROVE IInv
  OBVIOUS
<1>1. TInv
  BY TypeInitially
<1>2. Mailbox /\ Between /\ Truthful
  BY DEF Init, Mailbox, Between, Truthful, NoRequest, NoResponse, Attempt, Busy, Numbers
<1>3. Current /\ Named
  BY DEF Init, Current, Named, NoRequest, Safe
<1>4. QED  BY <1>1, <1>2, <1>3 DEF IInv

\* Every step keeps the invariant.
LEMMA Inductive ==
    ASSUME TimeoutIsBuiltin
    PROVE  IInv /\ [Next]_vars => IInv'
<1> SUFFICES ASSUME IInv, [Next]_vars  PROVE IInv'
  OBVIOUS
<1>1. TInv'
  BY TypeStep DEF IInv
<1>2. CASE UNCHANGED vars
  <2>1. Mailbox' /\ Between' /\ Current' /\ Truthful' /\ Named'
    BY <1>2 DEF vars, controller, kernel, children, IInv, Mailbox, Between, Current, Truthful, Named,
                Safe, Attempt
  <2>2. QED  BY <1>1, <2>1 DEF IInv
<1>3. CASE ControllerStep \/ Killed
  BY <1>1, <1>3, ControllerKinds, RestsStep, AdvancesStep, SucceedsStep, CallsStep DEF IInv
<1>4. CASE BridgeStep
  BY <1>1, <1>4, TakeStep, SpawnedStep, DeletedStep, ClosingStep DEF BridgeStep
<1>5. CASE \E c \in Numbers : Settles(c)
  BY <1>1, <1>5, SettlesStep
<1>6. QED  BY <1>2, <1>3, <1>4, <1>5 DEF Next

\* The inductive invariant holds in every reachable state.
THEOREM InvariantHolds ==
    ASSUME TimeoutIsBuiltin
    PROVE  Spec => []IInv
BY Initially, Inductive, PTL DEF Spec

\* WorkerController and the bridge: whatever pool, budget and failing writes, at most one
\* child whose admission was reported is working.
THEOREM NeverTwoWriters ==
    ASSUME TimeoutIsBuiltin
    PROVE  Spec => []OneWriter
<1>1. IInv => OneWriter
  <2> SUFFICES ASSUME IInv  PROVE OneWriter
    OBVIOUS
  <2>1. Writers \ misreported \subseteq {request.name}
    BY DEF IInv, Current, Safe, Writers
  <2>2. IsFiniteSet({request.name}) /\ Cardinality({request.name}) = 1
    BY FS_Singleton
  <2>3. Cardinality(Writers \ misreported) <= 1
    BY <2>1, <2>2, FS_Subset
  <2>4. QED  BY <2>3 DEF OneWriter
<1>2. QED  BY <1>1, InvariantHolds, PTL

\* A SUCCESS is the valid terminal of the child it names, and every other child whose
\* admission was reported is deleted by then.
THEOREM SuccessDelivered ==
    ASSUME TimeoutIsBuiltin
    PROVE  Spec => []Delivered
<1>1. IInv => Delivered
  BY DEF IInv, Named, Current, Safe, Delivered
<1>2. QED  BY <1>1, InvariantHolds, PTL

\* Only an answer that could not be written hides an admission.
LEMMA NothingHidden ==
    ASSUME "answer" \notin Faults, misreported = {}, [Next]_vars
    PROVE  misreported' = {}
<1>1. CASE UNCHANGED vars
  BY <1>1 DEF vars, children
<1>2. CASE ControllerStep \/ Killed
  <2>1. UNCHANGED children
    BY <1>2 DEF ControllerStep, Killed, Exclude, GiveUp, Healthy, Denied, Spawn, Unhealthy,
                SpawnTimesOut, SpawnRefused, SpawnRejected, SpawnAdmitted, CollectAgain,
                CollectFails, Succeed, Reaped, ReapUnconfirmed, Exit
  <2>2. QED  BY <2>1 DEF children
<1>3. CASE BridgeStep
  BY <1>3 DEF BridgeStep, Take, Spawned, SpawnRaises, Deleted, Stop, Close, children
<1>4. CASE \E c \in Numbers : Settles(c)
  BY <1>4 DEF Settles
<1>5. QED  BY <1>1, <1>2, <1>3, <1>4 DEF Next

\* "One owned child at a time" (OneOwnedChild) is true of WorkerController where timeouts of
\* spawn are recognised and no answer of the bridge is lost to a failed write.
THEOREM OneChildAtATime ==
    ASSUME TimeoutIsBuiltin, "answer" \notin Faults
    PROVE  Spec => []OneOwnedChild
<1>1. Init => misreported = {}
  BY DEF Init
<1>2. (misreported = {}) /\ [Next]_vars => (misreported = {})'
  BY NothingHidden
<1>3. OneWriter /\ (misreported = {}) => OneOwnedChild
  <2>1. SUFFICES ASSUME OneWriter, misreported = {}  PROVE OneOwnedChild
    OBVIOUS
  <2>2. Writers \ misreported = Writers
    BY <2>1
  <2>3. QED  BY <2>1, <2>2 DEF OneWriter, OneOwnedChild
<1>4. QED  BY <1>1, <1>2, <1>3, NeverTwoWriters, PTL DEF Spec
=============================================================================
