---------------------------- MODULE WorkerDispatch ----------------------------
(***************************************************************************)
(* One worker operation: the external controller process of                *)
(* worker_runtime.py (WorkerController over PrimeFileAdapter), the bridge  *)
(* task in Prime's kernel that owns the children (runtime_bridge.py,       *)
(* PrimeWorkerOperation.serve) and the children themselves.                *)
(*                                                                         *)
(* Controller and bridge talk through two files that are replaced          *)
(* atomically: request.json holds the last request, response.json the last *)
(* answer, matched by the request id.  A call that outlives its deadline   *)
(* is given up by the controller only: the bridge still serves it, and its *)
(* answer lands in response.json later.                                    *)
(*                                                                         *)
(* Abstracted: clocks (a deadline may pass in any wait), prompts, effort,  *)
(* events.  What the probe, the passport and commit_dispatch say is chosen *)
(* (HealthStore models them); the Prime runtime (rlm) is external.         *)
(***************************************************************************)
EXTENDS Naturals, Sequences, FiniteSets

CONSTANTS
    Candidates,       \* the ranked pool: a sequence of [provider, window]
    MaxAttempts,      \* RuntimeBudget.max_attempts
    MaxPolls,         \* bound: collect calls within attempt_seconds
    TimeoutIsBuiltin, \* asyncio.TimeoutError is TimeoutError: Python 3.11 and later
    Faults            \* local writes that may fail

Numbers == 1 .. Len(Candidates)

ASSUME DispatchAssumption ==
    /\ Candidates \in Seq([provider: Nat, window: Nat])
    /\ MaxAttempts \in Nat \ {0} /\ MaxPolls \in Nat
    /\ TimeoutIsBuiltin \in BOOLEAN
    /\ Faults \subseteq {"receipt", "cache", "answer", "response", "cleanup"}

VARIABLES
    pc,        \* where the controller is
    at,        \* the candidate it considers
    failed,    \* len(attempts): attempts that failed so far
    blocked,   \* blocked_providers
    overflow,  \* overflowed_at, 0 for None
    handle,    \* the child the controller would delete, 0 for None
    persist,   \* the failure being handled is of local persistence
    polls,     \* collect calls of this attempt
    outcome,   \* WorkerOutcome: the state and the child it names
    request,   \* request.json
    response,  \* response.json
    bridge,    \* where the bridge is
    serving,   \* the request it took last
    owned,     \* its owned children; in its finally, the ones not yet deleted
    child,     \* the children, by the attempt that named them
    result,    \* what a child's journal says once it has settled
    reported,  \* the child that cleanup-error.json names, 0 without the file
    misreported \* history: children admitted under an answer that says error

controller == <<pc, at, failed, blocked, overflow, handle, persist, polls, outcome>>
kernel     == <<bridge, serving, owned, reported>>
children   == <<child, result, misreported>>
vars       == <<controller, request, response, kernel, children>>

Failures == {"provider", "context", "other"}  \* provider-wide and revoking, overflow, the rest

Request == [id: Nat, method: {"none", "spawn", "collect", "delete"}, name: {0} \cup Numbers]

NoRequest  == [id |-> 0, method |-> "none", name |-> 0]
NoResponse == [id |-> 0, ok |-> FALSE, value |-> "none"]

Waiting == {"spawning", "collecting", "reaping"}
Running == pc \notin {"exited", "killed"}

TypeOK ==
    /\ pc \in {"loop", "permit", "ended", "exited", "killed"} \cup Waiting
    /\ at \in 1 .. Len(Candidates) + 1
    /\ failed \in 0 .. MaxAttempts
    /\ blocked \subseteq {Candidates[i].provider : i \in Numbers}
    /\ overflow \in Nat
    /\ handle \in {0} \cup Numbers
    /\ persist \in BOOLEAN
    /\ polls \in 0 .. MaxPolls
    /\ outcome \in [state: {"none", "SUCCESS", "FAIL_CLOSED"}, child: {0} \cup Numbers]
    /\ request \in Request /\ serving \in Request
    /\ response \in [id: Nat, ok: BOOLEAN, value: {"none", "running", "ok"} \cup Failures]
    /\ bridge \in {"poll", "spawning", "deleting", "closing", "closed", "aborted"}
    /\ owned \subseteq Numbers /\ misreported \subseteq Numbers
    /\ reported \in {0} \cup Numbers
    /\ child \in [Numbers -> {"none", "working", "settled", "deleted"}]
    /\ result \in [Numbers -> {"none", "ok"} \cup Failures]

Init ==
    /\ pc = "loop" /\ at = 1 /\ failed = 0 /\ blocked = {} /\ overflow = 0
    /\ handle = 0 /\ persist = FALSE /\ polls = 0
    /\ outcome = [state |-> "none", child |-> 0]
    /\ request = NoRequest /\ response = NoResponse
    /\ bridge = "poll" /\ serving = NoRequest /\ owned = {} /\ reported = 0
    /\ child = [c \in Numbers |-> "none"] /\ result = [c \in Numbers |-> "none"]
    /\ misreported = {}

-----------------------------------------------------------------------------
(* The controller: choosing a route. *)

Provider == Candidates[at].provider
Attempt  == failed + 1              \* the number in the child's name

Finish(s, c) ==
    /\ pc' = "ended"
    /\ outcome' = [state |-> s, child |-> c]

Considers == pc = "loop" /\ at <= Len(Candidates)

\* The prompt that overflowed a window cannot fit a smaller one.
TooSmall == overflow # 0 /\ Candidates[at].window < overflow

NextCandidate == at' = at + 1

\* Routes left out without a look: window too small, provider blocked.
Exclude ==
    /\ Considers
    /\ TooSmall \/ Provider \in blocked
    /\ NextCandidate
    /\ UNCHANGED <<pc, failed, blocked, overflow, handle, persist, polls, outcome,
                   request, response, kernel, children>>

Eligible == Considers /\ ~TooSmall /\ Provider \notin blocked

\* No candidate left, the total deadline, the attempt budget; or the caches raise (run()).
GiveUp ==
    /\ \/ pc = "loop" /\ at > Len(Candidates)
       \/ Eligible                                     \* total_seconds are over
       \/ pc = "permit" /\ "cache" \in Faults
    /\ Finish("FAIL_CLOSED", 0)
    /\ UNCHANGED <<at, failed, blocked, overflow, handle, persist, polls,
                   request, response, kernel, children>>

\* Mutant: one attempt too many.
WithinBudget_inclusive == failed <= MaxAttempts

WithinBudget == failed < MaxAttempts

\* The cached verdict, or the probe that confirms this route: healthy.
Healthy ==
    /\ Eligible
    /\ WithinBudget
    /\ pc' = "permit"
    /\ UNCHANGED <<at, failed, blocked, overflow, handle, persist, polls, outcome,
                   request, response, kernel, children>>

\* An active revocation, a cached cooldown or a failed probe.
Unhealthy(f) ==
    /\ Eligible
    /\ WithinBudget
    /\ blocked' = IF f = "provider" THEN blocked \cup {Provider} ELSE blocked
    /\ NextCandidate
    /\ UNCHANGED <<pc, failed, overflow, handle, persist, polls, outcome,
                   request, response, kernel, children>>

\* No fresh passport, or commit_dispatch denies.
Denied ==
    /\ pc = "permit"
    /\ pc' = "loop"
    /\ NextCandidate
    /\ UNCHANGED <<failed, blocked, overflow, handle, persist, polls, outcome,
                   request, response, kernel, children>>

-----------------------------------------------------------------------------
(* The controller: calls through the mailbox. *)

\* rpc: a fresh id replaces request.json.
Call(method, name) == request' = [id |-> request.id + 1, method |-> method, name |-> name]

\* Mutant: rpc takes whatever response.json holds.
Answered_any == response.id # 0

\* Only the response with the id of this call is its answer.
Answered == response.id = request.id

\* The permit is committed; spawn is called.
Spawn ==
    /\ pc = "permit"
    /\ Call("spawn", Attempt)
    /\ pc' = "spawning"
    /\ handle' = 0 /\ persist' = FALSE /\ polls' = 0
    /\ UNCHANGED <<at, failed, blocked, overflow, outcome, response, kernel, children>>

\* Mutant: a spawn that timed out has no handle, so there is nothing to delete.
Late_forgotten == 0

\* A spawn that timed out is known by its name, where the timeout is recognised.
Late == IF TimeoutIsBuiltin THEN Attempt ELSE 0

\* The failure handler: what is learned, then the child is deleted before anything else.
\* A cache write that fails ends the operation (run()); so does a lost receipt, after
\* the deletion.
Fails(f, h, local) ==
    /\ failed' = failed + 1
    /\ blocked' = IF f = "provider" THEN blocked \cup {Provider} ELSE blocked
    /\ overflow' = IF f = "context" /\ Candidates[at].window > overflow
                   THEN Candidates[at].window ELSE overflow
    /\ handle' = h /\ persist' = local
    /\ \/ /\ "cache" \in Faults /\ ~local
          /\ Finish("FAIL_CLOSED", 0)
          /\ UNCHANGED <<at, request>>
       \/ /\ h # 0
          /\ Call("delete", h)
          /\ pc' = "reaping"
          /\ UNCHANGED <<at, outcome>>
       \/ /\ h = 0 /\ local
          /\ Finish("FAIL_CLOSED", 0)
          /\ UNCHANGED <<at, request>>
       \/ /\ h = 0 /\ ~local
          /\ pc' = "loop"
          /\ NextCandidate
          /\ UNCHANGED <<outcome, request>>

\* The receipt of a spawn attempt is written whatever came of it; if that fails it hides
\* the failure that was on its way.
Receipted(f, h) ==
    \/ Fails(f, h, FALSE)
    \/ "receipt" \in Faults /\ Fails("other", h, TRUE)

SpawnTimesOut ==
    /\ pc = "spawning"
    /\ Receipted("other", Late)
    /\ UNCHANGED <<polls, response, kernel, children>>

SpawnRefused ==
    /\ pc = "spawning" /\ Answered /\ ~response.ok
    /\ \E f \in Failures : Receipted(f, 0)
    /\ UNCHANGED <<polls, response, kernel, children>>

\* Admitted, but the epoch moved meanwhile or the handle names another model.
SpawnRejected ==
    /\ pc = "spawning" /\ Answered /\ response.ok
    /\ Receipted("other", Attempt)
    /\ UNCHANGED <<polls, response, kernel, children>>

SpawnAdmitted ==
    /\ pc = "spawning" /\ Answered /\ response.ok
    /\ handle' = Attempt
    /\ \/ /\ pc' = "collecting"
          /\ Call("collect", Attempt)
          /\ UNCHANGED <<at, failed, blocked, overflow, persist, outcome>>
       \/ /\ "receipt" \in Faults
          /\ Fails("other", Attempt, TRUE)
    /\ UNCHANGED <<polls, response, kernel, children>>

CollectAgain ==
    /\ pc = "collecting" /\ Answered /\ response.ok /\ response.value = "running"
    /\ polls < MaxPolls
    /\ polls' = polls + 1
    /\ Call("collect", handle)
    /\ UNCHANGED <<pc, at, failed, blocked, overflow, handle, persist, outcome,
                   response, kernel, children>>

\* A deadline, an error of the call, or a terminal that validate_terminal or the
\* validator refuses.
CollectFails ==
    /\ pc = "collecting"
    /\ \/ Fails("other", handle, FALSE)
       \/ /\ Answered /\ response.ok /\ response.value \in Failures
          /\ Fails(response.value, handle, FALSE)
    /\ UNCHANGED <<polls, response, kernel, children>>

\* A valid terminal; the caches may still refuse to record it.
Succeed ==
    /\ pc = "collecting" /\ Answered /\ response.ok /\ response.value = "ok"
    /\ \/ Finish("SUCCESS", handle)
       \/ "cache" \in Faults /\ Finish("FAIL_CLOSED", 0)
    /\ UNCHANGED <<at, failed, blocked, overflow, handle, persist, polls,
                   request, response, kernel, children>>

\* The child is gone: the next candidate, or the end after a lost receipt.
Reaped ==
    /\ pc = "reaping" /\ Answered /\ response.ok
    /\ \/ persist /\ Finish("FAIL_CLOSED", 0) /\ UNCHANGED at
       \/ ~persist /\ pc' = "loop" /\ NextCandidate /\ UNCHANGED outcome
    /\ UNCHANGED <<failed, blocked, overflow, handle, persist, polls,
                   request, response, kernel, children>>

\* Mutant: a deletion that is never answered is waited for.
ReapUnconfirmed_refused ==
    /\ pc = "reaping" /\ Answered /\ ~response.ok
    /\ Finish("FAIL_CLOSED", 0)
    /\ UNCHANGED <<at, failed, blocked, overflow, handle, persist, polls,
                   request, response, kernel, children>>

\* cleanup_unconfirmed: cleanup_seconds over, or the bridge refuses.
ReapUnconfirmed ==
    /\ pc = "reaping"
    /\ Finish("FAIL_CLOSED", 0)
    /\ UNCHANGED <<at, failed, blocked, overflow, handle, persist, polls,
                   request, response, kernel, children>>

Exit ==
    /\ pc = "ended"
    /\ pc' = "exited"
    /\ UNCHANGED <<at, failed, blocked, overflow, handle, persist, polls, outcome,
                   request, response, kernel, children>>

Killed ==
    /\ Running
    /\ pc' = "killed"
    /\ UNCHANGED <<at, failed, blocked, overflow, handle, persist, polls, outcome,
                   request, response, kernel, children>>

-----------------------------------------------------------------------------
(* The bridge. *)

\* An answer to the request being served, or the end of serve() when response.json
\* cannot be written.
Respond(r, ok, value) ==
    \/ /\ response' = [id |-> r.id, ok |-> ok, value |-> value]
       /\ bridge' = "poll"
    \/ /\ "response" \in Faults
       /\ bridge' = "closing"
       /\ UNCHANGED response

\* A request is taken once.  spawn and delete_subagent are awaited; collect does not wait.
Take ==
    /\ bridge = "poll" /\ Running
    /\ request.id # serving.id
    /\ serving' = request
    /\ \/ /\ request.method = "spawn"
          /\ bridge' = "spawning" /\ UNCHANGED response
       \/ /\ request.method = "delete" /\ request.name \in owned
          /\ bridge' = "deleting" /\ UNCHANGED response
       \/ /\ request.method = "collect" /\ request.name \in owned
          /\ Respond(request, TRUE, IF child[request.name] = "settled"
                                    THEN result[request.name] ELSE "running")
       \/ /\ request.method # "spawn" /\ request.name \notin owned
          /\ Respond(request, FALSE, "none")
    /\ UNCHANGED <<controller, request, owned, reported, children>>

\* rlm.spawn returns: the child is owned from here on, even if the admission file or the
\* answer cannot be written and an error is answered instead.
Spawned ==
    /\ bridge = "spawning"
    /\ child' = [child EXCEPT ![serving.name] = "working"]
    /\ owned' = owned \cup {serving.name}
    /\ \/ Respond(serving, TRUE, "none") /\ UNCHANGED misreported
       \/ /\ "answer" \in Faults
          /\ Respond(serving, FALSE, "none")
          /\ misreported' = misreported \cup {serving.name}
    /\ UNCHANGED <<controller, request, serving, reported, result>>

\* The controller's own route, a route out of scope, or rlm.spawn raises.
SpawnRaises ==
    /\ bridge = "spawning"
    /\ Respond(serving, FALSE, "none")
    /\ UNCHANGED <<controller, request, serving, owned, reported, children>>

Deleted ==
    /\ bridge = "deleting"
    /\ \/ /\ child' = [child EXCEPT ![serving.name] = "deleted"]
          /\ owned' = owned \ {serving.name}
          /\ \/ Respond(serving, TRUE, "none")
             \/ "answer" \in Faults /\ Respond(serving, FALSE, "none")
       \/ /\ Respond(serving, FALSE, "none")         \* delete_subagent raises
          /\ UNCHANGED <<child, owned>>
    /\ UNCHANGED <<controller, request, serving, reported, result, misreported>>

\* Mutant: the children left over are the next operation's business.
Leftover_none == {}

\* The children the finally goes through.
Leftover == owned

\* The controller process is gone.
Stop ==
    /\ bridge = "poll" /\ ~Running
    /\ bridge' = "closing"
    /\ UNCHANGED <<controller, request, response, serving, owned, reported, children>>

Close ==
    /\ bridge = "closing"
    /\ \/ \E c \in Leftover :
             /\ owned' = owned \ {c}
             /\ \/ child' = [child EXCEPT ![c] = "deleted"] /\ UNCHANGED reported
                \/ reported' = c /\ UNCHANGED child
             /\ UNCHANGED bridge
       \/ /\ "cleanup" \in Faults /\ Leftover # {}   \* cleanup-error.json cannot be written
          /\ bridge' = "aborted"
          /\ UNCHANGED <<owned, child, reported>>
       \/ /\ Leftover = {}
          /\ bridge' = "closed"
          /\ UNCHANGED <<owned, child, reported>>
    /\ UNCHANGED <<controller, request, response, serving, result, misreported>>

\* A child ends its turn: with a valid answer, or with none that counts.
Settles(c) ==
    /\ child[c] = "working"
    /\ child' = [child EXCEPT ![c] = "settled"]
    /\ \E v \in {"ok"} \cup Failures : result' = [result EXCEPT ![c] = v]
    /\ UNCHANGED <<controller, request, response, kernel, misreported>>

-----------------------------------------------------------------------------
ControllerStep ==
    \/ Exclude \/ GiveUp \/ Healthy \/ Denied \/ Spawn
    \/ \E f \in Failures : Unhealthy(f)
    \/ SpawnTimesOut \/ SpawnRefused \/ SpawnRejected \/ SpawnAdmitted
    \/ CollectAgain \/ CollectFails \/ Succeed
    \/ Reaped \/ ReapUnconfirmed \/ Exit

BridgeStep == Take \/ Spawned \/ SpawnRaises \/ Deleted \/ Stop \/ Close

Next == ControllerStep \/ Killed \/ BridgeStep \/ \E c \in Numbers : Settles(c)

Spec == Init /\ [][Next]_vars

\* Every wait of the controller has a deadline; the bridge's loop and its calls into
\* the Prime runtime return.  Nothing makes a child settle.
FairSpec == Spec /\ WF_vars(ControllerStep) /\ WF_vars(BridgeStep)

-----------------------------------------------------------------------------
(* Properties. *)

Writers == {c \in Numbers : child[c] = "working"}

\* WorkerController: "one owned child at a time".
OneOwnedChild == Cardinality(Writers) <= 1

\* The same where the bridge reports what it admitted: late admissions, calls that time
\* out, crashes and lost answers never put a second writer beside a first.
OneWriter == Cardinality(Writers \ misreported) <= 1

\* A SUCCESS is the valid terminal of the child it names, and every other child whose
\* admission was reported is deleted by then (validate_terminal, "A timed-out writer must
\* be reaped before a replacement can write").
Delivered ==
    outcome.state = "SUCCESS" =>
        /\ result[outcome.child] = "ok"
        /\ \A c \in Numbers \ (misreported \cup {outcome.child}) :
              child[c] \in {"none", "deleted"}

\* When the controller is gone, however it went, the bridge deletes every child it owns, or
\* cleanup-error.json says that one is left ("Never leak an owned writer").  A second
\* deletion that fails replaces the name of the first; only when that file cannot be
\* written either does serve() leave children behind unnamed, and then it raises.
Reclaimed ==
    ~Running ~> \/ \A c \in Numbers : child[c] \in {"none", "deleted"}
                \/ reported # 0
                \/ bridge = "aborted"

\* The operation ends: no wait, poll or replacement goes on forever.
Ends == <>~Running
=============================================================================
