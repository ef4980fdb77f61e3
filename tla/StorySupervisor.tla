--------------------------- MODULE StorySupervisor ---------------------------
(***************************************************************************)
(* The external Prime supervisor (scripts/prime_supervisor.py) with the    *)
(* multi-story admission of supervisor_admission.py, story_footprint.py    *)
(* and concurrency_governor.py: several supervisor processes share one     *)
(* state directory.  Each fences the writers of earlier supervisors, asks  *)
(* for admission and then runs bounded attempts, each a client process and *)
(* a daemon session that writes the repository.                            *)
(*                                                                         *)
(* With VERDICT_MULTI_STORY off, supervisor.lock is held for the whole run *)
(* and all sessions live in one directory.  With it on, supervisor.lock    *)
(* covers fence and admission only, a lock per story covers the run, and   *)
(* each story has a session directory of its own.  Locks go with their     *)
(* process; sessions and clients do not.                                   *)
(*                                                                         *)
(* Abstracted: route selection, prompts, receipts, cooldowns.  A footprint *)
(* is a set of declared entries (authorities count as files), empty when   *)
(* unknown or invalid; what an entry's text matches and what is written    *)
(* under it are two things.  Deadlines may pass in any wait.  The Prime    *)
(* daemon is external: a stop it confirms is final, and a killed client    *)
(* submits no session.                                                     *)
(***************************************************************************)
EXTENDS Naturals, FiniteSets

CONSTANTS
    Supervisors,  \* supervisor processes, one invocation each
    Stories,      \* what --story may name
    Footprints,   \* declared sets of entries, {} for an unknown one
    Kind,         \* of an entry: a file, a directory with or without its slash, or a glob
    Covers,       \* entries whose text is below a directory with a slash, or matches a glob
    Writes,       \* files that a story may write under an entry
    Caps,         \* what SupervisorGovernorConfig.max_stories may be
    MaxRestarts,  \* --max-restarts
    NoOne         \* a free lock

ASSUME SupervisorAssumption ==
    /\ IsFiniteSet(Stories)
    /\ {} \in Footprints
    /\ Caps \subseteq Nat \ {0} /\ MaxRestarts \in Nat
    /\ NoOne \notin Supervisors

-----------------------------------------------------------------------------
(* Footprints. *)

Entries == UNION Footprints

\* _paths_overlap: the same text, or one covers the other.
Overlap(d, e) == d = e \/ d \in Covers[e] \/ e \in Covers[d]

\* Where comparing texts tells what is written: a file against a file, a directory with its
\* slash or a glob, and two such directories.  Not two globs, a glob and a directory, or a
\* directory without its slash.
Comparable(d, e) ==
    \/ "file" \in {Kind[d], Kind[e]} /\ "bare" \notin {Kind[d], Kind[e]}
    \/ Kind[d] = "dir" /\ Kind[e] = "dir"

ASSUME FootprintAssumption ==
    /\ Kind \in [Entries -> {"file", "dir", "bare", "glob"}]
    /\ Covers \in [Entries -> SUBSET Entries]
    /\ \A e \in Entries : Covers[e] # {} => Kind[e] \in {"dir", "glob"}
    /\ \A d, e \in Entries :
          Comparable(d, e) /\ Writes[d] \cap Writes[e] # {} => Overlap(d, e)

\* Mutant: only equal texts collide.
Collide_literal(f, g) == f = {} \/ g = {} \/ f \cap g # {}

\* collide: an unknown footprint serializes.
Collide(f, g) == f = {} \/ g = {} \/ \E d \in f, e \in g : Overlap(d, e)

-----------------------------------------------------------------------------

Sessions == Supervisors \X (1 .. MaxRestarts + 1)   \* an attempt's session directory

VARIABLES
    multi,    \* VERDICT_MULTI_STORY
    cap,      \* max_stories
    asks,     \* the story of each supervisor
    pc,
    master,   \* the holder of supervisor.lock
    holder,   \* the holder of each story lock
    wants,    \* the footprint a supervisor is admitted with, later in its story's lock file
    fence,    \* session directories it has still to fence
    attempts, \* attempts started
    result,   \* how the current attempt ended
    client,   \* the client process of the current attempt runs
    live,     \* sessions that the daemon reports as live
    late,     \* history, flag off: sessions of a killed supervisor that began under the next one
    missed,   \* history: the running stories that a supervisor's admission did not see
    overlooked \* history: the stories that any admission did not see

setup == <<multi, cap, asks>>
own  == <<master, holder, wants, fence, result, missed>>   \* gone with its process
run  == <<attempts, client, live, late, overlooked>>
vars == <<setup, pc, own, run>>

Gone    == {"ended", "killed"}
Running == {"run", "verify", "watch", "stop", "settle"}

TypeOK ==
    /\ multi \in BOOLEAN /\ cap \in Caps
    /\ asks \in [Supervisors -> Stories]
    /\ pc \in [Supervisors -> {"start", "fence", "evaluate", "claim"} \cup Running \cup Gone]
    /\ master \in Supervisors \cup {NoOne}
    /\ holder \in [Stories -> Supervisors \cup {NoOne}]
    /\ wants \in [Supervisors -> Footprints]
    /\ fence \in [Supervisors -> SUBSET Sessions]
    /\ attempts \in [Supervisors -> 0 .. MaxRestarts + 1]
    /\ result \in [Supervisors -> {"none", "ok", "failed", "raised"}]
    /\ client \in [Supervisors -> BOOLEAN]
    /\ live \subseteq Sessions /\ late \subseteq Sessions
    /\ missed \in [Supervisors -> SUBSET Stories] /\ overlooked \subseteq Stories

Init ==
    /\ multi \in BOOLEAN /\ cap \in Caps
    /\ asks \in [Supervisors -> Stories]
    /\ pc = [p \in Supervisors |-> "start"]
    /\ master = NoOne
    /\ holder = [s \in Stories |-> NoOne]
    /\ wants = [p \in Supervisors |-> {}]
    /\ fence = [p \in Supervisors |-> {}]
    /\ attempts = [p \in Supervisors |-> 0]
    /\ result = [p \in Supervisors |-> "none"]
    /\ client = [p \in Supervisors |-> FALSE]
    /\ live = {} /\ late = {}
    /\ missed = [p \in Supervisors |-> {}] /\ overlooked = {}

-----------------------------------------------------------------------------
(* Locks. *)

At(p, where)   == pc[p] = where
Goto(p, where) == pc' = [pc EXCEPT ![p] = where]

\* What a process holds is free when it leaves, and what it knew is lost.
Released(p) ==
    /\ master' = IF master = p THEN NoOne ELSE master
    /\ holder' = [s \in Stories |-> IF holder[s] = p THEN NoOne ELSE holder[s]]
    /\ wants'  = [wants EXCEPT ![p] = {}]
    /\ fence'  = [fence EXCEPT ![p] = {}]
    /\ result' = [result EXCEPT ![p] = "none"]
    /\ missed' = [missed EXCEPT ![p] = {}]

Leave(p) == Goto(p, "ended") /\ Released(p)

\* The session directories below this supervisor's state directory.
Directory(p) ==
    {s \in Sessions : s[2] <= attempts[s[1]] /\ (multi => asks[s[1]] = asks[p])}

Current(p) == <<p, attempts[p]>>

\* A session that is live ends, and its client with it; one still to come is not affected.
Stopped(s) ==
    /\ live' = live \ {s}
    /\ client' = [client EXCEPT ![s[1]] = @ /\ ~(s \in live /\ Current(s[1]) = s)]

\* The directories to fence are listed once.
Takes(p) ==
    /\ master' = p
    /\ fence' = [fence EXCEPT ![p] = Directory(p)]
    /\ Goto(p, "fence")
    /\ UNCHANGED <<holder, wants, result, missed>>

\* Mutant: without the supervisor lock.
Start_unlocked(p) ==
    /\ At(p, "start")
    /\ Takes(p)
    /\ UNCHANGED <<setup, run>>

\* acquire_lock on supervisor.lock, without blocking.
Start(p) ==
    /\ At(p, "start")
    /\ IF master = NoOne THEN Takes(p) ELSE Leave(p)
    /\ UNCHANGED <<setup, run>>

-----------------------------------------------------------------------------
(* Fence and admission. *)

\* Mutant: previous sessions are taken to be over.
FenceOne_skipped(p) ==
    /\ At(p, "fence") /\ fence[p] # {}
    /\ fence' = [fence EXCEPT ![p] = {}]
    /\ UNCHANGED <<setup, pc, master, holder, wants, result, missed, run>>

\* stop_owned_daemon on one directory: what is live is stopped and seen to be gone.
FenceOne(p) ==
    /\ At(p, "fence")
    /\ \E s \in fence[p] :
          /\ fence' = [fence EXCEPT ![p] = @ \ {s}]
          /\ Stopped(s)
    /\ UNCHANGED <<setup, pc, master, holder, wants, result, missed, attempts, late, overlooked>>

\* The roster is malformed, a stop fails, or a writer is still live after forty seconds.
FenceFails(p) ==
    /\ At(p, "fence") /\ fence[p] # {}
    /\ Leave(p)
    /\ UNCHANGED <<setup, run>>

\* With the flag off there is no admission: the run goes on under supervisor.lock.
Fenced(p) ==
    /\ At(p, "fence") /\ fence[p] = {}
    /\ Goto(p, IF multi THEN "evaluate" ELSE "run")
    /\ UNCHANGED <<setup, own, run>>

\* The stories whose lock is held.
RunningStories == {s \in Stories : holder[s] # NoOne}

\* governor.admit at pressure 0: a story that runs is admitted, others up to the caps.
Governed(s, seen) == s \in seen \/ Cardinality(seen) < cap

\* evaluate_admission against the stories that were seen to run.
Admissible(p, f, seen) ==
    /\ \A s \in seen : ~Collide(f, wants[holder[s]])
    /\ Governed(asks[p], seen)

\* With the footprint the checkpoint declares.  read_running_stories finds the held locks,
\* but for those it fails to open or try (except OSError: continue).
EvaluateAdmission(p, f, unread) ==
    /\ At(p, "evaluate")
    /\ Admissible(p, f, RunningStories \ unread)
    /\ Goto(p, "claim")
    /\ wants' = [wants EXCEPT ![p] = f]
    /\ missed' = [missed EXCEPT ![p] = unread]
    /\ overlooked' = overlooked \cup unread
    /\ UNCHANGED <<setup, master, holder, fence, result, attempts, client, live, late>>

\* EXCLUDED, WAIT, SERIALIZE, DEFER; or the checkpoint names another story.
Deferred(p) ==
    /\ At(p, "evaluate")
    /\ Leave(p)
    /\ UNCHANGED <<setup, run>>

\* acquire_story_lock without blocking and the metadata; supervisor.lock is let go.
ClaimStory(p) ==
    /\ At(p, "claim")
    /\ IF holder[asks[p]] = NoOne
       THEN /\ holder' = [holder EXCEPT ![asks[p]] = p]
            /\ master' = IF master = p THEN NoOne ELSE master
            /\ Goto(p, "run")
            /\ UNCHANGED <<wants, fence, result, missed>>
       ELSE Leave(p)
    /\ UNCHANGED <<setup, run>>

-----------------------------------------------------------------------------
(* recover and the attempts. *)

\* A decision is resolved and the client started in a new session directory.
Launch(p) ==
    /\ At(p, "run")
    /\ attempts' = [attempts EXCEPT ![p] = @ + 1]
    /\ client' = [client EXCEPT ![p] = TRUE]
    /\ Goto(p, "verify")
    /\ UNCHANGED <<setup, own, live, late, overlooked>>

\* No route, no compiled prompt, settings that retry: the run ends here.
LaunchBlocked(p) ==
    /\ At(p, "run")
    /\ Leave(p)
    /\ UNCHANGED <<setup, run>>

\* The startup identity, read from the roster.
IdentityVerified(p) ==
    /\ At(p, "verify") /\ Current(p) \in live
    /\ Goto(p, "watch")
    /\ UNCHANGED <<setup, own, run>>

\* stop_group: the client is gone, the daemon's session perhaps not.
EndAttempt(p, r) ==
    /\ result' = [result EXCEPT ![p] = r]
    /\ client' = [client EXCEPT ![p] = FALSE]
    /\ Goto(p, "stop")
    /\ UNCHANGED <<setup, master, holder, wants, fence, missed, attempts, live, late, overlooked>>

\* No or another identity in time, or SIGTERM.
Raises(p) == (At(p, "verify") \/ At(p, "watch")) /\ EndAttempt(p, "raised")

\* The client exits with code 0.
Exits(p) == At(p, "watch") /\ EndAttempt(p, "ok")

\* Another exit code, no progress, the deadline.
Fails(p) == At(p, "watch") /\ EndAttempt(p, "failed")

\* stop_owned_daemon on the attempt's own directory.
StopOwned(p) ==
    /\ At(p, "stop")
    /\ live' = live \ {Current(p)}
    /\ IF result[p] = "raised" THEN Leave(p) ELSE Goto(p, "settle") /\ UNCHANGED own
    /\ UNCHANGED <<setup, attempts, client, late, overlooked>>

\* "owned daemon worker still live; redispatch prohibited".
StopFails(p) ==
    /\ At(p, "stop")
    /\ Leave(p)
    /\ UNCHANGED <<setup, run>>

Again(p) ==
    /\ Goto(p, "run")
    /\ result' = [result EXCEPT ![p] = "none"]
    /\ UNCHANGED <<master, holder, wants, fence, missed>>

\* Mutant: one restart too many.
Settle_off_by_one(p) ==
    /\ At(p, "settle")
    /\ \/ result[p] = "ok" /\ Leave(p)
       \/ attempts[p] <= MaxRestarts + 1 /\ Again(p)
       \/ attempts[p] > MaxRestarts + 1 /\ Leave(p)
    /\ UNCHANGED <<setup, run>>

\* recover: STOPPED, a deliberate BLOCKED, another attempt, or BLOCKED when they are used
\* up.  An exit without a valid outcome.json is a failed attempt.
Settle(p) ==
    /\ At(p, "settle")
    /\ \/ result[p] = "ok" /\ Leave(p)
       \/ attempts[p] <= MaxRestarts /\ Again(p)
       \/ attempts[p] > MaxRestarts /\ Leave(p)
    /\ UNCHANGED <<setup, run>>

-----------------------------------------------------------------------------
(* Processes and the daemon. *)

\* SIGTERM before the first attempt or between two: everything is given back.
Interrupted(p) ==
    /\ pc[p] \in {"fence", "evaluate", "claim", "run", "settle"}
    /\ Leave(p)
    /\ UNCHANGED <<setup, run>>

\* SIGKILL: the client, in its own session, goes on.
Killed(p) ==
    /\ pc[p] \notin {"start"} \cup Gone
    /\ Goto(p, "killed") /\ Released(p)
    /\ UNCHANGED <<setup, run>>

\* The client submits its prompt: the daemon has a live session.
SessionBegins(p) ==
    /\ client[p] /\ pc[p] \in {"verify", "killed"}
    /\ Current(p) \notin live
    /\ live' = live \cup {Current(p)}
    /\ late' = IF ~multi /\ At(p, "killed") /\ master # NoOne THEN late \cup {Current(p)} ELSE late
    /\ UNCHANGED <<setup, pc, own, attempts, client, overlooked>>

SessionEnds(s) ==
    /\ s \in live
    /\ Stopped(s)
    /\ UNCHANGED <<setup, pc, own, attempts, late, overlooked>>

-----------------------------------------------------------------------------
SupervisorStep(p) ==
    \/ Start(p) \/ FenceOne(p) \/ FenceFails(p) \/ Fenced(p)
    \/ \E f \in Footprints, unread \in SUBSET RunningStories : EvaluateAdmission(p, f, unread)
    \/ Deferred(p) \/ ClaimStory(p)
    \/ Launch(p) \/ LaunchBlocked(p) \/ IdentityVerified(p)
    \/ Raises(p) \/ Exits(p) \/ Fails(p)
    \/ StopOwned(p) \/ StopFails(p) \/ Settle(p)

Next ==
    \/ \E p \in Supervisors :
          SupervisorStep(p) \/ Interrupted(p) \/ Killed(p) \/ SessionBegins(p)
    \/ \E s \in Sessions : SessionEnds(s)

Spec == Init /\ [][Next]_vars

-----------------------------------------------------------------------------
(* Properties. *)

\* The writers that a running supervisor watches.
Supervised == {s \in live : pc[s[1]] \in Running}

\* One of two supervisors was admitted without seeing that the other's story runs.
Unseen(p, q) == asks[p] \in missed[q] \/ asks[q] \in missed[p]

\* Two supervised writers work on different stories (ADR-037), and with the flag off there is
\* only one, whatever processes were killed between the admission's steps.  Their
\* footprints are known and no file is in both, except under entries whose texts do not tell
\* (overlapping globs that do not match each other, which collide finds disjoint) and
\* except when the lock of one could not be read at the admission of the other.
WritersApart ==
    \A s, t \in Supervised :
        s # t =>
            /\ multi /\ asks[s[1]] # asks[t[1]]
            /\ ~Unseen(s[1], t[1]) =>
                  /\ {} \notin {wants[s[1]], wants[t[1]]}
                  /\ \A d \in wants[s[1]], e \in wants[t[1]] :
                        Comparable(d, e) => Writes[d] \cap Writes[e] = {}

\* "Recover daemon writers left by a previous hard-killed supervisor": with the flag off,
\* no writer of another supervisor is live once the fence is passed, except one whose
\* client, left behind by a kill, submitted it while the fence was already being built.
FencedOff ==
    \A p \in Supervisors :
        ~multi /\ pc[p] \in Running => \A s \in live \ late : s[1] = p

\* Never more stories than the governor's cap, however admissions, takeovers and kills
\* overlap, but for those whose lock an admission could not read.
WithinCap == Cardinality(RunningStories \ overlooked) <= cap

\* The fence is for "writers left by a previous hard-killed supervisor": it ends no session
\* whose supervisor is running.
FenceSparesLive ==
    [][\A p \in Supervisors :
          At(p, "fence") /\ fence'[p] # fence[p] /\ pc'[p] = "fence"
              => live \ live' \subseteq {s \in Sessions : pc[s[1]] \in Gone}]_vars
=============================================================================
