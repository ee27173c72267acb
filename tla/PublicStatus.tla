------------------------------ MODULE PublicStatus ------------------------------
(***************************************************************************)
(* GET /api/public/status: the projection of the activity that every       *)
(* waiting student polls.  Requests share a 50 ms cache and, when it has   *)
(* expired, one projection running in an executor thread                   *)
(* (public_status_refresh).                                                *)
(*                                                                         *)
(* Projections are numbered as they are submitted.  What one has read is   *)
(* the number of commits its snapshot includes.  The await is a pair of    *)
(* actions: the projection completes in its thread, and some time later    *)
(* the event loop resumes each waiter, which may have been cancelled in    *)
(* between.  There is one event loop and it runs callbacks in the order    *)
(* they were scheduled (the server runs with --workers 1).  The 50 ms of   *)
(* the cache are an Expire step that may come at any time.                 *)
(***************************************************************************)
EXTENDS Integers, FiniteSets

CONSTANTS
  Requests,       \* requests of one behaviour
  MaxCommits,     \* a bound on the commits of one behaviour
  Cancellation    \* TRUE iff request tasks may be cancelled

ASSUME StatusAssumption ==
  /\ IsFiniteSet(Requests)
  /\ MaxCommits \in Nat
  /\ Cancellation \in BOOLEAN

NoCache   == -1   \* public_status_cache is None
NotRead   == -1   \* a projection that has not read yet, a request without answer
NoRefresh == 0    \* public_status_refresh is None
Flights   == 1..Cardinality(Requests)   \* each request submits at most one

VARIABLES
  commits,   \* transactions committed so far
  cache,     \* commits seen by public_status_cache, or NoCache
  valid,     \* the cache entry's deadline has not passed
  refresh,   \* public_status_refresh
  launched,  \* projections submitted so far
  flight,    \* "none", "running", "done" or "failed" for each projection
  snapshot,  \* commits each projection has read
  state,     \* "new", "waiting", "answered", "failed" or "cancelled"
  awaits,    \* the projection a waiting request has joined
  answer,    \* commits seen by the answer of each request
  atLeast    \* history: what a request that arrived alone must see

shared   == <<cache, valid, refresh>>
thread   == <<launched, flight, snapshot>>
requests == <<state, awaits, answer, atLeast>>
vars     == <<commits, shared, thread, requests>>

Init ==
  /\ commits = 0
  /\ cache = NoCache /\ valid = FALSE /\ refresh = NoRefresh
  /\ launched = 0
  /\ flight = [f \in Flights |-> "none"]
  /\ snapshot = [f \in Flights |-> NotRead]
  /\ state = [r \in Requests |-> "new"]
  /\ awaits = [r \in Requests |-> NoRefresh]
  /\ answer = [r \in Requests |-> NotRead]
  /\ atLeast = [r \in Requests |-> 0]

-----------------------------------------------------------------------------
(* The section under public_status_cache_lock at the start of a request. *)

AnswerFromCache(r) ==
  /\ state[r] = "new"
  /\ valid
  /\ state' = [state EXCEPT ![r] = "answered"]
  /\ answer' = [answer EXCEPT ![r] = cache]
  /\ UNCHANGED <<commits, shared, thread, awaits, atLeast>>

\* A request that finds no other one at work has every commit so far to show.
Arrive(r) ==
  /\ state' = [state EXCEPT ![r] = "waiting"]
  /\ atLeast' = [atLeast EXCEPT ![r] =
                   IF \E o \in Requests : state[o] = "waiting" THEN 0 ELSE commits]
  /\ UNCHANGED <<commits, cache, valid, snapshot, answer>>

Launch(r) ==
  /\ Arrive(r)
  /\ launched' = launched + 1
  /\ refresh' = launched'
  /\ awaits' = [awaits EXCEPT ![r] = launched']
  /\ flight' = [flight EXCEPT ![launched'] = "running"]

\* Slip, for the runs on mutated code: a running refresh is not looked for.
StartAnother(r) ==
  /\ state[r] = "new"
  /\ ~valid
  /\ Launch(r)
StartRefresh(r) ==
  /\ state[r] = "new"
  /\ ~valid
  /\ refresh = NoRefresh
  /\ Launch(r)

JoinRefresh(r) ==
  /\ state[r] = "new"
  /\ ~valid
  /\ refresh # NoRefresh
  /\ Arrive(r)
  /\ awaits' = [awaits EXCEPT ![r] = refresh]
  /\ UNCHANGED <<refresh, launched, flight>>

-----------------------------------------------------------------------------
(* The executor thread: the snapshot of the read transaction, then the end. *)

Read(f) ==
  /\ flight[f] = "running"
  /\ snapshot[f] = NotRead
  /\ snapshot' = [snapshot EXCEPT ![f] = commits]
  /\ UNCHANGED <<commits, shared, launched, flight, requests>>

Complete(f) ==
  /\ flight[f] = "running"
  /\ snapshot[f] # NotRead
  /\ flight' = [flight EXCEPT ![f] = "done"]
  /\ UNCHANGED <<commits, shared, launched, snapshot, requests>>

Fail(f) ==
  /\ flight[f] = "running"
  /\ flight' = [flight EXCEPT ![f] = "failed"]
  /\ UNCHANGED <<commits, shared, launched, snapshot, requests>>

-----------------------------------------------------------------------------
(* The event loop resumes a waiter. *)

\* Slip, for the runs on mutated code: the cache is filled and the refresh kept.
PublishKeepingRefresh(f) ==
  IF refresh = f
  THEN cache' = snapshot[f] /\ valid' = TRUE /\ refresh' = refresh
  ELSE UNCHANGED shared
\* The first waiter of the current refresh stores it and makes room for another.
Publish(f) ==
  IF refresh = f
  THEN cache' = snapshot[f] /\ valid' = TRUE /\ refresh' = NoRefresh
  ELSE UNCHANGED shared

\* Waiters of an earlier projection were scheduled before those of a later one,
\* which is submitted only after the earlier one is done.
Foremost(r) ==
  \A o \in Requests :
    state[o] = "waiting" /\ awaits[o] < awaits[r] => flight[awaits[o]] = "running"

\* Slip, for the runs on mutated code: only waiters of the current refresh resume.
ResumeCurrentOnly(r) ==
  /\ state[r] = "waiting"
  /\ flight[awaits[r]] = "done"
  /\ Foremost(r)
  /\ refresh = awaits[r]
  /\ Publish(refresh)
  /\ state' = [state EXCEPT ![r] = "answered"]
  /\ answer' = [answer EXCEPT ![r] = cache']
  /\ UNCHANGED <<commits, thread, awaits, atLeast>>
\* The answer is what the cache holds then, whoever stored it.
Resume(r) ==
  /\ state[r] = "waiting"
  /\ flight[awaits[r]] = "done"
  /\ Foremost(r)
  /\ Publish(awaits[r])
  /\ state' = [state EXCEPT ![r] = "answered"]
  /\ answer' = [answer EXCEPT ![r] = IF cache' = NoCache
                                     THEN snapshot[awaits[r]] ELSE cache']
  /\ UNCHANGED <<commits, thread, awaits, atLeast>>

\* Slip, for the runs on mutated code: a refresh is given up while it runs.
WithdrawRunning(f) == refresh' = IF refresh = f THEN NoRefresh ELSE refresh
\* The exception path gives the refresh up only once it is done.
Withdraw(f) ==
  refresh' = IF refresh = f /\ flight[f] \in {"done", "failed"} THEN NoRefresh ELSE refresh

ResumeFailed(r) ==
  /\ state[r] = "waiting"
  /\ flight[awaits[r]] = "failed"
  /\ Foremost(r)
  /\ Withdraw(awaits[r])
  /\ state' = [state EXCEPT ![r] = "failed"]
  /\ UNCHANGED <<commits, cache, valid, thread, awaits, answer, atLeast>>

Cancel(r) ==
  /\ Cancellation
  /\ state[r] = "waiting"
  /\ Withdraw(awaits[r])
  /\ state' = [state EXCEPT ![r] = "cancelled"]
  /\ UNCHANGED <<commits, cache, valid, thread, awaits, answer, atLeast>>

-----------------------------------------------------------------------------

Commit ==
  /\ commits < MaxCommits
  /\ commits' = commits + 1
  /\ UNCHANGED <<shared, thread, requests>>

Expire ==
  /\ valid
  /\ valid' = FALSE
  /\ UNCHANGED <<commits, cache, refresh, thread, requests>>

\* The last lifespan ends: no request is left, and the cache is dropped.
Shutdown ==
  /\ \A r \in Requests : state[r] # "waiting"
  /\ cache # NoCache \/ refresh # NoRefresh
  /\ cache' = NoCache /\ valid' = FALSE /\ refresh' = NoRefresh
  /\ flight' = [f \in Flights |-> IF flight[f] = "running" THEN "failed" ELSE flight[f]]
  /\ UNCHANGED <<commits, launched, snapshot, requests>>

Executor(f) == Read(f) \/ Complete(f) \/ Fail(f)
Loop(r)     == Resume(r) \/ ResumeFailed(r)

Next ==
  \/ \E r \in Requests :
       AnswerFromCache(r) \/ StartRefresh(r) \/ JoinRefresh(r) \/ Loop(r) \/ Cancel(r)
  \/ \E f \in Flights : Executor(f)
  \/ Commit \/ Expire \/ Shutdown

Spec == Init /\ [][Next]_vars

\* Executor threads finish their reads, and the event loop resumes who waits.
FairSpec == 
  /\ Spec
  /\ \A f \in Flights : WF_vars(Executor(f))
  /\ \A r \in Requests : WF_vars(Loop(r))

-----------------------------------------------------------------------------
(* What must hold. *)

\* Types, and: a waiting request awaits a projection that was submitted.
TypeOK ==
  /\ commits \in 0..MaxCommits
  /\ cache \in {NoCache} \cup 0..commits
  /\ valid \in BOOLEAN /\ (valid => cache # NoCache)
  /\ refresh \in 0..launched
  /\ launched \in 0..Cardinality({r \in Requests : state[r] # "new"})
  /\ flight \in [Flights -> {"none", "running", "done", "failed"}]
  /\ snapshot \in [Flights -> {NotRead} \cup 0..commits]
  /\ state \in [Requests -> {"new", "waiting", "answered", "failed", "cancelled"}]
  /\ awaits \in [Requests -> 0..launched]
  /\ answer \in [Requests -> {NotRead} \cup 0..commits]
  /\ atLeast \in [Requests -> 0..commits]
  /\ \A r \in Requests : state[r] = "waiting" => awaits[r] # NoRefresh

\* "Status projections remain single-flight" (the executor's comment): however
\* waiters come, go and are cancelled, one projection runs at a time.
SingleFlight ==
  \A f, g \in Flights : flight[f] = "running" /\ flight[g] = "running" => f = g

\* The phase never runs backwards: within one lifespan an answer is never older
\* than one that any client was given before it.
MonotonicAnswers ==
  [][\A r, o \in Requests :
       state'[r] = "answered" /\ state[r] # "answered" /\ state[o] = "answered"
         => answer'[r] >= answer[o]]_vars

\* A request that found the cache expired, with nobody else at work on a new
\* snapshot, may answer with an older one only when the projection it joined had
\* been left behind by a waiter that was cancelled.
StaleOnlyAfterCancel ==
  \A r \in Requests :
    state[r] = "answered" /\ awaits[r] # NoRefresh =>
      \/ answer[r] >= atLeast[r]
      \/ \E o \in Requests : state[o] = "cancelled" /\ awaits[o] = awaits[r]

\* "The shared snapshot lives for only 50 ms": a request that finds it expired,
\* with nobody else at work on a new one, answers with all that was committed
\* before it arrived.
AloneSeesCommitted ==
  \A r \in Requests : state[r] = "answered" /\ awaits[r] # NoRefresh => answer[r] >= atLeast[r]

\* Nobody waits for ever: not for a projection that failed, whose submitter was
\* cancelled, or that somebody else has already collected.
EveryWaiterIsAnswered ==
  \A r \in Requests : state[r] = "waiting" ~> state[r] # "waiting"
=============================================================================
