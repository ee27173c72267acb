------------------------------ MODULE BatchWriter ------------------------------
(***************************************************************************)
(* SQLiteBatchWriter of server/write_batch.py: the bounded priority queue  *)
(* in front of the one writer thread, which runs each job under a          *)
(* savepoint of a shared transaction and answers the jobs of a batch only  *)
(* after that transaction committed.                                       *)
(*                                                                         *)
(* Actors: the event loop (Submit, Deliver, Abandon), the writer thread    *)
(* (TakeBatch to Exit), the application lifespan (Close..., Open) and the  *)
(* operating system (Crash).  Each action is a section the code runs under *)
(* self._condition, or a step of _process_batch that other threads cannot  *)
(* see into.                                                               *)
(*                                                                         *)
(* The heap orders jobs by (priority, sequence); the queue is the set of   *)
(* queued jobs with that order on it.  The batch window lets the writer    *)
(* take a batch at any moment while jobs are queued.  What a job does is   *)
(* left open: its callback returns or raises.                              *)
(***************************************************************************)
EXTENDS Integers, FiniteSets

CONSTANTS
  Jobs,          \* write requests; each is submitted at most once
  Priority,      \* 0 for seat claims, 5 for logins, 10 for heartbeats
  BatchSize,     \* batch_size
  QueueLimit,    \* queue_limit
  PriorityReserve,  \* the priority_reserve argument
  Impatient,     \* requests whose caller may be cancelled (a bound)
  MaxCrashes     \* a bound on the crashes of one behaviour

ASSUME WriterAssumption ==
  /\ IsFiniteSet(Jobs)
  /\ Priority \in [Jobs -> Nat]
  /\ BatchSize \in Nat \ {0}
  /\ QueueLimit \in Nat /\ QueueLimit >= 2 * BatchSize
  /\ PriorityReserve \in Nat \ {0}
  /\ Impatient \subseteq Jobs
  /\ MaxCrashes \in Nat

VARIABLES
  accepting,   \* self._accepting
  sequence,    \* self._sequence
  arrived,     \* sequence number of each admitted job, 0 before
  queue,       \* jobs in self._queue
  handle,      \* self._thread is not None
  writer,      \* where the thread is
  active,      \* the batch being processed, counted by self._active_jobs
  run,         \* jobs of the batch whose callback has been called
  good,        \* jobs of the batch whose savepoint was released
  failed,      \* the batch ended in batch_error
  durable,     \* jobs whose effect is committed in the database
  result,      \* what a job's future holds
  reply,       \* what the caller of the job has been told
  closing,     \* close() waits in thread.join
  crashes

lifecycle == <<accepting, handle, closing, crashes>>
batch     == <<active, run, good, failed>>
vars      == <<lifecycle, sequence, arrived, queue, writer, batch, durable, result, reply>>

-----------------------------------------------------------------------------

Larger(a, b)  == IF a >= b THEN a ELSE b
Smaller(a, b) == IF a <= b THEN a ELSE b
\* Slots that only priority 0 may use (the constructor's arithmetic).
Reserve == Larger(BatchSize, Smaller(PriorityReserve, Larger(1, QueueLimit \div 4)))

Claims == {j \in Jobs : Priority[j] = 0}

\* Slip, for the runs on mutated code: jobs of one priority come out in any order.
BeforeByPriorityOnly(a, b) == Priority[a] <= Priority[b]
\* The heap order: priority first, arrival within a priority.
Before(a, b) ==
  \/ Priority[a] < Priority[b]
  \/ Priority[a] = Priority[b] /\ arrived[a] < arrived[b]

\* Slip, for the runs on mutated code: a batch counts no more once it is taken.
PendingQueuedOnly == Cardinality(queue)
Pending == Cardinality(queue) + Cardinality(active)

\* Slip, for the runs on mutated code: claims respect the reserve too.
AdmissionLimitReservedForNobody(j) == QueueLimit - Reserve
AdmissionLimit(j) == IF Priority[j] = 0 THEN QueueLimit ELSE QueueLimit - Reserve

Init ==
  /\ accepting = TRUE
  /\ handle = FALSE
  /\ closing = FALSE
  /\ crashes = 0
  /\ sequence = 0
  /\ arrived = [j \in Jobs |-> 0]
  /\ queue = {}
  /\ writer = "absent"
  /\ active = {} /\ run = {} /\ good = {} /\ failed = FALSE
  /\ durable = {}
  /\ result = [j \in Jobs |-> "none"]
  /\ reply = [j \in Jobs |-> "none"]

-----------------------------------------------------------------------------
(* The event loop: _enqueue and submit_async. *)

\* A job goes into the queue, whose first job also starts the thread.
Enqueue(j, rest) ==
  /\ sequence' = sequence + 1
  /\ arrived' = [arrived EXCEPT ![j] = sequence + 1]
  /\ queue' = rest \cup {j}
  /\ reply' = [reply EXCEPT ![j] = "awaiting"]
  /\ handle' = TRUE
  /\ writer' = IF handle THEN writer ELSE "waiting"
  /\ UNCHANGED <<accepting, closing, crashes, batch, durable>>

Refuse(j, answer) ==
  /\ reply' = [reply EXCEPT ![j] = answer]
  /\ UNCHANGED <<lifecycle, sequence, arrived, queue, writer, batch, durable, result>>

SubmitToClosed(j) ==
  /\ reply[j] = "none"
  /\ ~accepting
  /\ Refuse(j, "closed")

Submit(j) ==
  /\ reply[j] = "none"
  /\ accepting
  /\ Pending < AdmissionLimit(j)
  /\ Enqueue(j, queue)
  /\ UNCHANGED result

\* The queued job a claim may displace: the last in heap order, not a claim.
IsVictim(v) ==
  /\ v \in queue
  /\ Priority[v] > 0
  /\ \A w \in queue : w = v \/ Before(w, v)

SubmitDisplacing(j, v) ==
  /\ reply[j] = "none"
  /\ accepting
  /\ Priority[j] = 0
  /\ Pending >= QueueLimit
  /\ IsVictim(v)
  /\ result' = [result EXCEPT ![v] = "evicted"]
  /\ Enqueue(j, queue \ {v})

SubmitToFull(j) ==
  /\ reply[j] = "none"
  /\ accepting
  /\ Pending >= AdmissionLimit(j)
  /\ ~(Priority[j] = 0 /\ Pending >= QueueLimit /\ \E v \in queue : IsVictim(v))
  /\ Refuse(j, "full")

\* The callback scheduled with call_soon_threadsafe resolves the future and the
\* awaiting request reads it.
Deliver(j) ==
  /\ reply[j] = "awaiting"
  /\ result[j] # "none"
  /\ Refuse(j, result[j])

\* The HTTP request is cancelled; the shielded job stays where it is.
Abandon(j) ==
  /\ j \in Impatient
  /\ reply[j] = "awaiting"
  /\ Refuse(j, "gone")

-----------------------------------------------------------------------------
(* The writer thread: _run and _process_batch. *)

\* The first BatchSize jobs in heap order, or all when there are fewer.
IsNextBatch(jobs) ==
  /\ jobs \subseteq queue
  /\ Cardinality(jobs) = Smaller(BatchSize, Cardinality(queue))
  /\ \A a \in jobs, b \in queue \ jobs : Before(a, b)

TakeBatch ==
  /\ writer = "waiting"
  /\ queue # {}
  /\ \E jobs \in SUBSET queue :
       /\ IsNextBatch(jobs)
       /\ active' = jobs
       /\ queue' = queue \ jobs
  /\ writer' = "working"
  /\ UNCHANGED <<lifecycle, sequence, arrived, run, good, failed, durable, result, reply>>

\* One callback under its savepoint: released when it returns, rolled back when
\* it raises.
RunJob(j, ok) ==
  /\ writer = "working"
  /\ j \in active \ run
  /\ \A k \in active \ run : k = j \/ Before(j, k)
  /\ run' = run \cup {j}
  /\ good' = IF ok THEN good \cup {j} ELSE good
  /\ UNCHANGED <<lifecycle, sequence, arrived, queue, writer, active, failed, durable,
                 result, reply>>

Commit ==
  /\ writer = "working"
  /\ run = active
  /\ durable' = durable \cup good
  /\ writer' = "resolving"
  /\ UNCHANGED <<lifecycle, sequence, arrived, queue, batch, result, reply>>

\* connect, BEGIN IMMEDIATE, a savepoint statement or the commit raises.
FailBatch ==
  /\ writer = "working"
  /\ failed' = TRUE
  /\ writer' = "resolving"
  /\ UNCHANGED <<lifecycle, sequence, arrived, queue, active, run, good, durable,
                 result, reply>>

\* Slip, for the runs on mutated code: a failed batch answers like a committed one.
OutcomeIgnoringBatchError(j) == IF j \in good THEN "ok" ELSE "rejected"
\* batch_error answers every job of the batch, whatever its callback did.
Outcome(j) ==
  IF failed THEN "error" ELSE IF j \in good THEN "ok" ELSE "rejected"

ResolveJob(j) ==
  /\ writer = "resolving"
  /\ j \in active
  /\ result[j] = "none"
  /\ \A k \in active : result[k] = "none" => k = j \/ Before(j, k)
  /\ result' = [result EXCEPT ![j] = Outcome(j)]
  /\ UNCHANGED <<lifecycle, sequence, arrived, queue, writer, batch, durable, reply>>

FinishBatch ==
  /\ writer = "resolving"
  /\ \A j \in active : result[j] # "none"
  /\ active' = {} /\ run' = {} /\ good' = {} /\ failed' = FALSE
  /\ writer' = "waiting"
  /\ UNCHANGED <<lifecycle, sequence, arrived, queue, durable, result, reply>>

\* Slip, for the runs on mutated code: the thread leaves as soon as close was called.
ExitWithoutDraining ==
  /\ writer = "waiting"
  /\ ~accepting
  /\ writer' = "exited"
  /\ UNCHANGED <<lifecycle, sequence, arrived, queue, batch, durable, result, reply>>
Exit ==
  /\ writer = "waiting"
  /\ ~accepting
  /\ queue = {}
  /\ writer' = "exited"
  /\ UNCHANGED <<lifecycle, sequence, arrived, queue, batch, durable, result, reply>>

-----------------------------------------------------------------------------
(* The application lifespan: close, which waits for the thread, and open. *)

Close ==
  /\ accepting
  /\ accepting' = FALSE
  /\ closing' = handle
  /\ UNCHANGED <<handle, crashes, sequence, arrived, queue, writer, batch, durable,
                 result, reply>>

CloseJoined ==
  /\ closing
  /\ writer = "exited"
  /\ closing' = FALSE
  /\ handle' = FALSE
  /\ writer' = "absent"
  /\ UNCHANGED <<accepting, crashes, sequence, arrived, queue, batch, durable, result, reply>>

\* The join times out: close raises and leaves self._thread set.
CloseTimedOut ==
  /\ closing
  /\ writer # "exited"
  /\ closing' = FALSE
  /\ UNCHANGED <<accepting, handle, crashes, sequence, arrived, queue, writer, batch,
                 durable, result, reply>>

\* Raises, without effect, while self._thread is set.
Open ==
  /\ ~accepting
  /\ ~closing
  /\ ~handle
  /\ accepting' = TRUE
  /\ UNCHANGED <<handle, closing, crashes, sequence, arrived, queue, writer, batch,
                 durable, result, reply>>

\* The process dies and is started again: memory is lost, commits are not.
Crash ==
  /\ crashes < MaxCrashes
  /\ crashes' = crashes + 1
  /\ accepting' = TRUE
  /\ handle' = FALSE
  /\ closing' = FALSE
  /\ queue' = {}
  /\ writer' = "absent"
  /\ active' = {} /\ run' = {} /\ good' = {} /\ failed' = FALSE
  /\ result' = [j \in Jobs |-> "none"]
  /\ reply' = [j \in Jobs |-> IF reply[j] = "awaiting" THEN "gone" ELSE reply[j]]
  /\ UNCHANGED <<sequence, arrived, durable>>

-----------------------------------------------------------------------------

EventLoop(j) ==
  \/ Submit(j) \/ SubmitToFull(j) \/ SubmitToClosed(j)
  \/ \E v \in Jobs : SubmitDisplacing(j, v)
  \/ Deliver(j) \/ Abandon(j)

Thread ==
  \/ TakeBatch
  \/ \E j \in Jobs, ok \in BOOLEAN : RunJob(j, ok)
  \/ Commit \/ FailBatch
  \/ \E j \in Jobs : ResolveJob(j)
  \/ FinishBatch \/ Exit

Lifespan == Close \/ CloseJoined \/ CloseTimedOut \/ Open

Next == (\E j \in Jobs : EventLoop(j)) \/ Thread \/ Lifespan \/ Crash

Spec == Init /\ [][Next]_vars

\* The thread keeps running, and the event loop runs the callbacks it is sent.
FairSpec == Spec /\ WF_vars(Thread) /\ \A j \in Jobs : WF_vars(Deliver(j))

-----------------------------------------------------------------------------
(* What must hold. *)

TypeOK ==
  /\ accepting \in BOOLEAN /\ handle \in BOOLEAN /\ closing \in BOOLEAN
  /\ crashes \in 0..MaxCrashes
  /\ sequence \in Nat /\ arrived \in [Jobs -> Nat]
  /\ queue \subseteq Jobs
  /\ writer \in {"absent", "waiting", "working", "resolving", "exited"}
  /\ active \subseteq Jobs /\ run \subseteq active /\ good \subseteq run
  /\ failed \in BOOLEAN
  /\ durable \subseteq Jobs
  /\ result \in [Jobs -> {"none", "ok", "rejected", "error", "evicted"}]
  /\ reply \in [Jobs -> {"none", "awaiting", "ok", "rejected", "error", "evicted",
                         "full", "closed", "gone"}]

\* The queue keeps its bound, and logins and heartbeats leave at least a whole
\* batch of slots to the seat claims, even those the writer has already taken
\* ("reserved slots no fewer than one active batch", docs/architecture.md).
ReserveKept ==
  /\ Pending <= QueueLimit
  /\ Cardinality((queue \cup active) \ Claims) <= QueueLimit - BatchSize

\* What a caller was told is what the database holds: success only after the
\* commit, and no refusal of any kind for a job that is committed.
RepliesAreTrue ==
  \A j \in Jobs :
    /\ reply[j] = "ok" => j \in durable
    /\ reply[j] \in {"rejected", "error", "evicted", "full", "closed"} => j \notin durable

\* An admitted seat claim is never displaced.
ClaimsNeverEvicted == \A j \in Claims : result[j] # "evicted"

\* Seat claims reach the database in the order the event loop admitted them:
\* none is taken, and none is run, while an earlier one still waits.
ClaimsInOrder ==
  \A a, b \in Claims :
    arrived[a] < arrived[b] =>
      /\ ~(a \in queue /\ b \in active)
      /\ ~(a \in active \ run /\ b \in run)

\* A seat claim is turned away only by other claims: no login or heartbeat is
\* queued then, and at most one batch of them is running.  Once admitted it keeps
\* its place: it is never the job that is displaced for another one.
ClaimsYieldOnlyToClaims ==
  [][\A j \in Claims :
       /\ reply[j] = "none" /\ reply'[j] = "full" =>
            /\ queue \subseteq Claims
            /\ Cardinality(queue) >= QueueLimit - BatchSize
       /\ result'[j] # "evicted"]_vars

\* Every admitted request is answered (or its caller is gone), whatever else is
\* submitted, displaced, failed or closed meanwhile.
AdmittedIsAnswered ==
  \A j \in Jobs : reply[j] = "awaiting" ~> reply[j] # "awaiting"

\* A writer that stopped accepting finishes what it had admitted.
CloseDrains == ~accepting ~> (accepting \/ (queue = {} /\ active = {}))

\* open: "Allow a fully stopped writer to serve a new application lifespan."
StoppedWriterReopens ==
  writer = "exited" /\ ~closing => ~handle
=============================================================================
