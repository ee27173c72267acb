-------------------------- MODULE BatchWriterProofs --------------------------
(***************************************************************************)
(* Proofs about BatchWriter, for every set of requests, batch size, queue  *)
(* limit and number of crashes.                                            *)
(***************************************************************************)
EXTENDS BatchWriter, FiniteSetTheorems, TLAPS

-----------------------------------------------------------------------------
(* Types, and where the batch can be. *)

\* There is a batch only while the thread processes one.
BatchInv ==
  /\ handle = FALSE => writer = "absent"
  /\ writer \notin {"working", "resolving"} => active = {} /\ failed = FALSE
  /\ writer = "working" => failed = FALSE

TypeInv == TypeOK /\ BatchInv

LEMMA TypeInit == Init => TypeInv
<1> SUFFICES ASSUME Init PROVE TypeInv
  OBVIOUS
<1>1. crashes \in 0..MaxCrashes
  BY WriterAssumption DEF Init
<1>2. /\ arrived \in [Jobs -> Nat]
      /\ result \in [Jobs -> {"none", "ok", "rejected", "error", "evicted"}]
      /\ reply \in [Jobs -> {"none", "awaiting", "ok", "rejected", "error", "evicted",
                             "full", "closed", "gone"}]
  BY DEF Init
<1> QED
  BY <1>1, <1>2 DEF Init, TypeInv, TypeOK, BatchInv

\* The admission of a job, on an empty queue or after a displacement.
LEMMA EnqueueType ==
  ASSUME TypeInv, NEW j \in Jobs, NEW rest \in SUBSET Jobs, Enqueue(j, rest),
         result' \in [Jobs -> {"none", "ok", "rejected", "error", "evicted"}]
  PROVE  TypeInv'
<1> USE DEF TypeInv, TypeOK, BatchInv, Enqueue, batch
<1>1. /\ arrived' \in [Jobs -> Nat] /\ sequence' \in Nat
      /\ queue' \subseteq Jobs
      /\ reply' \in [Jobs -> {"none", "awaiting", "ok", "rejected", "error", "evicted",
                              "full", "closed", "gone"}]
  OBVIOUS
<1>2. CASE handle = TRUE
  <2>1. writer' = writer /\ handle' = TRUE
    BY <1>2
  <2> QED
    BY <1>1, <2>1
<1>3. CASE handle = FALSE
  <2>1. writer' = "waiting" /\ handle' = TRUE
    BY <1>3
  <2>2. active = {} /\ failed = FALSE
    BY <1>3
  <2> QED
    BY <1>1, <2>1, <2>2
<1> QED
  BY <1>2, <1>3

LEMMA RefuseType ==
  ASSUME TypeInv, NEW j \in Jobs,
         NEW answer \in {"ok", "rejected", "error", "evicted", "full", "closed", "gone"},
         Refuse(j, answer)
  PROVE  TypeInv'
  BY DEF TypeInv, TypeOK, BatchInv, Refuse, lifecycle, batch

LEMMA TypeStep == TypeInv /\ [Next]_vars => TypeInv'
<1> SUFFICES ASSUME TypeInv, [Next]_vars PROVE TypeInv'
  OBVIOUS
<1>1. ASSUME NEW j \in Jobs, EventLoop(j) PROVE TypeInv'
  <2>1. CASE Submit(j)
    BY <2>1, EnqueueType DEF Submit, TypeInv, TypeOK
  <2>2. CASE \E v \in Jobs : SubmitDisplacing(j, v)
    <3> PICK v \in Jobs : SubmitDisplacing(j, v)
      BY <2>2
    <3>1. result' \in [Jobs -> {"none", "ok", "rejected", "error", "evicted"}]
      BY DEF SubmitDisplacing, TypeInv, TypeOK
    <3>2. Enqueue(j, queue \ {v}) /\ queue \ {v} \in SUBSET Jobs
      BY DEF SubmitDisplacing, TypeInv, TypeOK
    <3> QED
      BY <3>1, <3>2, EnqueueType
  <2>3. CASE SubmitToFull(j) \/ SubmitToClosed(j) \/ Abandon(j)
    BY <2>3, RefuseType DEF SubmitToFull, SubmitToClosed, Abandon
  <2>4. CASE Deliver(j)
    <3>1. result[j] \in {"ok", "rejected", "error", "evicted"}
      BY <2>4 DEF Deliver, TypeInv, TypeOK
    <3> QED
      BY <2>4, <3>1, RefuseType DEF Deliver
  <2> QED
    BY <1>1, <2>1, <2>2, <2>3, <2>4 DEF EventLoop
<1> USE DEF TypeInv, TypeOK, BatchInv
<1>2. CASE TakeBatch
  BY <1>2 DEF TakeBatch, lifecycle
<1>3. ASSUME NEW j \in Jobs, NEW ok \in BOOLEAN, RunJob(j, ok) PROVE TypeInv'
  BY <1>3 DEF RunJob, lifecycle
<1>4. CASE Commit \/ FailBatch
  BY <1>4 DEF Commit, FailBatch, lifecycle, batch
<1>5. ASSUME NEW j \in Jobs, ResolveJob(j) PROVE TypeInv'
  BY <1>5 DEF ResolveJob, Outcome, lifecycle, batch
<1>6. CASE FinishBatch \/ Exit
  BY <1>6 DEF FinishBatch, Exit, lifecycle, batch
<1>7. CASE Lifespan
  BY <1>7 DEF Lifespan, Close, CloseJoined, CloseTimedOut, Open, batch
<1>8. CASE Crash
  <2>1. crashes' \in 0..MaxCrashes
    BY <1>8, WriterAssumption DEF Crash
  <2>2. /\ result' \in [Jobs -> {"none", "ok", "rejected", "error", "evicted"}]
        /\ reply' \in [Jobs -> {"none", "awaiting", "ok", "rejected", "error", "evicted",
                                "full", "closed", "gone"}]
    BY <1>8 DEF Crash
  <2> QED
    BY <1>8, <2>1, <2>2 DEF Crash
<1>9. CASE UNCHANGED vars
  BY <1>9 DEF vars, lifecycle, batch
<1> QED
  BY <1>1, <1>2, <1>3, <1>4, <1>5, <1>6, <1>7, <1>8, <1>9 DEF Next, Thread

\* Types hold, and the lists of a batch never outlive it.
THEOREM TypeCorrect == Spec => []TypeOK
<1>1. TypeInv => TypeOK
  BY DEF TypeInv
<1> QED
  BY <1>1, TypeInit, TypeStep, PTL DEF Spec

-----------------------------------------------------------------------------
(* An admitted claim is not displaced. *)

\* No seat claim that was admitted is displaced by later traffic.
THEOREM ClaimsNeverEvictedTheorem == Spec => []ClaimsNeverEvicted
<1>1. Init => ClaimsNeverEvicted
  BY DEF Init, ClaimsNeverEvicted, Claims
<1>2. TypeInv /\ ClaimsNeverEvicted /\ [Next]_vars => ClaimsNeverEvicted'
  <2> SUFFICES ASSUME TypeInv, ClaimsNeverEvicted, [Next]_vars PROVE ClaimsNeverEvicted'
    OBVIOUS
  <2> USE DEF ClaimsNeverEvicted, Claims, TypeInv, TypeOK
  <2>1. ASSUME NEW j \in Jobs, EventLoop(j) PROVE ClaimsNeverEvicted'
    <3>1. CASE \E v \in Jobs : SubmitDisplacing(j, v)
      BY <3>1 DEF SubmitDisplacing, IsVictim
    <3>2. CASE ~ \E v \in Jobs : SubmitDisplacing(j, v)
      BY <2>1, <3>2 DEF EventLoop, Submit, SubmitToFull, SubmitToClosed, Deliver, Abandon, Refuse
    <3> QED
      BY <3>1, <3>2
  <2>2. CASE Thread
    BY <2>2 DEF Thread, TakeBatch, RunJob, Commit, FailBatch, ResolveJob, Outcome,
                FinishBatch, Exit
  <2>3. CASE Lifespan \/ Crash
    BY <2>3 DEF Lifespan, Close, CloseJoined, CloseTimedOut, Open, Crash
  <2>4. CASE UNCHANGED vars
    BY <2>4 DEF vars
  <2> QED
    BY <2>1, <2>2, <2>3, <2>4 DEF Next
<1> QED
  BY <1>1, <1>2, TypeInit, TypeStep, PTL DEF Spec

-----------------------------------------------------------------------------
(* Callers are told the truth. *)

\* A job that has not run yet: its caller waits or is gone, nothing is stored.
Undecided(j) ==
  /\ reply[j] \in {"awaiting", "gone"}
  /\ result[j] = "none"
  /\ j \notin durable

\* What the future of a job may hold, given what is committed.
ResultTrue(j) ==
  /\ result[j] = "ok" => j \in durable
  /\ result[j] \in {"rejected", "error", "evicted"} => j \notin durable

ReplyTrue(j) ==
  /\ reply[j] = "ok" => j \in durable
  /\ reply[j] \in {"rejected", "error", "evicted", "full", "closed"} => j \notin durable

\* A batch that has ended left exactly its good jobs, or nothing, in the database.
BatchStored ==
  writer = "resolving" =>
    \A j \in active : j \in durable <=> (failed = FALSE /\ j \in good)

AnswerInv ==
  /\ queue \cap active = {}
  /\ \A j \in queue : Undecided(j)
  /\ writer = "working" => \A j \in active : Undecided(j)
  /\ \A j \in active : reply[j] # "none"
  /\ \A j \in Jobs : reply[j] = "none" => j \notin durable /\ result[j] = "none"
  /\ \A j \in Jobs : ResultTrue(j) /\ ReplyTrue(j)
  /\ BatchStored

LEMMA AnswerInit == Init => AnswerInv
  BY DEF Init, AnswerInv, BatchStored, ResultTrue, ReplyTrue

\* A reply that agrees with the future and the database keeps the invariant.
LEMMA RefuseAnswer ==
  ASSUME TypeInv, AnswerInv, NEW j \in Jobs,
         NEW answer \in {"ok", "rejected", "error", "evicted", "full", "closed", "gone"},
         Refuse(j, answer),
         \/ reply[j] = "none" /\ answer \in {"full", "closed"}
         \/ result[j] # "none" /\ answer = result[j]
         \/ reply[j] = "awaiting" /\ answer = "gone"
  PROVE  AnswerInv'
<1> USE DEF TypeInv, TypeOK, Refuse, lifecycle, batch, AnswerInv
<1>1. /\ reply'[j] = answer
      /\ \A k \in Jobs \ {j} : reply'[k] = reply[k]
  OBVIOUS
<1>2. \A k \in Jobs : Undecided(k) /\ reply[k] # "none" => k # j \/ answer = "gone"
  BY DEF Undecided
<1>3. \A k \in Jobs : Undecided(k) => Undecided(k)'
  BY <1>1, <1>2 DEF Undecided
<1>4. \A k \in Jobs : ResultTrue(k)' /\ ReplyTrue(k)'
  BY <1>1 DEF ResultTrue, ReplyTrue
<1>5. BatchStored'
  BY DEF BatchStored
<1>6. \A k \in Jobs : reply'[k] = "none" => k \notin durable' /\ result'[k] = "none"
  BY <1>1
<1>7. \A k \in active' : reply'[k] # "none"
  BY <1>1
<1> QED
  BY <1>3, <1>4, <1>5, <1>6, <1>7

\* The admission of a job, with at most one queued job answered "evicted".
LEMMA EnqueueAnswer ==
  ASSUME TypeInv, AnswerInv, NEW j \in Jobs, NEW rest \in SUBSET queue,
         Enqueue(j, rest), reply[j] = "none",
         result' \in [Jobs -> {"none", "ok", "rejected", "error", "evicted"}],
         \A k \in Jobs : \/ result'[k] = result[k]
                         \/ k \in queue \ rest /\ result'[k] = "evicted"
  PROVE  AnswerInv'
<1> USE DEF TypeInv, TypeOK, AnswerInv
<1>1. /\ queue' = rest \cup {j}
      /\ UNCHANGED <<active, run, good, failed, durable>>
      /\ reply'[j] = "awaiting"
      /\ \A k \in Jobs \ {j} : reply'[k] = reply[k]
  BY DEF Enqueue, batch
<1>2. j \notin durable /\ result[j] = "none" /\ j \notin queue /\ j \notin active
  BY DEF Undecided
<1>3. result'[j] = "none"
  BY <1>2
<1>4. \A k \in rest \cup {j} : Undecided(k)'
  BY <1>1, <1>2, <1>3 DEF Undecided
<1>5. \A k \in active : Undecided(k) => Undecided(k)'
  BY <1>1, <1>2 DEF Undecided
<1>6. \A k \in Jobs : ResultTrue(k)' /\ ReplyTrue(k)'
  BY <1>1, <1>2, <1>3 DEF ResultTrue, ReplyTrue, Undecided
<1>7. writer' = writer \/ (writer' = "waiting" /\ active = {})
  BY DEF Enqueue, BatchInv
<1>8. BatchStored'
  BY <1>1, <1>7 DEF BatchStored
<1>9. \A k \in Jobs : reply'[k] = "none" => k \notin durable' /\ result'[k] = "none"
  BY <1>1, <1>2 DEF Undecided
<1>10. \A k \in active' : reply'[k] # "none"
  BY <1>1, <1>2
<1> QED
  BY <1>1, <1>2, <1>4, <1>5, <1>6, <1>7, <1>8, <1>9, <1>10

LEMMA AnswerStep == TypeInv /\ AnswerInv /\ [Next]_vars => AnswerInv'
<1> SUFFICES ASSUME TypeInv, AnswerInv, [Next]_vars PROVE AnswerInv'
  OBVIOUS
<1>1. ASSUME NEW j \in Jobs, EventLoop(j) PROVE AnswerInv'
  <2>1. CASE Submit(j)
    BY <2>1, EnqueueAnswer DEF Submit, TypeInv, TypeOK
  <2>2. CASE \E v \in Jobs : SubmitDisplacing(j, v)
    <3> PICK v \in Jobs : SubmitDisplacing(j, v)
      BY <2>2
    <3>1. /\ result' = [result EXCEPT ![v] = "evicted"] /\ v \in queue
          /\ Enqueue(j, queue \ {v}) /\ reply[j] = "none"
      BY DEF SubmitDisplacing, IsVictim
    <3>2. /\ result' \in [Jobs -> {"none", "ok", "rejected", "error", "evicted"}]
          /\ \A k \in Jobs : \/ result'[k] = result[k]
                             \/ k = v /\ result'[k] = "evicted"
      BY <3>1 DEF TypeInv, TypeOK
    <3> QED
      BY <3>1, <3>2, EnqueueAnswer
  <2>3. CASE SubmitToFull(j) \/ SubmitToClosed(j) \/ Abandon(j)
    BY <2>3, RefuseAnswer DEF SubmitToFull, SubmitToClosed, Abandon
  <2>4. CASE Deliver(j)
    <3>1. result[j] \in {"ok", "rejected", "error", "evicted"}
      BY <2>4 DEF Deliver, TypeInv, TypeOK
    <3> QED
      BY <2>4, <3>1, RefuseAnswer DEF Deliver
  <2> QED
    BY <1>1, <2>1, <2>2, <2>3, <2>4 DEF EventLoop
<1> USE DEF TypeInv, TypeOK, AnswerInv
<1>2. CASE TakeBatch
  <2>1. PICK jobs \in SUBSET queue : active' = jobs /\ queue' = queue \ jobs
    BY <1>2 DEF TakeBatch
  <2>2. UNCHANGED <<result, reply, durable>> /\ writer' = "working"
    BY <1>2 DEF TakeBatch
  <2>3. \A k \in queue : Undecided(k)'
    BY <2>2 DEF Undecided
  <2>4. \A k \in Jobs : ResultTrue(k)' /\ ReplyTrue(k)'
    BY <2>2 DEF ResultTrue, ReplyTrue
  <2> QED
    BY <2>1, <2>2, <2>3, <2>4 DEF BatchStored, Undecided
<1>3. ASSUME NEW j \in Jobs, NEW ok \in BOOLEAN, RunJob(j, ok) PROVE AnswerInv'
  BY <1>3 DEF RunJob, Undecided, ResultTrue, ReplyTrue, BatchStored
<1>4. CASE Commit
  <2>1. /\ UNCHANGED <<queue, active, good, failed, result, reply>>
        /\ durable' = durable \cup good /\ writer = "working" /\ writer' = "resolving"
    BY <1>4 DEF Commit, batch
  <2>2. good \subseteq active /\ failed = FALSE /\ \A k \in active : Undecided(k)
    BY <2>1 DEF BatchInv
  <2>3. \A k \in queue : Undecided(k)'
    BY <2>1, <2>2 DEF Undecided
  <2>4. \A k \in Jobs : ResultTrue(k)' /\ ReplyTrue(k)'
    BY <2>1, <2>2 DEF Undecided, ResultTrue, ReplyTrue
  <2>5. BatchStored'
    BY <2>1, <2>2 DEF BatchStored, Undecided
  <2> QED
    BY <2>1, <2>2, <2>3, <2>4, <2>5 DEF Undecided
<1>5. CASE FailBatch
  BY <1>5 DEF FailBatch, Undecided, ResultTrue, ReplyTrue, BatchStored
<1>6. ASSUME NEW j \in Jobs, ResolveJob(j) PROVE AnswerInv'
  <2>1. /\ UNCHANGED <<queue, writer, active, good, failed, reply, durable>>
        /\ writer = "resolving" /\ j \in active
        /\ result' = [result EXCEPT ![j] = Outcome(j)]
    BY <1>6 DEF ResolveJob, batch
  <2>2. CASE failed = TRUE
    <3>1. Outcome(j) = "error" /\ j \notin durable
      BY <2>1, <2>2 DEF Outcome, BatchStored
    <3> QED
      BY <2>1, <3>1 DEF Undecided, ResultTrue, ReplyTrue, BatchStored
  <2>3. CASE failed = FALSE
    <3>1. \/ Outcome(j) = "ok" /\ j \in durable
          \/ Outcome(j) = "rejected" /\ j \notin durable
      BY <2>1, <2>3 DEF Outcome, BatchStored
    <3> QED
      BY <2>1, <3>1 DEF Undecided, ResultTrue, ReplyTrue, BatchStored
  <2> QED
    BY <2>2, <2>3
<1>7. CASE FinishBatch \/ Exit
  BY <1>7 DEF FinishBatch, Exit, batch, Undecided, ResultTrue, ReplyTrue, BatchStored
<1>8. CASE Lifespan
  BY <1>8 DEF Lifespan, Close, CloseJoined, CloseTimedOut, Open, batch,
              Undecided, ResultTrue, ReplyTrue, BatchStored
<1>9. CASE Crash
  <2>1. /\ queue' = {} /\ active' = {} /\ writer' = "absent"
        /\ durable' = durable
        /\ \A k \in Jobs : /\ result'[k] = "none"
                           /\ reply'[k] = IF reply[k] = "awaiting" THEN "gone" ELSE reply[k]
    BY <1>9 DEF Crash
  <2> QED
    BY <2>1 DEF ResultTrue, ReplyTrue, BatchStored
<1>10. CASE UNCHANGED vars
  BY <1>10 DEF vars, lifecycle, batch, Undecided, ResultTrue, ReplyTrue, BatchStored
<1> QED
  BY <1>1, <1>2, <1>3, <1>4, <1>5, <1>6, <1>7, <1>8, <1>9, <1>10 DEF Next, Thread

\* A caller told "ok" has its write in the database, and a caller told anything
\* else has not, through failed batches, displacement, close and crashes.
THEOREM RepliesAreTrueTheorem == Spec => []RepliesAreTrue
<1>1. AnswerInv => RepliesAreTrue
  BY DEF AnswerInv, RepliesAreTrue, ReplyTrue
<1> QED
  BY <1>1, TypeInit, TypeStep, AnswerInit, AnswerStep, PTL DEF Spec

-----------------------------------------------------------------------------
(* Seat claims are taken and run in the order of their admission. *)

OrderInv ==
  /\ \A j \in Jobs : arrived[j] <= sequence
  /\ \A j \in Jobs : reply[j] = "none" => j \notin queue \cup active
  /\ ClaimsInOrder

LEMMA OrderInit == Init => OrderInv
  BY DEF Init, OrderInv, ClaimsInOrder, Claims

\* A new job is the last to arrive, and not part of the running batch.
LEMMA EnqueueOrder ==
  ASSUME TypeInv, OrderInv, NEW j \in Jobs, NEW rest \in SUBSET queue,
         Enqueue(j, rest), reply[j] = "none"
  PROVE  OrderInv'
<1> USE DEF TypeInv, TypeOK, OrderInv
<1>1. /\ queue' = rest \cup {j}
      /\ UNCHANGED <<active, run>>
      /\ sequence' = sequence + 1
      /\ arrived'[j] = sequence + 1
      /\ reply'[j] = "awaiting"
      /\ \A k \in Jobs \ {j} : arrived'[k] = arrived[k] /\ reply'[k] = reply[k]
  BY DEF Enqueue, batch
<1>2. j \notin queue /\ j \notin active
  OBVIOUS
<1>3. \A k \in Jobs : arrived'[k] <= sequence'
  BY <1>1
<1>4. \A k \in Jobs : reply'[k] = "none" => k \notin queue' \cup active'
  BY <1>1
<1>5. ClaimsInOrder'
  BY <1>1, <1>2 DEF ClaimsInOrder, Claims
<1> QED
  BY <1>3, <1>4, <1>5

LEMMA OrderStep == TypeInv /\ OrderInv /\ [Next]_vars => OrderInv'
<1> SUFFICES ASSUME TypeInv, OrderInv, [Next]_vars PROVE OrderInv'
  OBVIOUS
\* Steps that admit nothing and leave the batch and its progress alone.
<1>1. ASSUME UNCHANGED <<sequence, arrived, queue, active, run>>,
             \A k \in Jobs : reply'[k] = "none" => reply[k] = "none"
      PROVE OrderInv'
  BY <1>1 DEF OrderInv, ClaimsInOrder
<1>2. ASSUME NEW j \in Jobs, EventLoop(j) PROVE OrderInv'
  <2>1. CASE Submit(j)
    BY <2>1, EnqueueOrder DEF Submit
  <2>2. CASE \E v \in Jobs : SubmitDisplacing(j, v)
    BY <2>2, EnqueueOrder DEF SubmitDisplacing
  <2>3. ASSUME NEW answer, answer # "none", Refuse(j, answer) PROVE OrderInv'
    BY <1>1, <2>3 DEF Refuse, batch, TypeInv, TypeOK
  <2>4. CASE SubmitToFull(j) \/ SubmitToClosed(j) \/ Abandon(j) \/ Deliver(j)
    BY <2>3, <2>4 DEF SubmitToFull, SubmitToClosed, Abandon, Deliver
  <2> QED
    BY <1>2, <2>1, <2>2, <2>4 DEF EventLoop
<1>3. CASE TakeBatch
  <2>1. PICK jobs \in SUBSET queue :
          IsNextBatch(jobs) /\ active' = jobs /\ queue' = queue \ jobs
    BY <1>3 DEF TakeBatch
  <2>2. UNCHANGED <<sequence, arrived, reply, run>> /\ run = {}
    BY <1>3 DEF TakeBatch, TypeInv, TypeOK, BatchInv
  <2>3. \A a \in jobs, b \in queue \ jobs : Before(a, b)
    BY <2>1 DEF IsNextBatch
  <2>4. ASSUME NEW a \in Claims, NEW b \in Claims, arrived[a] < arrived[b]
        PROVE  ~(a \in queue \ jobs /\ b \in jobs)
    BY <2>3, <2>4 DEF Before, Claims, TypeInv, TypeOK
  <2> QED
    BY <2>1, <2>2, <2>4 DEF OrderInv, ClaimsInOrder
<1>4. ASSUME NEW j \in Jobs, NEW ok \in BOOLEAN, RunJob(j, ok) PROVE OrderInv'
  <2>1. /\ UNCHANGED <<sequence, arrived, queue, active, reply>>
        /\ run' = run \cup {j}
        /\ \A k \in active \ run : k = j \/ Before(j, k)
    BY <1>4 DEF RunJob
  <2>2. ASSUME NEW a \in Claims, NEW b \in Claims, arrived[a] < arrived[b]
        PROVE  ~(a \in active \ run' /\ b \in run')
    BY <2>1, <2>2 DEF OrderInv, ClaimsInOrder, Before, Claims, TypeInv, TypeOK
  <2> QED
    BY <2>1, <2>2 DEF OrderInv, ClaimsInOrder
<1>5. CASE Commit \/ FailBatch \/ Exit \/ \E j \in Jobs : ResolveJob(j)
  BY <1>1, <1>5 DEF Commit, FailBatch, Exit, ResolveJob, batch
<1>6. CASE FinishBatch
  BY <1>6 DEF FinishBatch, OrderInv, ClaimsInOrder
<1>7. CASE Lifespan
  BY <1>1, <1>7 DEF Lifespan, Close, CloseJoined, CloseTimedOut, Open, batch
<1>8. CASE Crash
  BY <1>8 DEF Crash, OrderInv, ClaimsInOrder
<1>9. CASE UNCHANGED vars
  BY <1>1, <1>9 DEF vars, batch
<1> QED
  BY <1>2, <1>3, <1>4, <1>5, <1>6, <1>7, <1>8, <1>9 DEF Next, Thread

\* Of two admitted seat claims the earlier is never overtaken, neither in the
\* queue nor inside a batch.
THEOREM ClaimsInOrderTheorem == Spec => []ClaimsInOrder
<1>1. OrderInv => ClaimsInOrder
  BY DEF OrderInv
<1> QED
  BY <1>1, TypeInit, TypeStep, OrderInit, OrderStep, PTL DEF Spec

-----------------------------------------------------------------------------
(* The queue keeps its bound and the reserve of the seat claims. *)

Low == (queue \cup active) \ Claims

\* The reserve is never smaller than a batch, whatever the configuration asks.
LEMMA ReserveAtLeastBatch == Reserve \in Int /\ Reserve >= BatchSize
<1>1. QueueLimit \div 4 \in Int /\ PriorityReserve \in Int /\ BatchSize \in Int
  BY WriterAssumption
<1>2. Larger(1, QueueLimit \div 4) \in Int
  BY <1>1 DEF Larger
<1>3. Smaller(PriorityReserve, Larger(1, QueueLimit \div 4)) \in Int
  BY <1>1, <1>2 DEF Smaller
<1> QED
  BY <1>1, <1>3 DEF Reserve, Larger

LEMMA WriterFinite ==
  ASSUME TypeInv
  PROVE  /\ \A S \in SUBSET Jobs : IsFiniteSet(S) /\ Cardinality(S) \in Nat
         /\ Low \in SUBSET Jobs
<1>1. \A S \in SUBSET Jobs : IsFiniteSet(S)
  BY WriterAssumption, FS_Subset
<1> QED
  BY <1>1, FS_CardinalityType DEF TypeInv, TypeOK, Low

LEMMA ReserveInit == Init => ReserveKept
<1> SUFFICES ASSUME Init PROVE ReserveKept
  OBVIOUS
<1>1. queue = {} /\ active = {} /\ Cardinality({}) = 0
  BY FS_EmptySet DEF Init
<1> QED
  BY <1>1, WriterAssumption DEF ReserveKept, Pending

LEMMA ReserveStep == TypeInv /\ OrderInv /\ ReserveKept /\ [Next]_vars => ReserveKept'
<1> SUFFICES ASSUME TypeInv, OrderInv, ReserveKept, [Next]_vars PROVE ReserveKept'
  OBVIOUS
<1>1. /\ Pending <= QueueLimit
      /\ Cardinality(Low) <= QueueLimit - BatchSize
  BY DEF ReserveKept, Low
<1>2. /\ queue \in SUBSET Jobs /\ active \in SUBSET Jobs
      /\ Low \in SUBSET Jobs
      /\ \A S \in SUBSET Jobs : IsFiniteSet(S) /\ Cardinality(S) \in Nat
  BY WriterFinite DEF TypeInv, TypeOK
<1>3. BatchSize \in Nat /\ QueueLimit \in Nat
  BY WriterAssumption
<1>4. ASSUME UNCHANGED <<queue, active>> PROVE ReserveKept'
  BY <1>4 DEF ReserveKept, Pending
\* Taking jobs out of the queue or out of the batch only makes room.
<1>5. ASSUME queue' \in SUBSET queue, active' \in SUBSET active PROVE ReserveKept'
  <2>1. /\ Cardinality(queue') <= Cardinality(queue) /\ Cardinality(queue') \in Nat
        /\ Cardinality(active') <= Cardinality(active) /\ Cardinality(active') \in Nat
    BY <1>2, <1>5, FS_Subset
  <2>2. Low' \in SUBSET Low
    BY <1>5 DEF Low, Claims
  <2>3. Cardinality(Low') <= Cardinality(Low) /\ Cardinality(Low') \in Nat
    BY <1>2, <2>2, FS_Subset
  <2> QED
    BY <1>1, <1>2, <1>3, <2>1, <2>3 DEF ReserveKept, Pending, Low
<1>6. ASSUME NEW j \in Jobs, EventLoop(j) PROVE ReserveKept'
  <2>1. CASE Submit(j)
    <3>1. /\ reply[j] = "none" /\ Pending < AdmissionLimit(j)
          /\ queue' = queue \cup {j} /\ active' = active
      BY <2>1 DEF Submit, Enqueue, batch
    <3>2. j \notin queue /\ j \notin active
      BY <3>1 DEF OrderInv
    <3>3. Cardinality(queue') = Cardinality(queue) + 1
      BY <1>2, <3>1, <3>2, FS_AddElement
    <3>4. AdmissionLimit(j) \in Int /\ AdmissionLimit(j) <= QueueLimit
      BY <1>3, ReserveAtLeastBatch DEF AdmissionLimit
    <3>5. Pending' <= QueueLimit
      BY <1>2, <1>3, <3>1, <3>3, <3>4 DEF Pending
    <3>6. Cardinality(Low') <= QueueLimit - BatchSize
      <4>1. CASE j \in Claims
        <5>1. Low' = Low
          BY <3>1, <4>1 DEF Low, Claims
        <5> QED
          BY <1>1, <5>1
      <4>2. CASE j \notin Claims
        <5>1. Low' = Low \cup {j} /\ j \notin Low
          BY <3>1, <3>2, <4>2 DEF Low, Claims
        <5>2. Cardinality(Low') = Cardinality(Low) + 1
          BY <1>2, <5>1, FS_AddElement
        <5>3. Pending < QueueLimit - Reserve
          BY <3>1, <4>2 DEF AdmissionLimit, Claims
        <5>4. Cardinality(Low) <= Pending
          <6>1. Low \in SUBSET (queue \cup active) /\ queue \cup active \in SUBSET Jobs
                /\ queue \cap active \in SUBSET Jobs
            BY <1>2 DEF Low
          <6>2. Cardinality(Low) <= Cardinality(queue \cup active)
            BY <1>2, <6>1, FS_Subset
          <6>3. Cardinality(queue \cup active)
                  = Cardinality(queue) + Cardinality(active) - Cardinality(queue \cap active)
            BY <1>2, FS_Union
          <6> QED
            BY <1>2, <6>1, <6>2, <6>3 DEF Pending
        <5> QED
          BY <1>2, <1>3, <5>2, <5>3, <5>4, ReserveAtLeastBatch DEF Pending
      <4> QED
        BY <4>1, <4>2
    <3> QED
      BY <3>5, <3>6 DEF ReserveKept, Low
  <2>2. ASSUME NEW v \in Jobs, SubmitDisplacing(j, v) PROVE ReserveKept'
    <3>1. /\ reply[j] = "none" /\ Priority[j] = 0 /\ v \in queue
          /\ queue' = (queue \ {v}) \cup {j} /\ active' = active
      BY <2>2 DEF SubmitDisplacing, IsVictim, Enqueue, batch
    <3>2. j \notin queue
      BY <3>1 DEF OrderInv
    <3>3. Cardinality(queue \ {v}) = Cardinality(queue) - 1 /\ IsFiniteSet(queue \ {v})
      BY <1>2, <3>1, FS_RemoveElement
    <3>4. Cardinality(queue') = Cardinality(queue)
      <4>1. Cardinality(queue') = Cardinality(queue \ {v}) + 1
        BY <3>1, <3>2, <3>3, FS_AddElement
      <4> QED
        BY <1>2, <3>3, <4>1
    <3>5. Low' \in SUBSET Low
      BY <3>1 DEF Low, Claims
    <3>6. Cardinality(Low') <= Cardinality(Low) /\ Cardinality(Low') \in Nat
      BY <1>2, <3>5, FS_Subset
    <3> QED
      BY <1>1, <1>2, <1>3, <3>1, <3>4, <3>6 DEF ReserveKept, Pending, Low
  <2>3. CASE SubmitToFull(j) \/ SubmitToClosed(j) \/ Abandon(j) \/ Deliver(j)
    BY <1>4, <2>3 DEF SubmitToFull, SubmitToClosed, Abandon, Deliver, Refuse, batch
  <2> QED
    BY <1>6, <2>1, <2>2, <2>3 DEF EventLoop
<1>7. CASE TakeBatch
  <2>1. PICK jobs \in SUBSET queue : active' = jobs /\ queue' = queue \ jobs
    BY <1>7 DEF TakeBatch
  <2>2. active = {}
    BY <1>7 DEF TakeBatch, TypeInv, BatchInv
  <2>3. /\ queue' \cup active' = queue /\ queue' \cap active' = {}
        /\ queue' \in SUBSET Jobs /\ active' \in SUBSET Jobs
    BY <1>2, <2>1
  <2>4. Cardinality(queue) = Cardinality(queue') + Cardinality(active')
    <3>1. Cardinality(queue' \cup active')
            = Cardinality(queue') + Cardinality(active') - Cardinality(queue' \cap active')
      BY <1>2, <2>3, FS_Union
    <3>2. Cardinality(queue' \cup active') = Cardinality(queue)
      BY <2>3
    <3>3. Cardinality(queue' \cap active') = 0
      BY <2>3, FS_EmptySet
    <3>4. Cardinality(queue') \in Nat /\ Cardinality(active') \in Nat
      BY <1>2, <2>3
    <3> QED
      BY <3>1, <3>2, <3>3, <3>4
  <2>5. Low' = Low
    BY <2>2, <2>3 DEF Low, Claims
  <2>6. Pending' = Pending
    BY <1>2, <2>2, <2>4, FS_EmptySet DEF Pending
  <2> QED
    BY <1>1, <2>5, <2>6 DEF ReserveKept, Low
<1>8. CASE Thread /\ ~TakeBatch
  BY <1>4, <1>5, <1>8 DEF Thread, RunJob, Commit, FailBatch, ResolveJob, FinishBatch, Exit, batch
<1>9. CASE Lifespan \/ Crash
  BY <1>4, <1>5, <1>9 DEF Lifespan, Close, CloseJoined, CloseTimedOut, Open, Crash, batch
<1>10. CASE UNCHANGED vars
  BY <1>4, <1>10 DEF vars, batch
<1> QED
  BY <1>6, <1>7, <1>8, <1>9, <1>10 DEF Next

\* At most queue_limit jobs are pending, and logins and heartbeats always leave
\* a whole batch of slots to the seat claims.
THEOREM ReserveTheorem == Spec => []ReserveKept
  BY TypeInit, TypeStep, OrderInit, OrderStep, ReserveInit, ReserveStep, PTL DEF Spec

\* Two queued jobs never arrived together, and a batch is no larger than
\* batch_size.
QueueInv ==
  /\ \A a, b \in queue : arrived[a] = arrived[b] => a = b
  /\ Cardinality(active) <= BatchSize

\* Arrival numbers are given once, and a batch is cut at batch_size.
LEMMA QueueStep == TypeInv /\ OrderInv /\ QueueInv /\ [Next]_vars => QueueInv'
<1> SUFFICES ASSUME TypeInv, OrderInv, QueueInv, [Next]_vars PROVE QueueInv'
  OBVIOUS
<1>1. \A j \in queue : j \in Jobs /\ arrived[j] \in Nat /\ arrived[j] <= sequence
  BY DEF TypeInv, TypeOK, OrderInv
<1>2. Cardinality({}) <= BatchSize
  BY WriterAssumption, FS_EmptySet
\* Steps that admit nobody and start no batch.
<1>3. ASSUME queue' \subseteq queue, arrived' = arrived, active' = active \/ active' = {}
      PROVE  QueueInv'
  BY <1>2, <1>3 DEF QueueInv
\* A job that joins the queue is later than every other.
<1>4. ASSUME NEW j \in Jobs, NEW rest \in SUBSET queue, Enqueue(j, rest), reply[j] = "none"
      PROVE  QueueInv'
  <2>1. /\ queue' = rest \cup {j} /\ active' = active
        /\ arrived' = [arrived EXCEPT ![j] = sequence + 1]
    BY <1>4 DEF Enqueue, batch
  <2>2. j \notin rest
    BY <1>4 DEF OrderInv
  <2>3. sequence \in Nat /\ arrived'[j] = sequence + 1 /\ \A k \in rest : arrived'[k] = arrived[k]
    BY <2>1, <2>2 DEF TypeInv, TypeOK
  <2> QED
    BY <1>1, <2>1, <2>2, <2>3 DEF QueueInv
<1>5. ASSUME NEW j \in Jobs, EventLoop(j) PROVE QueueInv'
  <2>1. CASE Submit(j)
    BY <1>4, <2>1 DEF Submit
  <2>2. CASE \E v \in Jobs : SubmitDisplacing(j, v)
    BY <1>4, <2>2 DEF SubmitDisplacing
  <2>3. CASE SubmitToFull(j) \/ SubmitToClosed(j) \/ Deliver(j) \/ Abandon(j)
    BY <1>3, <2>3 DEF SubmitToFull, SubmitToClosed, Abandon, Deliver, Refuse, batch
  <2> QED
    BY <1>5, <2>1, <2>2, <2>3 DEF EventLoop
<1>6. CASE TakeBatch
  <2>1. PICK jobs \in SUBSET queue : IsNextBatch(jobs) /\ active' = jobs /\ queue' = queue \ jobs
    BY <1>6 DEF TakeBatch
  <2>2. Cardinality(queue) \in Nat
    BY WriterFinite DEF TypeInv, TypeOK
  <2>3. Cardinality(active') <= BatchSize
    BY <2>1, <2>2, WriterAssumption DEF IsNextBatch, Smaller
  <2> QED
    BY <1>6, <2>1, <2>3 DEF TakeBatch, QueueInv
<1>7. CASE Thread /\ ~TakeBatch
  BY <1>3, <1>7 DEF Thread, RunJob, Commit, FailBatch, ResolveJob, FinishBatch, Exit, batch
<1>8. CASE Lifespan \/ Crash
  BY <1>3, <1>8 DEF Lifespan, Close, CloseJoined, CloseTimedOut, Open, Crash, batch
<1>9. CASE UNCHANGED vars
  BY <1>3, <1>9 DEF vars, batch
<1> QED
  BY <1>5, <1>6, <1>7, <1>8, <1>9 DEF Next

\* Every queued job but the last in heap order has one after it.
LEMMA QueueHasLast ==
  ASSUME TypeInv, QueueInv, queue # {}
  PROVE  \E v \in queue : \A w \in queue : w = v \/ Before(w, v)
<1> DEFINE From(j) == {w \in queue : w = j \/ Before(j, w)}
           Tails == {From(j) : j \in queue}
<1>1. IsFiniteSet(queue)
  BY WriterAssumption, FS_Subset DEF TypeInv, TypeOK
<1>2. IsWellFoundedOn(StrictSubsetOrdering(queue), SUBSET queue)
  BY <1>1, FS_FiniteSubsetsOfFinite, FS_StrictSubsetOrderingWellFounded
<1>3. PICK v \in queue : \A w \in queue : <<From(w), From(v)>> \notin StrictSubsetOrdering(queue)
  <2>1. Tails \subseteq SUBSET queue /\ Tails # {}
    OBVIOUS
  <2>2. \E T \in Tails : \A U \in Tails : ~(<<U, T>> \in StrictSubsetOrdering(queue))
    <3> HIDE DEF Tails
    <3> QED
      BY <1>2, <2>1, WFMin
  <2>3. PICK T \in Tails : \A U \in Tails : ~(<<U, T>> \in StrictSubsetOrdering(queue))
    BY <2>2
  <2>4. PICK v \in queue : T = From(v)
    OBVIOUS
  <2>5. \A w \in queue : From(w) \in Tails
    OBVIOUS
  <2> HIDE DEF From, Tails
  <2> QED
    BY <2>3, <2>4, <2>5
<1>4. \A a, b, c \in queue : /\ Before(a, b) /\ Before(b, c) => Before(a, c)
                             /\ ~Before(a, a)
                             /\ a = b \/ Before(a, b) \/ Before(b, a)
  BY WriterAssumption DEF Before, TypeInv, TypeOK, QueueInv
<1>5. ASSUME NEW w \in queue, w # v, ~Before(w, v) PROVE FALSE
  <2>1. Before(v, w)
    BY <1>4, <1>5
  <2>2. From(w) \subseteq From(v) /\ v \in From(v) /\ v \notin From(w)
    BY <1>4, <1>5, <2>1
  <2>3. From(w) \in SUBSET queue /\ From(v) \in SUBSET queue
    OBVIOUS
  <2> HIDE DEF From
  <2>4. <<From(w), From(v)>> \in StrictSubsetOrdering(queue)
    BY <2>2, <2>3 DEF StrictSubsetOrdering
  <2> QED
    BY <1>3, <1>5, <2>4
<1> QED
  BY <1>5

\* A full queue without a victim holds nothing but claims.
LEMMA NoVictimNoLow ==
  ASSUME TypeInv, QueueInv, \A v \in queue : ~IsVictim(v)
  PROVE  queue \subseteq Claims
<1> SUFFICES ASSUME NEW w \in queue, w \notin Claims PROVE FALSE
  OBVIOUS
<1>1. PICK v \in queue : \A u \in queue : u = v \/ Before(u, v)
  BY QueueHasLast
<1>2. /\ w \in Jobs /\ v \in Jobs /\ Priority[w] \in Nat /\ Priority[v] \in Nat
      /\ Priority[w] > 0
  BY WriterAssumption DEF TypeInv, TypeOK, Claims
<1>3. w = v \/ Before(w, v)
  BY <1>1
<1>4. Priority[v] > 0
  BY <1>2, <1>3 DEF Before
<1> QED
  BY <1>1, <1>4 DEF IsVictim

\* A seat claim is turned away only by other claims, for every mixture of
\* priorities and every length of the queue.
THEOREM ClaimsYieldTheorem == Spec => ClaimsYieldOnlyToClaims
<1> DEFINE Yields(j) == reply[j] = "none" /\ reply'[j] = "full" =>
                          /\ queue \subseteq Claims
                          /\ Cardinality(queue) >= QueueLimit - BatchSize
<1>1. ASSUME TypeInv, QueueInv, [Next]_vars, NEW j \in Claims PROVE Yields(j)
  <2> SUFFICES ASSUME reply[j] = "none", reply'[j] = "full"
               PROVE  /\ queue \subseteq Claims
                      /\ Cardinality(queue) >= QueueLimit - BatchSize
    OBVIOUS
  <2>1. j \in Jobs /\ Priority[j] = 0 /\ reply = [k \in Jobs |-> reply[k]]
    BY <1>1 DEF Claims, TypeInv, TypeOK
  <2>2. ASSUME NEW k \in Jobs, EventLoop(k) PROVE SubmitToFull(j)
    <3>1. CASE SubmitToFull(k)
      BY <2>1, <3>1 DEF SubmitToFull, Refuse
    <3>2. CASE \E v \in Jobs : SubmitDisplacing(k, v)
      BY <2>1, <3>2 DEF SubmitDisplacing, Enqueue
    <3>3. CASE Submit(k) \/ SubmitToClosed(k) \/ Deliver(k) \/ Abandon(k)
      BY <2>1, <3>3 DEF Submit, SubmitToClosed, Deliver, Abandon, Refuse, Enqueue
    <3> QED
      BY <2>2, <3>1, <3>2, <3>3 DEF EventLoop
  <2>3. ASSUME Thread \/ Lifespan \/ UNCHANGED vars PROVE FALSE
    BY <2>1, <2>3 DEF Thread, TakeBatch, RunJob, Commit, FailBatch, ResolveJob, FinishBatch,
       Exit, Lifespan, Close, CloseJoined, CloseTimedOut, Open, vars
  <2>4. ASSUME Crash PROVE FALSE
    BY <2>1, <2>4 DEF Crash
  <2>5. SubmitToFull(j)
    BY <1>1, <2>2, <2>3, <2>4 DEF Next
  <2>6. Pending >= QueueLimit /\ \A v \in queue : ~IsVictim(v)
    BY <2>1, <2>5 DEF SubmitToFull, AdmissionLimit
  <2>7. queue \subseteq Claims
    BY <1>1, <2>6, NoVictimNoLow
  <2>8. Cardinality(queue) \in Nat /\ Cardinality(active) \in Nat
    BY <1>1, WriterFinite DEF TypeInv, TypeOK
  <2>9. Cardinality(queue) >= QueueLimit - BatchSize
    BY <1>1, <2>6, <2>8, WriterAssumption DEF Pending, QueueInv
  <2> QED
    BY <2>7, <2>9
<1>2. TypeInv /\ QueueInv /\ ClaimsNeverEvicted' /\ [Next]_vars =>
        [\A j \in Claims :
           /\ reply[j] = "none" /\ reply'[j] = "full" =>
                /\ queue \subseteq Claims
                /\ Cardinality(queue) >= QueueLimit - BatchSize
           /\ result'[j] # "evicted"]_vars
  BY <1>1 DEF ClaimsNeverEvicted
<1>3. Init => QueueInv
  BY WriterAssumption, FS_EmptySet DEF Init, QueueInv
<1> QED
  BY <1>2, <1>3, TypeInit, TypeStep, OrderInit, OrderStep, QueueStep,
     ClaimsNeverEvictedTheorem, PTL
  DEF Spec, ClaimsYieldOnlyToClaims

=============================================================================
