--------------------------- MODULE SelectionService ---------------------------
(***************************************************************************)
(* The path of a selection through the whole server: choose_group of       *)
(* server/main.py submits its callback to the batch writer (BatchWriter),  *)
(* which runs it in a transaction on the tables that ActivityArchive       *)
(* describes, while administrators' transactions change the same tables    *)
(* between two transactions of the writer.                                 *)
(*                                                                         *)
(* The writer's actions are those of BatchWriter; what this module adds is *)
(* what the callbacks do.  Claims only insert, so the writer's transaction *)
(* is the set of rows it has inserted so far.                              *)
(*                                                                         *)
(* Left to modules of their own: majors and quotas (SeatLedger; a group    *)
(* has a number of seats here), sessions (StudentSessions; a student on    *)
(* the roster may be signed in), jobs of lower priority, full queues, lost *)
(* connections and shutdown (BatchWriter; they touch no table).            *)
(***************************************************************************)
EXTENDS ActivityArchive

CONSTANTS
  Requests,      \* requests that submit a selection, each sent once
  NoClaim,       \* what a request asks before it is sent
  Seats,         \* total capacity of each group
  ConfigOrigin,  \* TRUE iff the configuration gives a public address
  BatchSize, QueueLimit, MaxCrashes

VARIABLES
  accepting, sequence, arrived, queue, handle, writer, active, run, good,
  failed, durable, result, reply, closing, crashes,   \* as in BatchWriter
  roster,      \* active students of the current activity
  phase,       \* activity_phase; "waiting" is told as "closed"
  origin,      \* TRUE iff settings.public_base_url is not empty
  claim,       \* what a request asks for
  pending,     \* rows inserted by the writer's open transaction
  refusal,     \* why the callback of a request raised
  built,       \* the receipt it returned, if it returned
  builtAt      \* history: the edits of names before that receipt was built

ServiceAssumption ==
  /\ Seats \in [Groups -> Nat]
  /\ ConfigOrigin \in BOOLEAN
  /\ IsFiniteSet(Requests)
  /\ BatchSize \in Nat \ {0} /\ QueueLimit \in Nat /\ QueueLimit >= 2 * BatchSize
  /\ MaxCrashes \in Nat
ASSUME ServiceAssumption

Writer == INSTANCE BatchWriter
            WITH Jobs <- Requests, Priority <- [r \in Requests |-> 0],
                 PriorityReserve <- 1, Impatient <- {}

writerVars  == <<accepting, sequence, arrived, queue, handle, writer, active, run, good,
                 failed, durable, result, reply, closing, crashes>>
roundVars   == <<roster, phase, origin>>
requestVars == <<claim, pending, refusal, built, builtAt>>
serviceVars == <<archiveVars, writerVars, roundVars, requestVars>>

\* The writer holds the database's write lock, from BEGIN IMMEDIATE before the
\* first callback of a batch to its commit or rollback.
InTransaction == writer = "working" /\ run # {}

\* The tables as the callback reads them.
View == rows \cup pending

Reasons == {"none", "stale", "retired", "taken", "shut", "unaddressed", "full"}

ServiceInit ==
  /\ ArchiveInit
  /\ Writer!Init
  /\ roster = Students
  /\ phase = "closed"
  /\ origin = ConfigOrigin
  /\ claim = [r \in Requests |-> NoClaim]
  /\ pending = {}
  /\ refusal = [r \in Requests |-> "none"]
  /\ built = [r \in Requests |-> {}]
  /\ builtAt = [r \in Requests |-> 0]

-----------------------------------------------------------------------------
(* The callback persist_selection. *)

\* Slip, for the runs on mutated code: the version was compared before queueing.
PageAcceptedUnread(r) == TRUE
\* require_expected_activity.
PageAccepted(r) == claim[r].page = current

Existing(r) == {x \in View : x.student = claim[r].student /\ ~x.revoked}

\* Slip, for the runs on mutated code: a repeated claim is any other claim.
RepeatedNever(r) == FALSE
\* A student repeats a claim that is already on record.
Repeated(r) ==
  ~claim[r].backFill /\ \E x \in Existing(r) : x.group = claim[r].group

RoundAdmits(r) ==
  IF claim[r].backFill THEN phase # "countdown" ELSE phase = "open"

\* selection_receipt_public_origin: no receipt can be built without an address,
\* which the setting gives or, while it is empty, the configuration.
Addressed == origin \/ ConfigOrigin

\* Slip, for the runs on mutated code: seats are counted in the committed rows.
HasSeatCommitted(g) == Cardinality({x \in rows : x.group = g /\ ~x.revoked}) < Seats[g]
\* The selection_capacity_guard trigger, inside the transaction.
HasSeat(g) == Cardinality({x \in View : x.group = g /\ ~x.revoked}) < Seats[g]

\* The checks in the order of the code; "none" when all pass.
Refusal(r) ==
  IF ~PageAccepted(r) THEN "stale"
  ELSE IF claim[r].student \notin roster THEN "retired"
  ELSE IF Existing(r) # {} /\ ~Repeated(r) THEN "taken"
  ELSE IF ~Repeated(r) /\ ~RoundAdmits(r) THEN "shut"
  ELSE IF ~Addressed THEN "unaddressed"
  ELSE IF Repeated(r) THEN "none"
  ELSE IF ~HasSeat(claim[r].group) THEN "full" ELSE "none"

\* AUTOINCREMENT continues inside the transaction and is rolled back with it.
NewRow(r) ==
  [id |-> lastRow + Cardinality(pending) + 1, student |-> claim[r].student,
   group |-> claim[r].group, revoked |-> FALSE]

RefuseClaim(r) ==
  /\ Refusal(r) # "none"
  /\ Writer!RunJob(r, FALSE)
  /\ refusal' = [refusal EXCEPT ![r] = Refusal(r)]
  /\ UNCHANGED <<pending, built, builtAt>>

\* The stored selection is answered again; nothing is written.
RepeatClaim(r) ==
  /\ Refusal(r) = "none"
  /\ \E x \in Existing(r) :
       /\ Writer!RunJob(r, TRUE)
       /\ built' = [built EXCEPT ![r] = {Receipt(x)}]
  /\ builtAt' = [builtAt EXCEPT ![r] = renames]
  /\ UNCHANGED <<pending, refusal>>

InsertClaim(r) ==
  /\ Refusal(r) = "none"
  /\ Existing(r) = {}
  /\ Writer!RunJob(r, TRUE)
  /\ pending' = pending \cup {NewRow(r)}
  /\ built' = [built EXCEPT ![r] = {Receipt(NewRow(r))}]
  /\ builtAt' = [builtAt EXCEPT ![r] = renames]
  /\ UNCHANGED refusal

RunClaim(r) ==
  /\ r \in active
  /\ RefuseClaim(r) \/ RepeatClaim(r) \/ InsertClaim(r)
  /\ UNCHANGED <<archiveVars, roundVars, claim>>

-----------------------------------------------------------------------------
(* The writer's transaction ends. *)

CommitClaims ==
  /\ Writer!Commit
  /\ rows' = rows \cup pending
  /\ lastRow' = lastRow + Cardinality(pending)
  /\ pending' = {}
  /\ UNCHANGED <<title, archive, current, lastActivity, label, receipts, renames>>
  /\ UNCHANGED <<roundVars, claim, refusal, built, builtAt>>

\* The rows of the batch are rolled back; its results are never delivered.
FailClaims ==
  /\ Writer!FailBatch
  /\ pending' = {}
  /\ UNCHANGED <<archiveVars, roundVars, claim, refusal, built, builtAt>>

CrashServer ==
  /\ Writer!Crash
  /\ pending' = {}
  /\ UNCHANGED <<archiveVars, roundVars, claim, refusal, built, builtAt>>

-----------------------------------------------------------------------------
(* Requests and answers. *)

\* What a request may ask: its page, of any activity so far, was loaded once and
\* kept open, and gives the X-Activity-ID.
Claims ==
  [student : Students, group : Groups, page : 1..lastActivity, backFill : BOOLEAN]

SendClaim(r, c) ==
  /\ Writer!Submit(r)
  /\ claim' = [claim EXCEPT ![r] = c]
  /\ UNCHANGED <<archiveVars, roundVars, pending, refusal, built, builtAt>>

\* A student's answer carries the receipt; an administrator's does not.
AnswerClaim(r) ==
  /\ Writer!Deliver(r)
  /\ receipts' = IF result[r] = "ok" /\ ~claim[r].backFill
                 THEN receipts \cup built[r] ELSE receipts
  /\ UNCHANGED <<title, archive, current, lastActivity, label, rows, lastRow, renames>>
  /\ UNCHANGED <<roundVars, requestVars>>

\* Steps of the writer in which no callback runs and no transaction ends.
WriterAlone ==
  /\ \/ Writer!TakeBatch \/ Writer!FinishBatch
     \/ \E r \in Requests : Writer!ResolveJob(r)
  /\ UNCHANGED <<archiveVars, roundVars, requestVars>>

-----------------------------------------------------------------------------
(* Administrators' transactions and reads, which find the lock free. *)

Import(n) ==
  /\ phase = "closed"
  /\ Relabel(n) \/ (n = label /\ UNCHANGED archiveVars)
  /\ roster' = Students
  /\ UNCHANGED <<phase, origin>>

StartCountdown ==
  /\ phase = "closed" /\ roster # {} /\ origin
  /\ phase' = "countdown"
  /\ UNCHANGED <<archiveVars, roster, origin>>

CountdownEnds ==
  /\ phase = "countdown"
  /\ phase' = "open"
  /\ UNCHANGED <<archiveVars, roster, origin>>

CloseRound ==
  /\ phase # "closed"
  /\ phase' = "closed"
  /\ UNCHANGED <<archiveVars, roster, origin>>

NextActivity(n) ==
  /\ phase = "closed"
  /\ CreateActivity(n)
  /\ roster' = {}
  /\ UNCHANGED <<phase, origin>>

RevokeSelection(x) ==
  /\ phase # "countdown"
  /\ Revoke(x)
  /\ UNCHANGED roundVars

\* Writes the title, the public address or both, in any phase; the address may be
\* emptied.
UpdateSettings ==
  /\ (\E n \in Names : Retitle(n)) \/ UNCHANGED archiveVars
  /\ origin' \in BOOLEAN
  /\ UNCHANGED <<roster, phase>>

Administer ==
  /\ ~InTransaction
  /\ \/ StartCountdown \/ CloseRound \/ UpdateSettings
     \/ \E n \in Names : Import(n) \/ NextActivity(n)
     \/ \E x \in rows : RevokeSelection(x)
     \/ \E a \in DOMAIN archive : DeleteArchive(a) /\ UNCHANGED roundVars
  /\ UNCHANGED <<writerVars, requestVars>>

\* Time passes and pages are refreshed whatever the writer does; student_me needs
\* the address for the receipt it shows.
Meanwhile ==
  /\ \/ CountdownEnds
     \/ Addressed /\ \E x \in rows : FetchReceipt(x) /\ UNCHANGED roundVars
  /\ UNCHANGED <<writerVars, requestVars>>

ServiceNext ==
  \/ \E r \in Requests, c \in Claims : SendClaim(r, c)
  \/ \E r \in Requests : RunClaim(r) \/ AnswerClaim(r)
  \/ CommitClaims \/ FailClaims \/ CrashServer
  \/ WriterAlone
  \/ Administer
  \/ Meanwhile

ServiceSpec == ServiceInit /\ [][ServiceNext]_serviceVars

-----------------------------------------------------------------------------
(* What must hold. *)

\* The service changes the activities, selections and receipts only as
\* ActivityArchive allows.  In particular every receipt a student is given is one
\* of a committed row: a batch that fails and a process that dies take their
\* receipts with them, although the callbacks had built them.
ImplementsArchive == ArchiveSpec

\* Also with several claims in one transaction, a student has one selection and a
\* group no more than its seats.
SeatsFit ==
  /\ \A x, y \in View : x.student = y.student /\ ~x.revoked /\ ~y.revoked => x = y
  /\ \A g \in Groups : Cardinality({x \in View : x.group = g /\ ~x.revoked}) <= Seats[g]

\* A selection is only ever recorded in the activity that the page showed which
\* asked for it, although the next activity may be created while the request waits.
NoStaleWrite == \A r \in Requests : \A t \in built[r] : t.activity = claim[r].page

\* A seat in the group was given up on record, or the record is gone.
SeatGivenUp(a, g) ==
  a \in Known => \E x \in RowsOf(a) : x.group = g /\ x.revoked

\* First come, first served: a student told that the group is full never sees a
\* request that was admitted later get a seat there, unless one was given up.
FirstCome ==
  \A a, b \in Requests :
    /\ arrived[a] # 0 /\ arrived[a] < arrived[b]
    /\ claim[a].group = claim[b].group /\ claim[a].page = claim[b].page
    /\ result[a] = "rejected" /\ refusal[a] = "full"
    /\ b \in durable
    /\ \A c \in Requests :
         arrived[c] < arrived[a] => \A t \in built[c], u \in built[b] : t.id # u.id
    => SeatGivenUp(claim[a].page, claim[a].group)

\* A student whose selection is on record and who asks for the same group again,
\* perhaps because the answer was lost in a crash or the round has been closed
\* meanwhile, is given the same selection again, never a second row, and the very
\* same receipt unless a name shown on it was edited in between.  A refusal has
\* one of three causes that an administrator brought about: the next activity was
\* created, the selection was given up, or the public address was emptied.
RepeatsAgree ==
  \A a, b \in Requests :
    /\ a \in durable /\ arrived[a] < arrived[b]
    /\ claim[a] = claim[b] /\ ~claim[a].backFill
    /\ result[b] \in {"ok", "rejected"}
    => \/ /\ result[b] = "ok"
          /\ \A t \in built[a], u \in built[b] :
               t.id = u.id /\ (builtAt[a] = builtAt[b] => t = u)
       \/ result[b] = "rejected" /\ refusal[b] \in {"stale", "unaddressed"}
       \/ SeatGivenUp(claim[a].page, claim[a].group)
=============================================================================
