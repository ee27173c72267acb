----------------------- MODULE SelectionServiceProofs -----------------------
(***************************************************************************)
(* Proofs about SelectionService, for any students, groups, seats, requests *)
(* and names, any batch size and any number of activities and crashes.     *)
(***************************************************************************)
EXTENDS SelectionService, FiniteSetTheorems, TLAPS

-----------------------------------------------------------------------------
(* The inductive invariant. *)

\* One entry for each request, as Init builds them and EXCEPT keeps them.
OnRequests(f) == f = [r \in Requests |-> f[r]]

\* Where a request can be: its caller waits while its job is queued or in the
\* batch, and what is durable is neither queued nor run again.
WriterInv ==
  /\ OnRequests(reply) /\ OnRequests(result)
  /\ handle \in BOOLEAN
  /\ handle = FALSE => writer = "absent"
  /\ writer \notin {"working", "resolving"} => active = {} /\ run = {} /\ good = {}
  /\ queue \cup active \cup durable \subseteq Requests
  /\ \A r \in queue \cup active \cup durable : reply[r] # "none"
  /\ queue \cap (active \cup durable) = {}
  /\ writer = "working" => active \cap durable = {}
  /\ good \subseteq run /\ run \subseteq active
  /\ writer = "resolving" /\ ~failed => good \subseteq durable
  /\ \A r \in Requests : result[r] = "ok" => r \in durable

\* The open transaction numbers its rows on from the committed ones.
RowsInv ==
  /\ lastRow \in Nat /\ current \in Nat /\ lastActivity \in Nat /\ current <= lastActivity
  /\ IsFiniteSet(rows) /\ IsFiniteSet(pending)
  /\ \A x \in pending : x.id \in lastRow + 1 .. lastRow + Cardinality(pending) /\ ~x.revoked
  /\ \A x, y \in pending : x.id = y.id => x = y

\* The receipt t names the row x.
Answers(x, t) == x.id = t.id /\ x.student = t.student /\ x.group = t.group

\* The receipt is of a row on record, or its activity has been deleted.
Backed(t) ==
  /\ t.activity \in Nat /\ t.activity <= lastActivity
  /\ t.activity \in Known => \E x \in RowsOf(t.activity) : Answers(x, t)

\* A receipt stands for a row: of the open transaction's view until the batch
\* commits, on record from then on.
ReceiptInv ==
  /\ OnRequests(claim) /\ OnRequests(built)
  /\ \A r \in Requests : reply[r] = "none" => built[r] = {}
  /\ \A r \in Requests : \A t, u \in built[r] : t = u
  /\ \A r \in durable : \A t \in built[r] : Backed(t)
  /\ writer = "working" => \A r \in good : \A t \in built[r] :
       t.activity = current /\ \E x \in View : Answers(x, t)

\* Inductive: each part needs the ones before it.
ServiceInv == WriterInv /\ RowsInv /\ ReceiptInv /\ SeatsFit /\ NoStaleWrite

-----------------------------------------------------------------------------
(* The writer. *)

\* No step of the service breaks what is known of the writer.
LEMMA WriterStep == WriterInv /\ [ServiceNext]_serviceVars => WriterInv'
<1> SUFFICES ASSUME WriterInv, [ServiceNext]_serviceVars PROVE WriterInv'
  OBVIOUS
<1> USE DEF WriterInv, OnRequests, Writer!lifecycle, Writer!batch
<1>1. ASSUME NEW r \in Requests, NEW c \in Claims, SendClaim(r, c) PROVE WriterInv'
  <2>1. /\ reply[r] = "none" /\ reply' = [reply EXCEPT ![r] = "awaiting"]
        /\ queue' = queue \cup {r} /\ handle' = TRUE
        /\ writer' = IF handle THEN writer ELSE "waiting"
        /\ UNCHANGED <<active, run, good, failed, durable, result>>
    BY <1>1 DEF SendClaim, Writer!Submit, Writer!Enqueue
  <2>2. CASE handle = TRUE
    <3>1. writer' = writer
      BY <2>1, <2>2
    <3> QED
      BY <2>1, <3>1
  <2>3. CASE handle = FALSE
    <3>1. writer = "absent" /\ writer' = "waiting"
      BY <2>1, <2>3
    <3> QED
      BY <2>1, <3>1
  <2> QED
    BY <2>2, <2>3
<1>2. ASSUME NEW r \in Requests, RunClaim(r) PROVE WriterInv'
  BY <1>2 DEF RunClaim, RefuseClaim, RepeatClaim, InsertClaim, Writer!RunJob
<1>3. ASSUME NEW r \in Requests, AnswerClaim(r) PROVE WriterInv'
  BY <1>3 DEF AnswerClaim, Writer!Deliver, Writer!Refuse
<1>4. CASE CommitClaims
  BY <1>4 DEF CommitClaims, Writer!Commit
<1>5. CASE FailClaims
  BY <1>5 DEF FailClaims, Writer!FailBatch
<1>6. CASE CrashServer
  BY <1>6 DEF CrashServer, Writer!Crash
<1>7. CASE Writer!TakeBatch
  BY <1>7 DEF Writer!TakeBatch, Writer!IsNextBatch
<1>8. CASE Writer!FinishBatch
  BY <1>8 DEF Writer!FinishBatch
<1>9. ASSUME NEW r \in Requests, Writer!ResolveJob(r) PROVE WriterInv'
  BY <1>9 DEF Writer!ResolveJob, Writer!Outcome
<1>10. CASE UNCHANGED writerVars
  BY <1>10 DEF writerVars
<1>11. UNCHANGED serviceVars => UNCHANGED writerVars
  BY DEF serviceVars
<1> QED
  BY <1>1, <1>2, <1>3, <1>4, <1>5, <1>6, <1>7, <1>8, <1>9, <1>10, <1>11
  DEF ServiceNext, WriterAlone, Administer, Meanwhile

-----------------------------------------------------------------------------
(* The tables. *)

\* What one transaction of the administrators, or the clock, does to the tables.
LEMMA TablesStep ==
  ASSUME Administer \/ Meanwhile
  PROVE  /\ UNCHANGED <<writerVars, requestVars>>
         /\ \/ UNCHANGED archiveVars
            \/ \E x \in rows : FetchReceipt(x)
            \/ /\ ~InTransaction
               /\ \/ \E x \in rows : Revoke(x)
                  \/ \E n \in Names : Retitle(n) \/ Relabel(n) \/ CreateActivity(n)
                  \/ \E a \in DOMAIN archive : DeleteArchive(a)
<1>1. CASE Administer
  BY <1>1 DEF Administer, Import, NextActivity, RevokeSelection, StartCountdown, CloseRound,
              UpdateSettings
<1>2. CASE Meanwhile
  BY <1>2 DEF Meanwhile, CountdownEnds
<1> QED
  BY <1>1, <1>2

\* Rows and activities are numbered upwards.
LEMMA RowsStep == RowsInv /\ [ServiceNext]_serviceVars => RowsInv'
<1> SUFFICES ASSUME RowsInv, [ServiceNext]_serviceVars PROVE RowsInv'
  OBVIOUS
<1> USE DEF RowsInv
<1>1. ASSUME NEW r \in Requests, InsertClaim(r), RunClaim(r) PROVE RowsInv'
  <2>1. /\ pending' = pending \cup {NewRow(r)}
        /\ UNCHANGED <<lastRow, current, lastActivity, rows>>
    BY <1>1 DEF InsertClaim, RunClaim, archiveVars
  <2>2. /\ NewRow(r).id = lastRow + Cardinality(pending) + 1 /\ ~NewRow(r).revoked
        /\ Cardinality(pending) \in Nat
    BY FS_CardinalityType DEF NewRow
  <2>3. NewRow(r) \notin pending
    BY <2>2
  <2>4. IsFiniteSet(pending') /\ Cardinality(pending') = Cardinality(pending) + 1
    BY <2>1, <2>3, FS_AddElement
  <2> QED
    BY <2>1, <2>2, <2>4
<1>2. ASSUME NEW r \in Requests, RunClaim(r), ~InsertClaim(r) PROVE RowsInv'
  BY <1>2 DEF RunClaim, RefuseClaim, RepeatClaim, archiveVars
<1>3. CASE CommitClaims
  <2>1. rows' = rows \cup pending /\ IsFiniteSet(rows')
    BY <1>3, FS_Union DEF CommitClaims
  <2>2. Cardinality(pending) \in Nat
    BY FS_CardinalityType
  <2>3. pending' = {} /\ IsFiniteSet(pending')
    BY <1>3, FS_EmptySet DEF CommitClaims
  <2> QED
    BY <1>3, <2>1, <2>2, <2>3 DEF CommitClaims
<1>4. CASE FailClaims \/ CrashServer
  <2>1. IsFiniteSet({})
    BY FS_EmptySet
  <2> QED
    BY <1>4, <2>1 DEF FailClaims, CrashServer, archiveVars
<1>5. ASSUME NEW r \in Requests, (\E c \in Claims : SendClaim(r, c)) \/ AnswerClaim(r)
      PROVE  RowsInv'
  BY <1>5 DEF SendClaim, AnswerClaim, archiveVars, requestVars
<1>6. CASE WriterAlone \/ UNCHANGED serviceVars
  BY <1>6 DEF WriterAlone, archiveVars, requestVars, serviceVars
<1>7. CASE Administer \/ Meanwhile
  <2>1. UNCHANGED pending
    BY <1>7, TablesStep DEF requestVars
  <2>2. ASSUME NEW x \in rows, Revoke(x) PROVE RowsInv'
    <3>1. IsFiniteSet(rows \ {x}) /\ IsFiniteSet({[x EXCEPT !.revoked = TRUE]})
      BY FS_Subset, FS_Singleton
    <3>2. IsFiniteSet(rows')
      BY <2>2, <3>1, FS_Union DEF Revoke
    <3> QED
      BY <2>1, <2>2, <3>2 DEF Revoke
  <2>3. ASSUME NEW n \in Names, CreateActivity(n) PROVE RowsInv'
    BY <2>1, <2>3, FS_EmptySet DEF CreateActivity
  <2>4. ASSUME NEW n \in Names, Retitle(n) \/ Relabel(n) PROVE RowsInv'
    BY <2>1, <2>4 DEF Retitle, Relabel
  <2>5. CASE UNCHANGED archiveVars \/ (\E x \in rows : FetchReceipt(x))
             \/ (\E a \in DOMAIN archive : DeleteArchive(a))
    BY <2>1, <2>5 DEF archiveVars, FetchReceipt, DeleteArchive
  <2> QED
    BY <1>7, <2>2, <2>3, <2>4, <2>5, TablesStep
<1> QED
  BY <1>1, <1>2, <1>3, <1>4, <1>5, <1>6, <1>7 DEF ServiceNext

-----------------------------------------------------------------------------
(* Seats and pages. *)

\* The rows that take seats.
Taken == {x \in View : ~x.revoked}

\* Fewer seats taken still fit.
LEMMA FewerFit ==
  ASSUME SeatsFit, IsFiniteSet(View), Taken' \subseteq Taken
  PROVE  SeatsFit'
<1>1. ASSUME NEW g \in Groups
      PROVE  Cardinality({x \in View' : x.group = g /\ ~x.revoked}) <= Seats[g]
  <2> DEFINE before == {x \in View : x.group = g /\ ~x.revoked}
             after  == {x \in View' : x.group = g /\ ~x.revoked}
  <2>1. after \subseteq before
    BY DEF Taken
  <2>2. IsFiniteSet(before)
    BY FS_Subset
  <2>3. Cardinality(after) <= Cardinality(before)
    BY <2>1, <2>2, FS_Subset
  <2>4. Cardinality(before) \in Nat /\ Cardinality(after) \in Nat
    BY <2>1, <2>2, FS_Subset, FS_CardinalityType
  <2>5. Cardinality(before) <= Seats[g]
    BY DEF SeatsFit
  <2>6. Seats[g] \in Nat
    BY ServiceAssumption DEF ServiceAssumption
  <2> QED
    BY <2>3, <2>4, <2>5, <2>6
<1>2. \A x, y \in View' : x.student = y.student /\ ~x.revoked /\ ~y.revoked => x = y
  BY DEF SeatsFit, Taken
<1> QED
  BY <1>1, <1>2 DEF SeatsFit

\* The callback's checks passed.
LEMMA Admitted ==
  ASSUME NEW r \in Requests, Refusal(r) = "none"
  PROVE  /\ PageAccepted(r)
         /\ Existing(r) = {} => HasSeat(claim[r].group)
  BY DEF Refusal, Repeated

\* A claim that is inserted finds its seat and its student free.
LEMMA InsertFits ==
  ASSUME SeatsFit, RowsInv, NEW r \in Requests, InsertClaim(r), UNCHANGED archiveVars
  PROVE  SeatsFit'
<1> DEFINE n == NewRow(r)
<1>1. View' = View \cup {n} /\ IsFiniteSet(View)
  BY FS_Union DEF InsertClaim, View, RowsInv, archiveVars
<1>2. /\ n.student = claim[r].student /\ n.group = claim[r].group /\ ~n.revoked
  BY DEF NewRow
<1>3. \A x \in View : ~x.revoked => x.student # n.student
  BY <1>2 DEF InsertClaim, Existing
<1>4. HasSeat(n.group)
  BY <1>2, Admitted DEF InsertClaim
<1> HIDE DEF n
<1>5. \A x, y \in View' : x.student = y.student /\ ~x.revoked /\ ~y.revoked => x = y
  BY <1>1, <1>3 DEF SeatsFit
<1>6. ASSUME NEW g \in Groups
      PROVE  Cardinality({x \in View' : x.group = g /\ ~x.revoked}) <= Seats[g]
  <2> DEFINE before == {x \in View : x.group = g /\ ~x.revoked}
             after  == {x \in View' : x.group = g /\ ~x.revoked}
  <2>1. IsFiniteSet(before) /\ Cardinality(before) \in Nat /\ Seats[g] \in Nat
    BY <1>1, FS_Subset, FS_CardinalityType, ServiceAssumption DEF ServiceAssumption
  <2>2. CASE n.group = g
    <3>1. Cardinality(before) < Seats[g]
      BY <1>4, <2>2 DEF HasSeat
    <3>2. after = before \cup {n}
      BY <1>1, <1>2, <2>2
    <3> HIDE DEF before, after
    <3>3. \/ Cardinality(after) = Cardinality(before)
          \/ Cardinality(after) = Cardinality(before) + 1
      BY <2>1, <3>2, FS_AddElement
    <3>4. Cardinality(after) <= Seats[g]
      BY <2>1, <3>1, <3>3
    <3> QED
      BY <3>4 DEF after
  <2>3. CASE n.group # g
    <3>1. after = before
      BY <1>1, <2>3
    <3> QED
      BY <3>1 DEF SeatsFit
  <2> QED
    BY <2>2, <2>3
<1> QED
  BY <1>5, <1>6 DEF SeatsFit

\* No step overbooks a group or seats a student twice, in the open transaction too.
LEMMA SeatsStep == SeatsFit /\ RowsInv /\ [ServiceNext]_serviceVars => SeatsFit'
<1> SUFFICES ASSUME SeatsFit, RowsInv, [ServiceNext]_serviceVars PROVE SeatsFit'
  OBVIOUS
<1>f. IsFiniteSet(View)
  BY FS_Union DEF View, RowsInv
<1>1. ASSUME NEW r \in Requests, RunClaim(r) PROVE SeatsFit'
  <2>1. UNCHANGED archiveVars
    BY <1>1 DEF RunClaim
  <2>2. CASE InsertClaim(r)
    BY <2>1, <2>2, InsertFits
  <2>3. CASE ~InsertClaim(r)
    BY <1>1, <2>1, <2>3 DEF RunClaim, RefuseClaim, RepeatClaim, archiveVars, SeatsFit, View
  <2> QED
    BY <2>2, <2>3
<1>2. CASE CommitClaims \/ FailClaims \/ CrashServer
  <2>1. Taken' \subseteq Taken
    BY <1>2 DEF CommitClaims, FailClaims, CrashServer, archiveVars, Taken, View
  <2> QED
    BY <1>f, <2>1, FewerFit
<1>3. ASSUME NEW r \in Requests, (\E c \in Claims : SendClaim(r, c)) \/ AnswerClaim(r)
      PROVE  SeatsFit'
  BY <1>3 DEF SendClaim, AnswerClaim, archiveVars, requestVars, SeatsFit, View
<1>4. CASE WriterAlone \/ UNCHANGED serviceVars
  BY <1>4 DEF WriterAlone, archiveVars, requestVars, serviceVars, SeatsFit, View
<1>5. CASE Administer \/ Meanwhile
  <2>1. UNCHANGED pending
    BY <1>5, TablesStep DEF requestVars
  <2>2. ASSUME NEW x \in rows, Revoke(x) PROVE Taken' \subseteq Taken
    <3>1. [x EXCEPT !.revoked = TRUE].revoked
      BY <2>2 DEF Revoke
    <3> QED
      BY <2>1, <2>2, <3>1 DEF Revoke, Taken, View
  <2>3. ASSUME NEW n \in Names, CreateActivity(n) PROVE Taken' \subseteq Taken
    BY <2>1, <2>3 DEF CreateActivity, Taken, View
  <2>4. ASSUME NEW n \in Names, Retitle(n) \/ Relabel(n) PROVE Taken' \subseteq Taken
    BY <2>1, <2>4 DEF Retitle, Relabel, Taken, View
  <2>5. ASSUME UNCHANGED archiveVars \/ (\E x \in rows : FetchReceipt(x))
                \/ (\E a \in DOMAIN archive : DeleteArchive(a))
        PROVE  Taken' \subseteq Taken
    <3>1. UNCHANGED rows
      BY <2>5 DEF archiveVars, FetchReceipt, DeleteArchive
    <3> QED
      BY <2>1, <3>1 DEF Taken, View
  <2>6. Taken' \subseteq Taken
    BY <1>5, <2>2, <2>3, <2>4, <2>5, TablesStep
  <2> QED
    BY <1>f, <2>6, FewerFit
<1> QED
  BY <1>1, <1>2, <1>3, <1>4, <1>5 DEF ServiceNext

\* A request's row is recorded in the activity of its page.
LEMMA StaleStep ==
  NoStaleWrite /\ ReceiptInv /\ [ServiceNext]_serviceVars => NoStaleWrite'
<1> SUFFICES ASSUME NoStaleWrite, ReceiptInv, [ServiceNext]_serviceVars
             PROVE  NoStaleWrite'
  OBVIOUS
<1> USE DEF NoStaleWrite, ReceiptInv, OnRequests
<1>1. ASSUME NEW r \in Requests, RunClaim(r) PROVE NoStaleWrite'
  <2>1. UNCHANGED <<claim, current>>
    BY <1>1 DEF RunClaim, archiveVars
  <2>2. \A x : Receipt(x).activity = current
    BY DEF Receipt
  <2>3. CASE RefuseClaim(r)
    BY <2>1, <2>3 DEF RefuseClaim
  <2>4. ASSUME NEW x, built' = [built EXCEPT ![r] = {Receipt(x)}], Refusal(r) = "none"
        PROVE  NoStaleWrite'
    <3>1. current = claim[r].page
      BY <2>4, Admitted DEF PageAccepted
    <3> QED
      BY <2>1, <2>2, <2>4, <3>1
  <2>5. CASE RepeatClaim(r)
    BY <2>4, <2>5 DEF RepeatClaim
  <2>6. CASE InsertClaim(r)
    BY <2>4, <2>6 DEF InsertClaim
  <2> QED
    BY <1>1, <2>3, <2>5, <2>6 DEF RunClaim
<1>2. ASSUME NEW r \in Requests, NEW c \in Claims, SendClaim(r, c) PROVE NoStaleWrite'
  BY <1>2 DEF SendClaim, Writer!Submit
<1>3. CASE UNCHANGED <<claim, built>>
  BY <1>3
<1>4. ASSUME NEW r \in Requests, AnswerClaim(r) PROVE UNCHANGED <<claim, built>>
  BY <1>4 DEF AnswerClaim, requestVars
<1>5. CommitClaims \/ FailClaims \/ CrashServer => UNCHANGED <<claim, built>>
  BY DEF CommitClaims, FailClaims, CrashServer
<1>6. WriterAlone \/ Administer \/ Meanwhile \/ UNCHANGED serviceVars
        => UNCHANGED <<claim, built>>
  BY DEF WriterAlone, Administer, Meanwhile, requestVars, serviceVars
<1> QED
  BY <1>1, <1>2, <1>3, <1>4, <1>5, <1>6 DEF ServiceNext

-----------------------------------------------------------------------------
(* Receipts. *)

\* A row that is on record stays, or its activity is deleted as a whole.
LEMMA BackedStep ==
  ASSUME RowsInv, NEW t, Backed(t), Administer \/ Meanwhile
  PROVE  Backed(t)'
<1> USE DEF Backed, Answers
<1>1. CASE UNCHANGED archiveVars
  BY <1>1 DEF archiveVars, Known, RowsOf
<1>2. ASSUME NEW x \in rows, FetchReceipt(x) PROVE Backed(t)'
  BY <1>2 DEF FetchReceipt, Known, RowsOf
<1>3. ASSUME NEW x \in rows, Revoke(x) PROVE Backed(t)'
  <2>1. UNCHANGED <<title, archive, current, lastActivity>>
    BY <1>3 DEF Revoke
  <2>2. /\ rows' = (rows \ {x}) \cup {[x EXCEPT !.revoked = TRUE]}
    BY <1>3 DEF Revoke
  <2>3. DEFINE y == [x EXCEPT !.revoked = TRUE]
  <2>4. y.id = x.id /\ y.student = x.student /\ y.group = x.group
    OBVIOUS
  <2>5. \A z \in rows : Answers(z, t) => \E w \in rows' : Answers(w, t)
    BY <2>2, <2>4
  <2> QED
    BY <2>1, <2>5 DEF Known, RowsOf
<1>4. ASSUME NEW n \in Names, Retitle(n) \/ Relabel(n) PROVE Backed(t)'
  <2>1. UNCHANGED <<archive, current, lastActivity, rows>> /\ Known' = Known
    BY <1>4 DEF Retitle, Relabel, Known
  <2> QED
    BY <2>1 DEF RowsOf
<1>5. ASSUME NEW n \in Names, CreateActivity(n) PROVE Backed(t)'
  <2>1. lastActivity' = lastActivity + 1 /\ current' = lastActivity + 1
    BY <1>5 DEF CreateActivity
  <2>2. Known' = Known \cup {lastActivity + 1}
    BY <1>5 DEF CreateActivity, Known
  <2>3. /\ DOMAIN archive' = DOMAIN archive \cup {current}
        /\ archive'[current].rows = rows
        /\ \A a \in DOMAIN archive : a # current => archive'[a] = archive[a]
    BY <1>5 DEF CreateActivity
  <2>4. t.activity # lastActivity + 1
    BY DEF RowsInv
  <2>5. t.activity <= lastActivity'
    BY <2>1 DEF RowsInv
  <2>6. RowsOf(t.activity)' = RowsOf(t.activity)
    BY <2>1, <2>3, <2>4 DEF RowsOf
  <2> QED
    BY <2>2, <2>4, <2>5, <2>6
<1>6. ASSUME NEW a \in DOMAIN archive, DeleteArchive(a) PROVE Backed(t)'
  <2>1. UNCHANGED <<current, lastActivity, rows>> /\ Known' = Known \ {a}
    BY <1>6 DEF DeleteArchive, Known
  <2>2. /\ DOMAIN archive' = DOMAIN archive \ {a}
        /\ \A b \in DOMAIN archive' : archive'[b] = archive[b]
    BY <1>6 DEF DeleteArchive
  <2>3. t.activity # a => RowsOf(t.activity)' = RowsOf(t.activity)
    BY <2>1, <2>2 DEF RowsOf
  <2> QED
    BY <2>1, <2>3
<1> QED
  BY <1>1, <1>2, <1>3, <1>4, <1>5, <1>6, TablesStep

\* A committed transaction only adds rows.
LEMMA BackedCommit ==
  ASSUME RowsInv, NEW t, Backed(t), CommitClaims
  PROVE  Backed(t)'
  BY DEF Backed, CommitClaims, Known, RowsOf

\* No step leaves a receipt without its row.
LEMMA ReceiptStep ==
  WriterInv /\ RowsInv /\ ReceiptInv /\ [ServiceNext]_serviceVars => ReceiptInv'
<1> SUFFICES ASSUME WriterInv, RowsInv, ReceiptInv, [ServiceNext]_serviceVars
             PROVE  ReceiptInv'
  OBVIOUS
<1> USE DEF ReceiptInv, OnRequests
<1>1. ASSUME NEW r \in Requests, RunClaim(r) PROVE ReceiptInv'
  <2>1. /\ writer = "working" /\ r \in active \ run
        /\ UNCHANGED <<writer, durable, reply, claim, archiveVars>>
    BY <1>1 DEF RunClaim, RefuseClaim, RepeatClaim, InsertClaim, Writer!RunJob, Writer!lifecycle
  <2>2. r \notin good /\ r \notin durable /\ reply[r] # "none"
    BY <2>1 DEF WriterInv
  <2>3. \A t : Backed(t) => Backed(t)'
    BY <2>1 DEF Backed, archiveVars, Known, RowsOf
  <2>4. CASE RefuseClaim(r)
    <3>1. UNCHANGED <<pending, built, good>>
      BY <2>4 DEF RefuseClaim, Writer!RunJob
    <3> QED
      BY <2>1, <2>3, <3>1 DEF View, archiveVars
  <2>5. ASSUME NEW x \in View', built' = [built EXCEPT ![r] = {Receipt(x)}],
               View \subseteq View', good' = good \cup {r}
        PROVE  ReceiptInv'
    <3>1. Receipt(x).activity = current /\ Answers(x, Receipt(x))
      BY DEF Receipt, Answers
    <3>2. current' = current
      BY <2>1 DEF archiveVars
    <3>3. /\ built'[r] = {Receipt(x)}
          /\ \A q \in Requests : q # r => built'[q] = built[q]
      BY <2>5
    <3>4. \A q \in good' : \A t \in built'[q] :
            t.activity = current' /\ \E y \in View' : Answers(y, t)
      BY <2>1, <2>2, <2>5, <3>1, <3>2, <3>3 DEF WriterInv
    <3>5. \A q \in durable' : \A t \in built'[q] : Backed(t)'
      BY <2>1, <2>2, <2>3, <3>3 DEF WriterInv
    <3> HIDE DEF Answers, Receipt
    <3>6. OnRequests(claim)' /\ OnRequests(built)'
      BY <2>1, <2>5
    <3>7. \A q \in Requests : /\ reply'[q] = "none" => built'[q] = {}
                             /\ \A t, u \in built'[q] : t = u
      BY <2>1, <2>2, <3>3
    <3> QED
      BY <3>4, <3>5, <3>6, <3>7
  <2>6. CASE RepeatClaim(r)
    <3>1. PICK x \in Existing(r) : /\ Writer!RunJob(r, TRUE)
                                  /\ built' = [built EXCEPT ![r] = {Receipt(x)}]
      BY <2>6 DEF RepeatClaim
    <3>2. View' = View /\ x \in View
      BY <2>1, <2>6, <3>1 DEF RepeatClaim, View, Existing, archiveVars
    <3>3. good' = good \cup {r}
      BY <3>1 DEF Writer!RunJob
    <3> QED
      BY <2>5, <3>1, <3>2, <3>3
  <2>7. CASE InsertClaim(r)
    <3>1. View' = View \cup {NewRow(r)}
      BY <2>1, <2>7 DEF InsertClaim, View, archiveVars
    <3>2. good' = good \cup {r}
      BY <2>7 DEF InsertClaim, Writer!RunJob
    <3> QED
      BY <2>5, <2>7, <3>1, <3>2 DEF InsertClaim
  <2> QED
    BY <1>1, <2>4, <2>6, <2>7 DEF RunClaim
<1>2. ASSUME NEW r \in Requests, NEW c \in Claims, SendClaim(r, c) PROVE ReceiptInv'
  <2>1. /\ reply[r] = "none" /\ claim' = [claim EXCEPT ![r] = c]
        /\ \A q \in Requests : reply'[q] = "none" => reply[q] = "none"
        /\ UNCHANGED <<good, durable, built, pending, archiveVars>>
    BY <1>2 DEF SendClaim, Writer!Submit, Writer!Enqueue, Writer!batch, WriterInv
  <2>2. writer' = "working" => writer = "working"
    BY <1>2 DEF SendClaim, Writer!Submit, Writer!Enqueue
  <2>3. \A t : Backed(t) => Backed(t)'
    BY <2>1 DEF Backed, archiveVars, Known, RowsOf
  <2> QED
    BY <2>1, <2>2, <2>3 DEF View, archiveVars
<1>3. ASSUME NEW r \in Requests, AnswerClaim(r) PROVE ReceiptInv'
  <2>1. /\ \A q \in Requests : reply'[q] = "none" => reply[q] = "none"
        /\ UNCHANGED <<writer, good, durable, built, claim, pending>>
        /\ UNCHANGED <<title, archive, current, lastActivity, rows>>
    BY <1>3 DEF AnswerClaim, Writer!Deliver, Writer!Refuse, Writer!batch, WriterInv, requestVars
  <2>2. \A t : Backed(t) => Backed(t)'
    BY <2>1 DEF Backed, Known, RowsOf
  <2> QED
    BY <2>1, <2>2 DEF View
<1>4. CASE CommitClaims
  <2>1. /\ writer = "working" /\ durable' = durable \cup good /\ writer' = "resolving"
        /\ UNCHANGED <<good, reply, claim, built, title, archive, current, lastActivity>>
        /\ rows' = View
    BY <1>4 DEF CommitClaims, Writer!Commit, Writer!batch, View
  <2>2. \A q \in good : \A t \in built[q] : Backed(t)'
    BY <2>1 DEF Backed, RowsOf, RowsInv
  <2> QED
    BY <1>4, <2>1, <2>2, BackedCommit
<1>5. CASE FailClaims
  <2>1. /\ writer' = "resolving" /\ UNCHANGED <<durable, reply, claim, built, archiveVars>>
    BY <1>5 DEF FailClaims, Writer!FailBatch
  <2>2. \A t : Backed(t) => Backed(t)'
    BY <2>1 DEF Backed, archiveVars, Known, RowsOf
  <2> QED
    BY <2>1, <2>2
<1>6. CASE CrashServer
  <2>1. /\ writer' = "absent" /\ UNCHANGED <<durable, claim, built, archiveVars>>
        /\ \A q \in Requests : reply'[q] = "none" => reply[q] = "none"
    BY <1>6 DEF CrashServer, Writer!Crash
  <2>2. \A t : Backed(t) => Backed(t)'
    BY <2>1 DEF Backed, archiveVars, Known, RowsOf
  <2> QED
    BY <2>1, <2>2
<1>7. CASE WriterAlone
  <2>1. UNCHANGED <<durable, claim, built, pending, archiveVars, reply>>
    BY <1>7 DEF WriterAlone, requestVars, Writer!TakeBatch, Writer!FinishBatch,
                Writer!ResolveJob
  <2>2. writer' = "working" => good' = {} \/ (good' = good /\ writer = "working")
    BY <1>7 DEF WriterAlone, Writer!TakeBatch, Writer!FinishBatch, Writer!ResolveJob,
                WriterInv, Writer!batch
  <2>3. \A t : Backed(t) => Backed(t)'
    BY <2>1 DEF Backed, archiveVars, Known, RowsOf
  <2> QED
    BY <2>1, <2>2, <2>3 DEF View, archiveVars
<1>8. CASE Administer \/ Meanwhile
  <2>1. UNCHANGED <<writer, good, run, durable, reply, claim, built, pending>>
    BY <1>8, TablesStep DEF writerVars, requestVars
  <2>2. writer = "working" /\ good # {} => UNCHANGED <<current, rows>>
    <3> SUFFICES ASSUME writer = "working", good # {} PROVE UNCHANGED <<current, rows>>
      OBVIOUS
    <3>1. InTransaction
      BY DEF InTransaction, WriterInv
    <3> QED
      BY <1>8, <3>1, TablesStep DEF archiveVars, FetchReceipt
  <2>3. \A t : Backed(t) => Backed(t)'
    BY <1>8, BackedStep
  <2> QED
    BY <2>1, <2>2, <2>3 DEF View
<1>9. CASE UNCHANGED serviceVars
  <2>1. \A t : Backed(t) => Backed(t)'
    BY <1>9 DEF serviceVars, archiveVars, Backed, Known, RowsOf
  <2> QED
    BY <1>9, <2>1 DEF serviceVars, archiveVars, writerVars, requestVars, View
<1> QED
  BY <1>1, <1>2, <1>3, <1>4, <1>5, <1>6, <1>7, <1>8, <1>9 DEF ServiceNext

-----------------------------------------------------------------------------
(* What holds of the service. *)

\* The three facts about the invariant, together.
LEMMA ServiceInvariant == ServiceSpec => []ServiceInv
<1>1. ServiceInit => ServiceInv
  <2> SUFFICES ASSUME ServiceInit PROVE ServiceInv
    OBVIOUS
  <2>1. WriterInv
    BY DEF ServiceInit, Writer!Init, WriterInv, OnRequests
  <2>2. RowsInv
    BY FS_EmptySet DEF ServiceInit, ArchiveInit, RowsInv
  <2>3. ReceiptInv /\ NoStaleWrite
    BY DEF ServiceInit, Writer!Init, ReceiptInv, NoStaleWrite, OnRequests
  <2>4. SeatsFit
    <3>1. View = {}
      BY DEF ServiceInit, ArchiveInit, View
    <3>2. \A g \in Groups : {x \in View : x.group = g /\ ~x.revoked} = {}
      BY <3>1
    <3>3. \A g \in Groups : 0 <= Seats[g]
      BY ServiceAssumption DEF ServiceAssumption
    <3> QED
      BY <3>1, <3>2, <3>3, FS_EmptySet DEF SeatsFit
  <2> QED
    BY <2>1, <2>2, <2>3, <2>4 DEF ServiceInv
<1>2. ServiceInv /\ [ServiceNext]_serviceVars => ServiceInv'
  BY WriterStep, RowsStep, ReceiptStep, SeatsStep, StaleStep DEF ServiceInv
<1> QED
  BY <1>1, <1>2, PTL DEF ServiceSpec

\* No group is oversold and no student holds two seats, in the committed rows and
\* in what the callbacks of one transaction see of each other.
THEOREM SeatsFitTheorem == ServiceSpec => []SeatsFit
<1>1. ServiceInv => SeatsFit
  BY DEF ServiceInv
<1> QED
  BY <1>1, ServiceInvariant, PTL

\* A request is never recorded in another activity than its page showed.
THEOREM NoStaleWriteTheorem == ServiceSpec => []NoStaleWrite
<1>1. ServiceInv => NoStaleWrite
  BY DEF ServiceInv
<1> QED
  BY <1>1, ServiceInvariant, PTL

\* Every step of the service is a step of the archive or a stutter.
LEMMA ArchiveStep ==
  ServiceInv /\ [ServiceNext]_serviceVars => [ArchiveNext]_archiveVars
<1> SUFFICES ASSUME ServiceInv, [ServiceNext]_serviceVars
             PROVE  ArchiveNext \/ UNCHANGED archiveVars
  OBVIOUS
<1>1. ASSUME NEW r \in Requests, AnswerClaim(r)
      PROVE  ArchiveNext \/ UNCHANGED archiveVars
  <2>1. UNCHANGED <<title, archive, current, lastActivity, label, rows, lastRow, renames>>
    BY <1>1 DEF AnswerClaim
  <2>2. CASE result[r] = "ok" /\ ~claim[r].backFill /\ built[r] # {}
    <3>1. PICK t \in built[r] : built[r] = {t}
      BY <2>2 DEF ServiceInv, ReceiptInv
    <3>2. receipts' = receipts \cup {t}
      BY <1>1, <2>2, <3>1 DEF AnswerClaim
    <3>3. Backed(t)
      BY <2>2, <3>1 DEF ServiceInv, ReceiptInv, WriterInv
    <3>4. t.activity \in Known => Matching(t) # {}
      BY <3>3 DEF Backed, Answers, Matching
    <3>5. DeliverReceipt(t)
      BY <2>1, <3>2, <3>3, <3>4 DEF DeliverReceipt, Backed
    <3> QED
      BY <3>2, <3>5 DEF ArchiveNext
  <2>3. CASE ~(result[r] = "ok" /\ ~claim[r].backFill /\ built[r] # {})
    <3>1. receipts' = receipts
      BY <1>1, <2>3 DEF AnswerClaim
    <3> QED
      BY <2>1, <3>1 DEF archiveVars
  <2> QED
    BY <2>2, <2>3
<1>2. CASE CommitClaims
  <2>1. /\ rows' = rows \cup pending /\ lastRow' = lastRow + Cardinality(pending)
        /\ UNCHANGED <<title, archive, current, lastActivity, label, receipts, renames>>
    BY <1>2 DEF CommitClaims
  <2>2. rows' \ rows \subseteq pending /\ rows' = rows \cup (rows' \ rows)
    BY <2>1
  <2>3. Cardinality(pending) \in Nat /\ lastRow' >= lastRow
    BY <2>1, FS_CardinalityType DEF ServiceInv, RowsInv
  <2>4. RecordSelections(rows' \ rows, lastRow')
    BY <2>1, <2>2, <2>3 DEF RecordSelections, ServiceInv, RowsInv
  <2> QED
    BY <2>4 DEF ArchiveNext
<1>3. CASE Administer \/ Meanwhile
  BY <1>3, TablesStep DEF ArchiveNext
<1>4. CASE UNCHANGED archiveVars
  BY <1>4
<1>5. ASSUME NEW r \in Requests, RunClaim(r) \/ (\E c \in Claims : SendClaim(r, c))
      PROVE  UNCHANGED archiveVars
  BY <1>5 DEF RunClaim, SendClaim
<1>6. FailClaims \/ CrashServer \/ WriterAlone \/ UNCHANGED serviceVars
        => UNCHANGED archiveVars
  BY DEF FailClaims, CrashServer, WriterAlone, serviceVars
<1> QED
  BY <1>1, <1>2, <1>3, <1>4, <1>5, <1>6 DEF ServiceNext

\* The service, with its writer, batches, failures, crashes and lost answers,
\* implements the archive: every step is one of its transactions or leaves the
\* tables and the receipts alone.
THEOREM ImplementsArchiveTheorem == ServiceSpec => ImplementsArchive
<1>1. ServiceInit => ArchiveInit
  BY DEF ServiceInit
<1> QED
  BY <1>1, ArchiveStep, ServiceInvariant, PTL DEF ServiceSpec, ArchiveSpec, ImplementsArchive

-----------------------------------------------------------------------------
(* What verification says. *)

\* A student has one row that was not withdrawn.
OneEach(table) ==
  \A x, y \in table : x.student = y.student /\ ~x.revoked /\ ~y.revoked => x = y

\* An archived activity keeps its title and the one live row of each student.
ArchivesInv ==
  /\ Known = DOMAIN archive \cup {current}
  /\ \A a \in DOMAIN archive :
       a \in Nat /\ a < current /\ archive[a].title = title[a] /\ OneEach(archive[a].rows)
  /\ current = lastActivity

\* Archives are written once, from rows that seat each student once.
LEMMA ArchivesStep ==
  ServiceInv /\ ArchivesInv /\ [ServiceNext]_serviceVars => ArchivesInv'
<1> SUFFICES ASSUME ServiceInv, ArchivesInv, ArchiveNext \/ UNCHANGED archiveVars
             PROVE  ArchivesInv'
  BY ArchiveStep
<1> USE DEF ArchivesInv, Known
<1>1. CASE UNCHANGED <<title, archive, current, lastActivity>>
  BY <1>1 DEF OneEach
<1>2. ASSUME NEW n \in Names, Retitle(n) PROVE ArchivesInv'
  <2>1. current \notin DOMAIN archive
    BY DEF ServiceInv, RowsInv
  <2> QED
    BY <1>2, <2>1 DEF Retitle, OneEach
<1>3. ASSUME NEW n \in Names, CreateActivity(n) PROVE ArchivesInv'
  <2> DEFINE next == lastActivity + 1
  <2>1. OneEach(rows)
    BY DEF ServiceInv, SeatsFit, View, OneEach
  <2>2. /\ current' = next /\ lastActivity' = next /\ next = current + 1
        /\ current \in Nat
    BY <1>3 DEF CreateActivity, ServiceInv, RowsInv
  <2>3. /\ DOMAIN archive' = DOMAIN archive \cup {current}
        /\ archive'[current].title = title[current] /\ archive'[current].rows = rows
        /\ \A a \in DOMAIN archive : a # current => archive'[a] = archive[a]
    BY <1>3 DEF CreateActivity
  <2>4. /\ DOMAIN title' = DOMAIN title \cup {next}
        /\ \A a \in DOMAIN title : a # next => title'[a] = title[a]
    BY <1>3 DEF CreateActivity, SyncedBySettings
  <2>5. \A a \in DOMAIN archive : a # current /\ a # next /\ a < next
    BY <2>2
  <2> QED
    BY <2>1, <2>2, <2>3, <2>4, <2>5 DEF OneEach
<1>4. ASSUME NEW a \in DOMAIN archive, DeleteArchive(a) PROVE ArchivesInv'
  <2>1. a # current
    BY DEF ServiceInv, RowsInv
  <2> QED
    BY <1>4, <2>1 DEF DeleteArchive, OneEach
<1>5. ASSUME NEW n \in Names, Relabel(n)
      PROVE  UNCHANGED <<title, archive, current, lastActivity>>
  BY <1>5 DEF Relabel
<1>6. ASSUME \/ RecordSelections(rows' \ rows, lastRow')
             \/ \E x \in rows : Revoke(x) \/ FetchReceipt(x)
             \/ \E t \in receipts' : DeliverReceipt(t)
             \/ UNCHANGED archiveVars
      PROVE  UNCHANGED <<title, archive, current, lastActivity>>
  BY <1>6 DEF RecordSelections, Revoke, FetchReceipt, DeliverReceipt, archiveVars
<1> QED
  BY <1>1, <1>2, <1>3, <1>4, <1>5, <1>6 DEF ArchiveNext

\* The invariant of the archives, on top of that of the service.
LEMMA ArchivesInvariant == ServiceSpec => []ArchivesInv
<1>1. ServiceInit => ArchivesInv
  BY DEF ServiceInit, ArchiveInit, ArchivesInv, Known
<1> QED
  BY <1>1, ArchivesStep, ServiceInvariant, PTL DEF ServiceSpec

\* What a verification answers depends only on the rows, the title and the label
\* on record for the receipt's activity.
LEMMA VerdictOfArchive ==
  ASSUME NEW t, t.activity \in Known, t.activity # current,
         archive[t.activity].title = title[t.activity], t.activity \in DOMAIN archive
  PROVE  LET found == {x \in archive[t.activity].rows :
                         x.id = t.id /\ x.student = t.student /\ x.group = t.group}
         IN  Verdict(t) = IF \/ t.title # title[t.activity]
                             \/ t.label # archive[t.activity].label
                             \/ found = {}
                          THEN "unknown"
                          ELSE IF \E x \in found : x.revoked THEN "revoked" ELSE "valid"
  BY DEF Verdict, LabelOf, Matching, RowsOf

\* No step changes what the receipts of past activities are told.
LEMMA VerdictStep ==
  ServiceInv /\ ArchivesInv /\ ArchivesInv' /\ [ServiceNext]_serviceVars =>
    \A t \in receipts :
      t.activity \in Known' /\ t.activity # current' => Verdict(t)' = Verdict(t)
<1> SUFFICES ASSUME ServiceInv, ArchivesInv, ArchivesInv', ArchiveNext \/ UNCHANGED archiveVars,
                    NEW t \in receipts, t.activity \in Known', t.activity # current'
             PROVE  Verdict(t)' = Verdict(t)
  BY ArchiveStep
<1> DEFINE a == t.activity
<1>1. a \in DOMAIN archive' /\ archive'[a].title = title'[a]
  BY DEF ArchivesInv
<1>2. CASE UNCHANGED <<title, archive, current>>
  <2>1. Known' = Known /\ a \in DOMAIN archive
    BY <1>1, <1>2 DEF Known
  <2> QED
    BY <1>1, <1>2, <2>1 DEF Verdict, LabelOf, Matching, RowsOf
<1>3. ASSUME NEW n \in Names, Retitle(n) PROVE Verdict(t)' = Verdict(t)
  <2>1. title'[a] = title[a] /\ Known' = Known
    BY <1>3 DEF Retitle, Known
  <2>2. UNCHANGED <<archive, current>>
    BY <1>3 DEF Retitle
  <2> QED
    BY <1>1, <2>1, <2>2 DEF Verdict, LabelOf, Matching, RowsOf
<1>4. ASSUME NEW n \in Names, CreateActivity(n) PROVE Verdict(t)' = Verdict(t)
  <2> DEFINE next == lastActivity + 1
  <2>1. a # next /\ current' = next
    BY <1>4 DEF CreateActivity
  <2>2. title'[a] = title[a] /\ (a \in Known' <=> a \in Known)
    BY <1>4, <2>1 DEF CreateActivity, SyncedBySettings, Known
  <2>3. CASE a = current
    <3>1. archive'[a] = [title |-> title[a], label |-> label, rows |-> rows]
      BY <1>4, <2>3 DEF CreateActivity
    <3> QED
      BY <1>1, <2>1, <2>2, <2>3, <3>1 DEF Verdict, LabelOf, Matching, RowsOf
  <2>4. CASE a # current
    <3>1. a \in DOMAIN archive /\ archive'[a] = archive[a]
      BY <1>1, <1>4, <2>4 DEF CreateActivity
    <3> QED
      BY <1>1, <2>1, <2>2, <2>4, <3>1 DEF Verdict, LabelOf, Matching, RowsOf
  <2> QED
    BY <2>3, <2>4
<1>5. ASSUME NEW b \in DOMAIN archive, DeleteArchive(b) PROVE Verdict(t)' = Verdict(t)
  <2>1. a # b /\ a \in Known /\ current' = current
    BY <1>5 DEF DeleteArchive, Known
  <2>2. a \in DOMAIN archive /\ archive'[a] = archive[a] /\ title'[a] = title[a]
    BY <1>1, <1>5, <2>1 DEF DeleteArchive, Known
  <2> QED
    BY <1>1, <2>1, <2>2 DEF Verdict, LabelOf, Matching, RowsOf
<1>6. ASSUME \/ RecordSelections(rows' \ rows, lastRow')
             \/ \E x \in rows : Revoke(x) \/ FetchReceipt(x)
             \/ \E u \in receipts' : DeliverReceipt(u)
             \/ \E n \in Names : Relabel(n)
             \/ UNCHANGED archiveVars
      PROVE  UNCHANGED <<title, archive, current>>
  BY <1>6 DEF RecordSelections, Revoke, FetchReceipt, DeliverReceipt, Relabel, archiveVars
<1> QED
  BY <1>2, <1>3, <1>4, <1>5, <1>6 DEF ArchiveNext

\* What verification says of a receipt is settled when its activity is archived.
THEOREM VerdictsSettleTheorem == ServiceSpec => VerdictsSettle
<1>1. ServiceInv /\ ArchivesInv /\ ArchivesInv' /\ [ServiceNext]_serviceVars =>
        [\A t \in receipts :
           t.activity \in Known' /\ t.activity # current' => Verdict(t)' = Verdict(t)]_archiveVars
  BY VerdictStep
<1> QED
  BY <1>1, ServiceInvariant, ArchivesInvariant, PTL DEF ServiceSpec, VerdictsSettle

\* All valid receipts of a student in one activity answer for one selection.
THEOREM ValidReceiptsAgreeTheorem == ServiceSpec => []ValidReceiptsAgree
<1>1. ServiceInv /\ ArchivesInv => ValidReceiptsAgree
  <2> SUFFICES ASSUME ServiceInv, ArchivesInv, NEW t \in receipts, NEW u \in receipts,
                      Verdict(t) = "valid", Verdict(u) = "valid",
                      t.student = u.student, t.activity = u.activity
               PROVE  t.id = u.id /\ t.group = u.group
    BY DEF ValidReceiptsAgree
  <2>1. OneEach(RowsOf(t.activity))
    BY DEF ServiceInv, SeatsFit, View, ArchivesInv, OneEach, RowsOf
  <2>2. PICK x \in RowsOf(t.activity) :
          x.id = t.id /\ x.student = t.student /\ x.group = t.group /\ ~x.revoked
    BY DEF Verdict, Matching
  <2>3. PICK y \in RowsOf(t.activity) :
          y.id = u.id /\ y.student = u.student /\ y.group = u.group /\ ~y.revoked
    BY DEF Verdict, Matching
  <2> QED
    BY <2>1, <2>2, <2>3 DEF OneEach
<1> QED
  BY <1>1, ServiceInvariant, ArchivesInvariant, PTL

-----------------------------------------------------------------------------
(* What the requests are told of each other: RepeatsAgree and FirstCome.  Both *)
(* rest on the order in which callbacks run, which is the order of arrival.    *)

\* A request whose callback is still to be called.
Waits(r) == r \in queue \/ (writer = "working" /\ r \in active \ run)

\* One whose callback was called, in a batch that may have had an effect.
Ran(r) == r \in run \/ r \in durable \/ result[r] \in {"ok", "rejected"}

\* Requests run in the order of their arrival.
OrderInv ==
  /\ OnRequests(arrived) /\ sequence \in Nat
  /\ \A r \in Requests : arrived[r] \in Nat /\ arrived[r] <= sequence
  /\ \A a \in queue, b \in active : arrived[b] < arrived[a]
  /\ \A a, b \in Requests : Waits(a) /\ Ran(b) => arrived[b] < arrived[a]

\* What a request was told follows from what its callback did.
OutcomeInv ==
  /\ OnRequests(refusal)
  /\ \A r \in Requests :
       /\ reply[r] = "none" => result[r] = "none"
       /\ reply[r] # "none" => claim[r] \in Claims
       /\ reply[r] = "none" \/ Waits(r) => refusal[r] = "none"
       /\ result[r] = "rejected" => refusal[r] # "none"
       /\ result[r] = "ok" => refusal[r] = "none"
  /\ \A r \in run : r \in good <=> refusal[r] = "none"
  /\ writer = "resolving" /\ ~failed => run = active

\* Rows come from requests, and requests that succeed have rows.
OriginInv ==
  /\ pending # {} => InTransaction
  /\ roster \subseteq Students /\ \A x \in View : x.student \in roster
  /\ \A x \in rows : \E c \in durable : \E t \in built[c] : t.id = x.id
  /\ \A x \in pending : \E c \in good : \E t \in built[c] : t.id = x.id
  /\ \A r \in durable \cup good :
       /\ built[r] # {}
       /\ \A t \in built[r] : t.student = claim[r].student /\ t.group = claim[r].group

\* A receipt built since the last edit of names shows the names on record.
WordingInv ==
  /\ OnRequests(builtAt) /\ renames \in Nat
  /\ \A r \in Requests :
       /\ builtAt[r] \in Nat /\ builtAt[r] <= renames
       /\ \A t \in built[r] :
            /\ t = [activity |-> t.activity, id |-> t.id, student |-> t.student,
                    group |-> t.group, title |-> t.title, label |-> t.label]
            /\ t.activity \in Nat /\ t.activity <= lastActivity
            /\ builtAt[r] = renames /\ t.activity = current =>
                 t.title = title[current] /\ t.label = label

\* The two requests were given one selection, and one receipt if no name was
\* edited in between.
SameAnswer(a, b) ==
  \A t \in built[a], u \in built[b] :
    t.id = u.id /\ (builtAt[a] = builtAt[b] => t = u)

\* What RepeatsAgree will ask of the pair once the second is answered.
Agree(a, b) ==
  \/ refusal[b] = "none" /\ SameAnswer(a, b)
  \/ refusal[b] \in {"stale", "unaddressed"}
  \/ SeatGivenUp(claim[a].page, claim[a].group)

\* Has taken place, unless the batch fails: a selection and an answer.
Done(a)    == a \in durable \/ (writer = "working" /\ a \in good)
Decided(b) == (b \in run /\ ~failed) \/ result[b] \in {"ok", "rejected"}

RepeatInv ==
  \A a, b \in Requests :
    /\ Done(a) /\ Decided(b) /\ arrived[a] < arrived[b]
    /\ claim[a] = claim[b] /\ ~claim[a].backFill
    => Agree(a, b)

\* A request that has run never runs again.
Past(c) == reply[c] # "none" /\ ~Waits(c)

\* The row is that of a request which arrived before a.
Earlier(x, a) ==
  \E c \in Requests :
    Past(c) /\ arrived[c] < arrived[a] /\ \E t \in built[c] : t.id = x.id

\* The rows of a group, and those that take a seat in it.
Of(set, g)     == {x \in set : x.group = g}
LiveOf(set, g) == {x \in set : x.group = g /\ ~x.revoked}

\* The group a asked for is full, of earlier requests.
Filled(a, set) ==
  /\ \A x \in Of(set, claim[a].group) : Earlier(x, a)
  /\ Cardinality(Of(set, claim[a].group)) >= Seats[claim[a].group]

FullInv ==
  \A a \in Requests : refusal[a] = "full" =>
    /\ writer = "working" /\ a \in run =>
         /\ claim[a].page = current
         /\ SeatGivenUp(current, claim[a].group) \/ Filled(a, View)
    /\ result[a] = "rejected" \/ (writer = "resolving" /\ ~failed /\ a \in run) =>
         \/ SeatGivenUp(claim[a].page, claim[a].group)
         \/ Filled(a, RowsOf(claim[a].page))

\* Requests run in the order in which they were admitted.
LEMMA OrderStep ==
  WriterInv /\ OutcomeInv /\ OrderInv /\ [ServiceNext]_serviceVars => OrderInv'
<1> SUFFICES ASSUME WriterInv, OutcomeInv, OrderInv, [ServiceNext]_serviceVars
             PROVE  OrderInv'
  OBVIOUS
<1> USE DEF WriterInv, OrderInv, OnRequests, Waits, Ran
<1>p. \A a, b \in Requests : Writer!Before(a, b) => arrived[a] < arrived[b]
  BY DEF Writer!Before
<1>1. ASSUME NEW r \in Requests, NEW c \in Claims, SendClaim(r, c) PROVE OrderInv'
  <2>1. /\ reply[r] = "none" /\ queue' = queue \cup {r} /\ sequence' = sequence + 1
        /\ arrived' = [arrived EXCEPT ![r] = sequence + 1]
        /\ UNCHANGED <<active, run, good, failed, durable, result>>
        /\ writer' = "working" => writer = "working"
    BY <1>1 DEF SendClaim, Writer!Submit, Writer!Enqueue, Writer!batch
  <2>2. result[r] = "none" /\ r \notin queue \cup active \cup durable
    BY <2>1 DEF OutcomeInv
  <2>3. \A a, b \in Requests : Waits(a)' /\ Ran(b)' => arrived'[b] < arrived'[a]
    BY <2>1, <2>2
  <2>4. \A q \in Requests : arrived'[q] \in Nat /\ arrived'[q] <= sequence'
    BY <2>1
  <2>5. \A a \in queue', b \in active' : arrived'[b] < arrived'[a]
    BY <2>1, <2>2
  <2> QED
    BY <2>1, <2>3, <2>4, <2>5
<1>2. ASSUME NEW r \in Requests, RunClaim(r) PROVE OrderInv'
  <2>1. /\ writer = "working" /\ r \in active \ run /\ run' = run \cup {r}
        /\ \A k \in active \ run : k = r \/ Writer!Before(r, k)
        /\ UNCHANGED <<sequence, arrived, queue, writer, active, durable, result>>
    BY <1>2 DEF RunClaim, RefuseClaim, RepeatClaim, InsertClaim, Writer!RunJob
  <2>2. \A a, b \in Requests : Waits(a)' /\ Ran(b)' => arrived[b] < arrived[a]
    BY <1>p, <2>1
  <2> QED
    BY <2>1, <2>2
<1>3. CASE CommitClaims \/ FailClaims
  BY <1>3 DEF CommitClaims, FailClaims, Writer!Commit, Writer!FailBatch, Writer!batch
<1>4. CASE CrashServer
  BY <1>4 DEF CrashServer, Writer!Crash
<1>5. CASE Writer!TakeBatch
  <2>1. PICK jobs \in SUBSET queue : /\ Writer!IsNextBatch(jobs)
                                    /\ active' = jobs /\ queue' = queue \ jobs
    BY <1>5 DEF Writer!TakeBatch
  <2>2. \A a \in jobs, b \in queue \ jobs : arrived[a] < arrived[b]
    BY <1>p, <2>1 DEF Writer!IsNextBatch
  <2>3. run = {} /\ UNCHANGED <<sequence, arrived, run, durable, result>>
    BY <1>5 DEF Writer!TakeBatch
  <2> QED
    BY <2>1, <2>2, <2>3
<1>6. CASE Writer!FinishBatch
  BY <1>6 DEF Writer!FinishBatch
<1>7. ASSUME NEW r \in Requests, Writer!ResolveJob(r) PROVE OrderInv'
  <2>1. /\ writer = "resolving" /\ r \in active
        /\ result' = [result EXCEPT ![r] = Writer!Outcome(r)]
        /\ UNCHANGED <<sequence, arrived, queue, writer, active, run, durable>>
    BY <1>7 DEF Writer!ResolveJob, Writer!batch
  <2>2. Writer!Outcome(r) \in {"ok", "rejected"} => r \in run
    BY <2>1 DEF Writer!Outcome, OutcomeInv
  <2> QED
    BY <2>1, <2>2
<1>8. CASE UNCHANGED writerVars
  BY <1>8 DEF writerVars
<1>9. ASSUME NEW r \in Requests, AnswerClaim(r) PROVE OrderInv'
  BY <1>9 DEF AnswerClaim, Writer!Deliver, Writer!Refuse, Writer!batch
<1>10. UNCHANGED serviceVars => UNCHANGED writerVars
  BY DEF serviceVars
<1> QED
  BY <1>1, <1>2, <1>3, <1>4, <1>5, <1>6, <1>7, <1>8, <1>9, <1>10
  DEF ServiceNext, WriterAlone, Administer, Meanwhile

\* Pages that were shown remain pages that were shown.
LEMMA ClaimsGrow ==
  ASSUME RowsInv, [ServiceNext]_serviceVars
  PROVE  Claims \subseteq Claims'
<1>1. lastActivity' = lastActivity \/ lastActivity' = lastActivity + 1
  <2>1. CASE Administer \/ Meanwhile
    BY <2>1, TablesStep
    DEF archiveVars, FetchReceipt, Revoke, Retitle, Relabel, CreateActivity, DeleteArchive
  <2>2. CASE CommitClaims \/ FailClaims \/ CrashServer \/ WriterAlone \/ UNCHANGED serviceVars
    BY <2>2 DEF CommitClaims, FailClaims, CrashServer, WriterAlone, archiveVars, serviceVars
  <2>3. ASSUME NEW r \in Requests,
               (\E c \in Claims : SendClaim(r, c)) \/ RunClaim(r) \/ AnswerClaim(r)
        PROVE  lastActivity' = lastActivity
    BY <2>3 DEF SendClaim, RunClaim, AnswerClaim, archiveVars
  <2> QED
    BY <2>1, <2>2, <2>3 DEF ServiceNext
<1>2. 1..lastActivity \subseteq 1..lastActivity'
  BY <1>1 DEF RowsInv
<1> QED
  BY <1>2 DEF Claims

\* What a request is told follows from what its callback did.
LEMMA OutcomeStep ==
  WriterInv /\ RowsInv /\ ReceiptInv /\ OutcomeInv /\ [ServiceNext]_serviceVars
    => OutcomeInv'
<1> SUFFICES ASSUME WriterInv, RowsInv, ReceiptInv, OutcomeInv, [ServiceNext]_serviceVars
             PROVE  OutcomeInv'
  OBVIOUS
<1>c. Claims \subseteq Claims'
  BY ClaimsGrow
<1>o. OnRequests(claim)
  BY DEF ReceiptInv
<1> HIDE DEF Claims
<1> USE DEF WriterInv, OutcomeInv, OnRequests, Waits
<1>1. ASSUME NEW r \in Requests, NEW c \in Claims, SendClaim(r, c) PROVE OutcomeInv'
  <2>1. /\ reply[r] = "none" /\ reply' = [reply EXCEPT ![r] = "awaiting"]
        /\ queue' = queue \cup {r} /\ claim' = [claim EXCEPT ![r] = c]
        /\ UNCHANGED <<active, run, good, failed, durable, result, refusal>>
        /\ writer' # writer => writer' = "waiting"
    BY <1>1 DEF SendClaim, Writer!Submit, Writer!Enqueue, Writer!batch
  <2> QED
    BY <1>c, <1>o, <2>1
<1>2. ASSUME NEW r \in Requests, RunClaim(r) PROVE OutcomeInv'
  <2>1. /\ writer = "working" /\ r \in active \ run /\ run' = run \cup {r}
        /\ UNCHANGED <<queue, writer, active, reply, result, claim>>
    BY <1>2 DEF RunClaim, RefuseClaim, RepeatClaim, InsertClaim, Writer!RunJob
  <2>2. CASE RefuseClaim(r)
    <3>1. /\ Refusal(r) # "none" /\ refusal' = [refusal EXCEPT ![r] = Refusal(r)]
          /\ good' = good
      BY <2>2 DEF RefuseClaim, Writer!RunJob
    <3> QED
      BY <1>c, <2>1, <3>1
  <2>3. CASE RepeatClaim(r) \/ InsertClaim(r)
    <3>1. good' = good \cup {r} /\ refusal' = refusal
      BY <2>3 DEF RepeatClaim, InsertClaim, Writer!RunJob
    <3> QED
      BY <1>c, <2>1, <3>1
  <2> QED
    BY <1>2, <2>2, <2>3 DEF RunClaim
<1>3. ASSUME NEW r \in Requests, AnswerClaim(r) PROVE OutcomeInv'
  BY <1>3, <1>c DEF AnswerClaim, Writer!Deliver, Writer!Refuse, Writer!batch, requestVars
<1>4. CASE CommitClaims \/ FailClaims
  BY <1>4, <1>c DEF CommitClaims, FailClaims, Writer!Commit, Writer!FailBatch, Writer!batch
<1>5. CASE CrashServer
  <2>1. /\ queue' = {} /\ writer' = "absent" /\ run' = {}
        /\ result' = [q \in Requests |-> "none"]
        /\ \A q \in Requests : reply'[q] = "none" <=> reply[q] = "none"
        /\ UNCHANGED <<claim, refusal>>
    BY <1>5 DEF CrashServer, Writer!Crash
  <2> QED
    BY <1>c, <2>1
<1>6. CASE Writer!TakeBatch /\ UNCHANGED requestVars
  BY <1>6, <1>c DEF Writer!TakeBatch, Writer!IsNextBatch, requestVars
<1>7. CASE Writer!FinishBatch /\ UNCHANGED requestVars
  BY <1>7, <1>c DEF Writer!FinishBatch, requestVars
<1>8. ASSUME NEW r \in Requests, Writer!ResolveJob(r), UNCHANGED requestVars PROVE OutcomeInv'
  <2>1. /\ writer = "resolving" /\ r \in active
        /\ result' = [result EXCEPT ![r] = Writer!Outcome(r)]
        /\ UNCHANGED <<queue, writer, active, run, good, failed, reply, claim, refusal>>
    BY <1>8 DEF Writer!ResolveJob, Writer!batch, requestVars
  <2>2. /\ Writer!Outcome(r) = "rejected" => r \in run \ good
        /\ Writer!Outcome(r) = "ok" => r \in good
    BY <2>1 DEF Writer!Outcome
  <2>3. reply[r] # "none"
    BY <2>1
  <2> QED
    BY <1>c, <2>1, <2>2, <2>3
<1>9. CASE UNCHANGED <<writerVars, requestVars>>
  BY <1>9, <1>c DEF writerVars, requestVars
<1>10. UNCHANGED serviceVars => UNCHANGED <<writerVars, requestVars>>
  BY DEF serviceVars
<1> QED
  BY <1>1, <1>2, <1>3, <1>4, <1>5, <1>6, <1>7, <1>8, <1>9, <1>10
  DEF ServiceNext, WriterAlone, Administer, Meanwhile

\* The row a successful request is answered with is what it asked for.
LEMMA Granted ==
  ASSUME SeatsFit, NEW r \in Requests, Refusal(r) = "none", NEW x \in Existing(r)
  PROVE  ~claim[r].backFill /\ x.student = claim[r].student /\ x.group = claim[r].group
<1>1. Repeated(r)
  BY DEF Refusal
<1>2. PICK y \in Existing(r) : y.group = claim[r].group
  BY <1>1 DEF Repeated
<1>3. x = y
  BY <1>2 DEF SeatsFit, Existing
<1> QED
  BY <1>1, <1>2, <1>3 DEF Repeated, Existing

\* The roster changes by an import or with the activity.
LEMMA RosterStep ==
  ASSUME Administer \/ Meanwhile
  PROVE  \/ roster' = roster
         \/ roster' = Students
         \/ roster' = {} /\ rows' = {} /\ ~InTransaction
  BY DEF Administer, Meanwhile, Import, StartCountdown, CloseRound, CountdownEnds,
         NextActivity, CreateActivity, RevokeSelection, UpdateSettings,
         roundVars

\* Rows come from requests, and requests that succeed have rows.
LEMMA OriginStep ==
  ServiceInv /\ OutcomeInv /\ OriginInv /\ [ServiceNext]_serviceVars => OriginInv'
<1> SUFFICES ASSUME WriterInv, RowsInv, ReceiptInv, SeatsFit, OutcomeInv, OriginInv,
                    [ServiceNext]_serviceVars
             PROVE  OriginInv'
  BY DEF ServiceInv
<1> USE DEF OriginInv, InTransaction, View
<1>w. \A r \in durable \cup good : reply[r] # "none" /\ r \in Requests
  BY DEF WriterInv
<1>1. ASSUME NEW r \in Requests, NEW c \in Claims, SendClaim(r, c) PROVE OriginInv'
  <2>1. /\ reply[r] = "none" /\ claim' = [claim EXCEPT ![r] = c]
        /\ UNCHANGED <<run, good, durable, pending, built, roster, rows>>
        /\ writer = "working" => writer' = "working"
    BY <1>1 DEF SendClaim, Writer!Submit, Writer!Enqueue, Writer!batch, archiveVars,
                roundVars, WriterInv
  <2>2. \A q \in durable \cup good : claim'[q] = claim[q]
    BY <1>w, <2>1 DEF ReceiptInv, OnRequests
  <2> QED
    BY <2>1, <2>2
<1>2. ASSUME NEW r \in Requests, RunClaim(r) PROVE OriginInv'
  <2>1. /\ writer = "working" /\ r \in active \ run /\ run' = run \cup {r}
        /\ UNCHANGED <<writer, durable, claim, roster, rows>>
    BY <1>2 DEF RunClaim, RefuseClaim, RepeatClaim, InsertClaim, Writer!RunJob, archiveVars,
                roundVars
  <2>2. r \notin good /\ r \notin durable
    BY <2>1 DEF WriterInv
  <2>3. CASE RefuseClaim(r)
    <3>1. UNCHANGED <<pending, built, good>>
      BY <2>3 DEF RefuseClaim, Writer!RunJob
    <3> QED
      BY <2>1, <3>1
  <2>4. ASSUME NEW x, built' = [built EXCEPT ![r] = {Receipt(x)}], good' = good \cup {r},
               x.student = claim[r].student, x.group = claim[r].group
        PROVE  /\ Receipt(x) \in built'[r] /\ Receipt(x).id = x.id
               /\ \A q \in durable \cup good : built'[q] = built[q]
               /\ \A q \in durable' \cup good' :
                    /\ built'[q] # {}
                    /\ \A t \in built'[q] : /\ t.student = claim'[q].student
                                           /\ t.group = claim'[q].group
    <3>1. /\ built'[r] = {Receipt(x)}
          /\ \A q \in durable \cup good : built'[q] = built[q]
      BY <1>w, <2>2, <2>4 DEF ReceiptInv, OnRequests
    <3>2. /\ Receipt(x).id = x.id /\ Receipt(x).student = x.student
          /\ Receipt(x).group = x.group
      BY DEF Receipt
    <3> HIDE DEF Receipt
    <3>3. \A t \in built'[r] : t.student = claim[r].student /\ t.group = claim[r].group
      BY <2>4, <3>1, <3>2
    <3>4. /\ claim' = claim /\ \A q \in durable' \cup good' : q = r \/ q \in durable \cup good
      BY <2>1, <2>4
    <3>5. ASSUME NEW q \in durable' \cup good'
          PROVE  /\ built'[q] # {}
                 /\ \A t \in built'[q] : /\ t.student = claim'[q].student
                                        /\ t.group = claim'[q].group
      <4>1. CASE q = r
        BY <3>1, <3>3, <3>4, <4>1
      <4>2. CASE q \in durable \cup good
        BY <3>1, <3>4, <4>2
      <4> QED
        BY <3>4, <4>1, <4>2
    <3> QED
      BY <3>1, <3>2, <3>5
  <2>5. CASE RepeatClaim(r)
    <3>1. PICK x \in Existing(r) : /\ Writer!RunJob(r, TRUE)
                                  /\ built' = [built EXCEPT ![r] = {Receipt(x)}]
      BY <2>5 DEF RepeatClaim
    <3>2. x.student = claim[r].student /\ x.group = claim[r].group
      BY <2>5, Granted DEF RepeatClaim
    <3>3. good' = good \cup {r} /\ pending' = pending
      BY <2>5, <3>1 DEF RepeatClaim, Writer!RunJob
    <3>4. /\ \A q \in durable \cup good : built'[q] = built[q]
          /\ \A q \in durable' \cup good' :
               /\ built'[q] # {}
               /\ \A t \in built'[q] : t.student = claim'[q].student /\ t.group = claim'[q].group
      BY <2>4, <3>1, <3>2, <3>3
    <3>5. \A y \in rows' : \E q \in durable' : \E t \in built'[q] : t.id = y.id
      BY <2>1, <3>4
    <3>6. \A y \in pending' : \E q \in good' : \E t \in built'[q] : t.id = y.id
      BY <3>3, <3>4
    <3> QED
      BY <2>1, <3>3, <3>4, <3>5, <3>6
  <2>6. CASE InsertClaim(r)
    <3> DEFINE x == NewRow(r)
    <3>1. x.student = claim[r].student /\ x.group = claim[r].group
      BY DEF NewRow
    <3>2. /\ good' = good \cup {r} /\ pending' = pending \cup {x}
          /\ built' = [built EXCEPT ![r] = {Receipt(x)}]
      BY <2>6 DEF InsertClaim, Writer!RunJob
    <3>3. claim[r].student \in roster
      BY <2>6 DEF InsertClaim, Refusal
    <3> HIDE DEF x
    <3>4. /\ Receipt(x) \in built'[r] /\ Receipt(x).id = x.id
          /\ \A q \in durable \cup good : built'[q] = built[q]
          /\ \A q \in durable' \cup good' :
               /\ built'[q] # {}
               /\ \A t \in built'[q] : t.student = claim'[q].student /\ t.group = claim'[q].group
      BY <2>4, <3>1, <3>2
    <3>5. \A y \in rows' : \E q \in durable' : \E t \in built'[q] : t.id = y.id
      BY <2>1, <3>4
    <3>6. \A y \in pending' : \E q \in good' : \E t \in built'[q] : t.id = y.id
      BY <3>2, <3>4
    <3>7. \A y \in View' : y.student \in roster'
      BY <2>1, <3>1, <3>2, <3>3
    <3> QED
      BY <2>1, <3>4, <3>5, <3>6, <3>7
  <2> QED
    BY <1>2, <2>3, <2>5, <2>6 DEF RunClaim
<1>3. CASE CommitClaims \/ FailClaims \/ CrashServer
  <2>1. /\ pending' = {} /\ UNCHANGED <<claim, built, roster>>
    BY <1>3 DEF CommitClaims, FailClaims, CrashServer, roundVars
  <2>2. \/ rows' = rows \cup pending /\ durable' = durable \cup good /\ good' = good
        \/ rows' = rows /\ durable' = durable /\ (good' = good \/ good' = {})
    BY <1>3 DEF CommitClaims, FailClaims, CrashServer, Writer!Commit, Writer!FailBatch,
                Writer!Crash, Writer!batch, archiveVars
  <2> QED
    BY <2>1, <2>2
<1>4. CASE WriterAlone
  <2>1. /\ writer # "working" /\ pending = {}
        /\ UNCHANGED <<pending, claim, built, roster, rows, durable>>
        /\ good' = good \/ good' = {}
    BY <1>4 DEF WriterAlone, Writer!TakeBatch, Writer!FinishBatch, Writer!ResolveJob,
                Writer!batch, archiveVars, roundVars, requestVars
  <2> QED
    BY <2>1
<1>5. CASE Administer \/ Meanwhile
  <2>1. UNCHANGED <<writer, run, good, durable, pending, claim, built>>
    BY <1>5, TablesStep DEF writerVars, requestVars
  <2>2. /\ rows' # rows => ~InTransaction
        /\ \A x \in rows' : \E y \in rows : x.id = y.id /\ x.student = y.student
    <3>1. ASSUME NEW y \in rows, Revoke(y)
          PROVE  \A x \in rows' : \E z \in rows : x.id = z.id /\ x.student = z.student
      <4>1. LET z == [y EXCEPT !.revoked = TRUE] IN z.id = y.id /\ z.student = y.student
        OBVIOUS
      <4> QED
        BY <3>1, <4>1 DEF Revoke
    <3> QED
      BY <1>5, <3>1, TablesStep
      DEF archiveVars, FetchReceipt, Retitle, Relabel, CreateActivity, DeleteArchive
  <2>3. \A x \in View : x.student \in Students
    OBVIOUS
  <2>4. \A x \in View' : x.student \in roster'
    BY <1>5, <2>1, <2>2, <2>3, RosterStep
  <2>5. roster' \subseteq Students
    BY <1>5, RosterStep
  <2>6. \A x \in rows' : \E q \in durable' : \E t \in built'[q] : t.id = x.id
    BY <2>1, <2>2
  <2> QED
    BY <2>1, <2>4, <2>5, <2>6
<1>6. ASSUME NEW r \in Requests, AnswerClaim(r) PROVE OriginInv'
  BY <1>6 DEF AnswerClaim, Writer!Deliver, Writer!Refuse, Writer!batch, requestVars, roundVars
<1>7. CASE UNCHANGED serviceVars
  BY <1>7 DEF serviceVars, archiveVars, writerVars, requestVars, roundVars
<1> QED
  BY <1>1, <1>2, <1>3, <1>4, <1>5, <1>6, <1>7 DEF ServiceNext

\* What was given up stays on record, as long as there is a record.
LEMMA GivenUpStays ==
  ASSUME ServiceInv, ArchivesInv, [ServiceNext]_serviceVars,
         NEW a \in 1..lastActivity, NEW g, SeatGivenUp(a, g)
  PROVE  SeatGivenUp(a, g)'
<1> USE DEF SeatGivenUp, Known, RowsOf
<1>0. ArchiveNext \/ UNCHANGED archiveVars
  BY ArchiveStep
<1>1. ASSUME NEW x \in rows, Revoke(x) PROVE SeatGivenUp(a, g)'
  <2>1. \A y \in rows : y.revoked => y \in rows'
    BY <1>1 DEF Revoke
  <2> QED
    BY <1>1, <2>1 DEF Revoke
<1>2. ASSUME NEW n \in Names, Retitle(n) PROVE SeatGivenUp(a, g)'
  BY <1>2 DEF Retitle
<1>3. ASSUME NEW n \in Names, CreateActivity(n) PROVE SeatGivenUp(a, g)'
  <2>1. /\ current' = lastActivity + 1 /\ lastActivity \in Nat
        /\ Known' = Known \cup {lastActivity + 1}
        /\ DOMAIN archive' = DOMAIN archive \cup {current}
        /\ archive'[current].rows = rows
        /\ \A b \in DOMAIN archive : b # current => archive'[b] = archive[b]
    BY <1>3 DEF CreateActivity, ServiceInv, RowsInv
  <2>2. a # current' /\ (a \in Known' => a \in Known)
    BY <2>1
  <2>3. RowsOf(a)' = RowsOf(a)
    BY <2>1, <2>2
  <2> QED
    BY <2>2, <2>3
<1>4. ASSUME NEW b \in DOMAIN archive, DeleteArchive(b) PROVE SeatGivenUp(a, g)'
  BY <1>4 DEF DeleteArchive
<1>5. ASSUME RecordSelections(rows' \ rows, lastRow') PROVE SeatGivenUp(a, g)'
  BY <1>5 DEF RecordSelections
<1>6. ASSUME \/ \E x \in rows : FetchReceipt(x)
             \/ \E n \in Names : Relabel(n)
             \/ \E t \in receipts' : DeliverReceipt(t)
             \/ UNCHANGED archiveVars
      PROVE  SeatGivenUp(a, g)'
  BY <1>6 DEF FetchReceipt, Relabel, DeliverReceipt, archiveVars
<1> QED
  BY <1>0, <1>1, <1>2, <1>3, <1>4, <1>5, <1>6 DEF ArchiveNext

\* Receipts are built by callbacks, from the names on record.
LEMMA BuiltStep ==
  ASSUME [ServiceNext]_serviceVars
  PROVE  \/ UNCHANGED <<built, builtAt>>
         \/ \E r \in Requests : \E x :
              /\ RunClaim(r) /\ UNCHANGED archiveVars
              /\ built' = [built EXCEPT ![r] = {Receipt(x)}]
              /\ builtAt' = [builtAt EXCEPT ![r] = renames]
<1>1. ASSUME NEW r \in Requests, RunClaim(r)
      PROVE  \/ UNCHANGED <<built, builtAt>>
             \/ \E x : /\ built' = [built EXCEPT ![r] = {Receipt(x)}]
                       /\ builtAt' = [builtAt EXCEPT ![r] = renames]
  <2> HIDE DEF Receipt
  <2> QED
    BY <1>1 DEF RunClaim, RefuseClaim, RepeatClaim, InsertClaim
<1>2. CASE \A r \in Requests : ~RunClaim(r)
  BY <1>2 DEF ServiceNext, SendClaim, AnswerClaim, CommitClaims, FailClaims, CrashServer,
              WriterAlone, Administer, Meanwhile, requestVars, serviceVars
<1> QED
  BY <1>1, <1>2 DEF RunClaim

\* Edits of names are counted, and a new activity is none of those shown so far.
LEMMA WordingStep ==
  ServiceInv /\ ArchivesInv /\ WordingInv /\ [ServiceNext]_serviceVars => WordingInv'
<1> SUFFICES ASSUME ServiceInv, ArchivesInv, WordingInv, [ServiceNext]_serviceVars
             PROVE  WordingInv'
  OBVIOUS
<1> USE DEF WordingInv, OnRequests
<1>1. current \in Nat /\ lastActivity = current
  BY DEF ServiceInv, RowsInv, ArchivesInv
<1>2. ASSUME NEW r \in Requests, NEW x, UNCHANGED archiveVars,
             built' = [built EXCEPT ![r] = {Receipt(x)}],
             builtAt' = [builtAt EXCEPT ![r] = renames]
      PROVE  WordingInv'
  <2>1. UNCHANGED <<title, current, lastActivity, label, renames>>
    BY <1>2 DEF archiveVars
  <2>2. built'[r] = {Receipt(x)} /\ \A q \in Requests : q # r => built'[q] = built[q]
    BY <1>2 DEF ServiceInv, ReceiptInv
  <2>3. /\ builtAt'[r] = renames /\ \A q \in Requests : q # r => builtAt'[q] = builtAt[q]
        /\ OnRequests(builtAt')
    BY <1>2
  <2>4. \A t \in built'[r] :
          /\ t = [activity |-> t.activity, id |-> t.id, student |-> t.student,
                  group |-> t.group, title |-> t.title, label |-> t.label]
          /\ t.activity = current /\ t.title = title[current] /\ t.label = label
    BY <2>2 DEF Receipt
  <2> QED
    BY <1>1, <2>1, <2>2, <2>3, <2>4
<1>3. CASE UNCHANGED <<built, builtAt>>
  <2>1. CASE UNCHANGED <<title, current, lastActivity, label, renames>>
    BY <1>3, <2>1
  <2>2. ASSUME NEW n \in Names, Retitle(n) \/ Relabel(n) PROVE WordingInv'
    <3>1. renames' = renames + 1 /\ UNCHANGED <<current, lastActivity>>
      BY <2>2 DEF Retitle, Relabel
    <3>2. \A r \in Requests : builtAt'[r] # renames'
      BY <1>3, <3>1
    <3> QED
      BY <1>3, <3>1, <3>2
  <2>3. ASSUME NEW n \in Names, CreateActivity(n) PROVE WordingInv'
    <3>1. current' = lastActivity + 1 /\ lastActivity' = lastActivity + 1 /\ renames' = renames
      BY <2>3 DEF CreateActivity
    <3>2. \A r \in Requests : \A t \in built'[r] :
            t.activity # current' /\ t.activity <= lastActivity'
      BY <1>1, <1>3, <3>1
    <3> QED
      BY <1>3, <3>1, <3>2
  <2>4. ASSUME NEW a \in DOMAIN archive, DeleteArchive(a) PROVE WordingInv'
    <3>1. a # current /\ current \in Known
      BY <1>1 DEF ArchivesInv
    <3>2. title'[current] = title[current] /\ UNCHANGED <<current, lastActivity, label, renames>>
      BY <2>4, <3>1 DEF DeleteArchive
    <3> QED
      BY <1>3, <3>2
  <2>5. ASSUME \/ RecordSelections(rows' \ rows, lastRow')
               \/ \E x \in rows : Revoke(x) \/ FetchReceipt(x)
               \/ \E t \in receipts' : DeliverReceipt(t)
               \/ UNCHANGED archiveVars
        PROVE  UNCHANGED <<title, current, lastActivity, label, renames>>
    BY <2>5 DEF RecordSelections, Revoke, FetchReceipt, DeliverReceipt, archiveVars
  <2> QED
    BY <2>1, <2>2, <2>3, <2>4, <2>5, ArchiveStep DEF ArchiveNext
<1> QED
  BY <1>2, <1>3, BuiltStep

\* The selection on record for a request that took place is found by the same
\* claim made again, or it was given up.
LEMMA Found ==
  ASSUME ServiceInv, ArchivesInv, OriginInv, writer = "working",
         NEW a \in Requests, Done(a), claim[a].page = current
  PROVE  \/ SeatGivenUp(current, claim[a].group)
         \/ \A t \in built[a] : \E x \in View :
              /\ x.id = t.id /\ ~x.revoked
              /\ x.student = claim[a].student /\ x.group = claim[a].group
<1> SUFFICES ASSUME NEW t \in built[a]
             PROVE  \E x \in View :
                      /\ x.id = t.id /\ x.student = claim[a].student /\ x.group = claim[a].group
                      /\ x.revoked => SeatGivenUp(current, claim[a].group)
  <2>1. \A t, u \in built[a] : t = u
    BY DEF ServiceInv, ReceiptInv
  <2> QED
    BY <2>1
<1>1. t.student = claim[a].student /\ t.group = claim[a].group
  BY DEF OriginInv, Done
<1>2. t.activity = current
  BY DEF ServiceInv, NoStaleWrite
<1>3. \E x \in View : Answers(x, t)
  <2>1. CASE a \in durable
    BY <1>2, <2>1 DEF ServiceInv, ReceiptInv, Backed, ArchivesInv, RowsOf, View
  <2>2. CASE a \in good
    BY <2>2 DEF ServiceInv, ReceiptInv
  <2> QED
    BY <2>1, <2>2 DEF Done
<1>4. PICK x \in View : Answers(x, t)
  BY <1>3
<1>5. x.revoked => x \in rows
  BY DEF View, ServiceInv, RowsInv
<1>6. x.revoked /\ x.group = claim[a].group => SeatGivenUp(current, claim[a].group)
  BY <1>5 DEF SeatGivenUp, RowsOf
<1> QED
  BY <1>1, <1>4, <1>6 DEF Answers

\* A claim that repeats one on record is told what the first was told.
LEMMA RepeatAgrees ==
  ASSUME ServiceInv, ArchivesInv, OutcomeInv, OriginInv, WordingInv,
         NEW r \in Requests, RunClaim(r),
         NEW a \in Requests, a # r, Done(a), claim[a] = claim[r], ~claim[a].backFill
  PROVE  Agree(a, r)'
<1>1. /\ writer = "working" /\ r \in active \ run
      /\ UNCHANGED <<archiveVars, claim, roster>>
  BY DEF RunClaim, RefuseClaim, RepeatClaim, InsertClaim, Writer!RunJob, roundVars
<1>2. refusal[r] = "none"
  BY <1>1 DEF OutcomeInv, Waits
<1>3. SeatGivenUp(claim[a].page, claim[a].group) => Agree(a, r)'
  BY <1>1 DEF SeatGivenUp, archiveVars, Known, RowsOf, Agree
<1>4. built'[a] = built[a]
  BY DEF RunClaim, RefuseClaim, RepeatClaim, InsertClaim, ServiceInv, ReceiptInv, OnRequests
<1>5. CASE ~PageAccepted(r)
  <2>1. Refusal(r) = "stale"
    BY <1>5 DEF Refusal
  <2>2. RefuseClaim(r)
    BY <2>1 DEF RunClaim, RepeatClaim, InsertClaim
  <2>3. refusal'[r] = "stale"
    BY <2>1, <2>2 DEF RefuseClaim, OutcomeInv, OnRequests
  <2> QED
    BY <2>3 DEF Agree
<1>6. CASE PageAccepted(r) /\ ~SeatGivenUp(claim[a].page, claim[a].group)
  <2>1. claim[a].page = current
    BY <1>6 DEF PageAccepted
  <2>2. \A t \in built[a] : \E x \in View :
          /\ x.id = t.id /\ ~x.revoked
          /\ x.student = claim[a].student /\ x.group = claim[a].group
    BY <1>1, <1>6, <2>1, Found
  <2>3. PICK t \in built[a] : TRUE
    BY DEF OriginInv, Done
  <2>4. PICK x \in View : /\ x.id = t.id /\ ~x.revoked
                         /\ x.student = claim[r].student /\ x.group = claim[r].group
    BY <2>2
  <2>5. x \in Existing(r) /\ Repeated(r) /\ claim[r].student \in roster
    BY <2>4 DEF Existing, Repeated, OriginInv
  <2>a. CASE ~Addressed
    <3>1. Refusal(r) = "unaddressed"
      BY <1>6, <2>5, <2>a DEF Refusal
    <3>2. RefuseClaim(r)
      BY <3>1 DEF RunClaim, RepeatClaim, InsertClaim
    <3>3. refusal'[r] = "unaddressed"
      BY <3>1, <3>2 DEF RefuseClaim, OutcomeInv, OnRequests
    <3> QED
      BY <3>3 DEF Agree
  <2> SUFFICES ASSUME Addressed PROVE Agree(a, r)'
    BY <2>a
  <2>6. Refusal(r) = "none"
    BY <1>6, <2>5 DEF Refusal
  <2>7. PICK y \in Existing(r) : /\ built' = [built EXCEPT ![r] = {Receipt(y)}]
                                /\ builtAt' = [builtAt EXCEPT ![r] = renames]
    <3> HIDE DEF Receipt
    <3> QED
      BY <2>5, <2>6 DEF RunClaim, RefuseClaim, RepeatClaim, InsertClaim
  <2>8. y = x
    BY <2>5 DEF Existing, ServiceInv, SeatsFit
  <2>9. built'[r] = {Receipt(y)} /\ Receipt(y).id = x.id
    BY <2>7, <2>8 DEF ServiceInv, ReceiptInv, OnRequests, Receipt
  <2>10. refusal' = refusal
    BY <2>6 DEF RunClaim, RefuseClaim, RepeatClaim, InsertClaim
  <2>11. \A u \in built[a] : u = t
    BY DEF ServiceInv, ReceiptInv
  <2>12. builtAt'[a] = builtAt[a] /\ builtAt'[r] = renames
    BY <2>7 DEF WordingInv, OnRequests
  <2>13. t.activity = current /\ t.student = claim[a].student /\ t.group = claim[a].group
    BY <2>1 DEF ServiceInv, NoStaleWrite, OriginInv, Done
  <2>14. builtAt[a] = renames => t = Receipt(x)
    BY <2>4, <2>13 DEF WordingInv, Receipt
  <2>15. SameAnswer(a, r)'
    <3> HIDE DEF Receipt
    <3> QED
      BY <1>4, <2>4, <2>8, <2>9, <2>11, <2>12, <2>14 DEF SameAnswer
  <2> QED
    BY <1>2, <2>10, <2>15 DEF Agree
<1> QED
  BY <1>3, <1>5, <1>6

\* What nobody runs again stays as it was, and what took place or was decided
\* did so when a callback was called.
LEMMA Settled ==
  ASSUME WriterInv, ReceiptInv, OutcomeInv, OrderInv, [ServiceNext]_serviceVars,
         \A r \in Requests : ~RunClaim(r)
  PROVE  /\ \A r \in Requests : Done(r)' => Done(r)
         /\ \A r \in Requests : Decided(r)' => Decided(r)
         /\ \A r \in Requests : reply[r] # "none" =>
              /\ claim'[r] = claim[r] /\ arrived'[r] = arrived[r]
              /\ built'[r] = built[r] /\ refusal'[r] = refusal[r]
<1> USE DEF Done, Decided
<1>1. ASSUME NEW r \in Requests, NEW c \in Claims, SendClaim(r, c)
      PROVE  /\ reply[r] = "none" /\ claim' = [claim EXCEPT ![r] = c]
             /\ \E n : arrived' = [arrived EXCEPT ![r] = n]
             /\ UNCHANGED <<run, good, failed, durable, result, built, refusal>>
             /\ writer' = "working" => writer = "working"
  BY <1>1 DEF SendClaim, Writer!Submit, Writer!Enqueue, Writer!batch
<1>2. CASE \E r \in Requests, c \in Claims : SendClaim(r, c)
  BY <1>1, <1>2 DEF ReceiptInv, OrderInv, OnRequests
<1>3. CASE CommitClaims \/ FailClaims
  BY <1>3 DEF CommitClaims, FailClaims, Writer!Commit, Writer!FailBatch, Writer!batch
<1>4. CASE CrashServer
  BY <1>4 DEF CrashServer, Writer!Crash
<1>5. CASE Writer!TakeBatch /\ UNCHANGED requestVars
  BY <1>5 DEF Writer!TakeBatch, requestVars, WriterInv
<1>6. CASE Writer!FinishBatch /\ UNCHANGED requestVars
  BY <1>6 DEF Writer!FinishBatch, requestVars
<1>7. ASSUME NEW r \in Requests, Writer!ResolveJob(r), UNCHANGED requestVars
      PROVE  /\ writer = "resolving" /\ r \in active
             /\ result' = [result EXCEPT ![r] = Writer!Outcome(r)]
             /\ Writer!Outcome(r) \in {"ok", "rejected"} => ~failed /\ r \in run
             /\ UNCHANGED <<writer, arrived, run, good, failed, durable, requestVars>>
  BY <1>7 DEF Writer!ResolveJob, Writer!Outcome, Writer!batch, OutcomeInv
<1>8. CASE (\E r \in Requests : Writer!ResolveJob(r)) /\ UNCHANGED requestVars
  BY <1>7, <1>8 DEF WriterInv, OnRequests, requestVars
<1>9. CASE UNCHANGED <<writerVars, requestVars>>
  BY <1>9 DEF writerVars, requestVars
<1>10. CASE \E r \in Requests : AnswerClaim(r)
  BY <1>10 DEF AnswerClaim, Writer!Deliver, Writer!Refuse, Writer!batch, requestVars
<1>11. UNCHANGED serviceVars => UNCHANGED <<writerVars, requestVars>>
  BY DEF serviceVars
<1> QED
  BY <1>2, <1>3, <1>4, <1>5, <1>6, <1>8, <1>9, <1>10, <1>11
  DEF ServiceNext, WriterAlone, Administer, Meanwhile

\* The same of a constant activity and group.
LEMMA GivenUpKept ==
  ASSUME ServiceInv, ArchivesInv, [ServiceNext]_serviceVars,
         NEW p, p \in 1..lastActivity, NEW g, SeatGivenUp(p, g)
  PROVE  p \in DOMAIN title' =>
           \E x \in IF p = current' THEN rows'
                    ELSE IF p \in DOMAIN archive' THEN archive'[p].rows ELSE {} :
             x.group = g /\ x.revoked
  BY GivenUpStays DEF SeatGivenUp, RowsOf, Known

\* Agreement lasts.
LEMMA AgreeStays ==
  ASSUME ServiceInv, ArchivesInv, OutcomeInv, [ServiceNext]_serviceVars,
         NEW a \in Requests, NEW b \in Requests, reply[a] # "none", Agree(a, b),
         claim'[a] = claim[a], built'[a] = built[a], builtAt'[a] = builtAt[a],
         built'[b] = built[b], builtAt'[b] = builtAt[b], refusal'[b] = refusal[b]
  PROVE  Agree(a, b)'
<1>1. claim[a].page \in 1..lastActivity
  BY DEF OutcomeInv, Claims
<1>2. CASE SeatGivenUp(claim[a].page, claim[a].group)
  <2> DEFINE p == claim[a].page  g == claim[a].group
  <2>1. SeatGivenUp(p, g)
    BY <1>2
  <2> HIDE DEF p, g
  <2>2. p \in 1..lastActivity
    BY <1>1 DEF p
  <2>3. /\ p \in DOMAIN title' =>
             \E x \in IF p = current' THEN rows'
                      ELSE IF p \in DOMAIN archive' THEN archive'[p].rows ELSE {} :
               x.group = g /\ x.revoked
    BY <2>1, <2>2, GivenUpKept
  <2> QED
    BY <2>3 DEF Agree, SeatGivenUp, RowsOf, Known, p, g
<1> QED
  BY <1>2 DEF Agree, SameAnswer

\* Every request that took place or was decided has been sent.
LEMMA SentFirst ==
  ASSUME WriterInv, OutcomeInv, NEW r \in Requests, Done(r) \/ Decided(r)
  PROVE  reply[r] # "none"
BY DEF WriterInv, OutcomeInv, Done, Decided

\* A callback runs after those of the requests that came before, and changes
\* nothing of theirs.
LEMMA RunsInTurn ==
  ASSUME WriterInv, ReceiptInv, OrderInv, OutcomeInv, NEW r \in Requests, RunClaim(r)
  PROVE  /\ Waits(r) /\ writer = "working" /\ writer' = "working"
         /\ \A b \in Requests : Decided(b) => arrived[b] < arrived[r]
         /\ \A q \in Requests : q # r =>
              /\ Done(q)' = Done(q) /\ Decided(q)' = Decided(q)
              /\ built'[q] = built[q] /\ refusal'[q] = refusal[q]
         /\ UNCHANGED <<arrived, claim, archiveVars, queue, active, reply, result, durable, failed>>
         /\ run' = run \cup {r} /\ r \in active \ run
<1>1. /\ writer = "working" /\ r \in active \ run /\ run' = run \cup {r}
      /\ good' \in {good, good \cup {r}}
      /\ UNCHANGED <<arrived, claim, archiveVars, writer, queue, active, reply, result,
                     durable, failed>>
  BY DEF RunClaim, RefuseClaim, RepeatClaim, InsertClaim, Writer!RunJob
<1>2. \A b \in Requests : Decided(b) => arrived[b] < arrived[r]
  BY <1>1 DEF OrderInv, Waits, Ran, Decided
<1>3. \A q \in Requests : q # r => built'[q] = built[q] /\ refusal'[q] = refusal[q]
  BY DEF RunClaim, RefuseClaim, RepeatClaim, InsertClaim, ReceiptInv, OutcomeInv, OnRequests
<1> QED
  BY <1>1, <1>2, <1>3 DEF Waits, Done, Decided

\* Repeats agree, from the moment their callbacks are called.
LEMMA RepeatStep ==
  /\ ServiceInv /\ ArchivesInv /\ OrderInv /\ OutcomeInv /\ OriginInv /\ WordingInv
  /\ RepeatInv
  /\ [ServiceNext]_serviceVars
  => RepeatInv'
<1> SUFFICES ASSUME ServiceInv, ArchivesInv, OrderInv, OutcomeInv, OriginInv, WordingInv,
                    RepeatInv, [ServiceNext]_serviceVars, NEW a \in Requests, NEW b \in Requests,
                    Done(a)', Decided(b)', arrived'[a] < arrived'[b],
                    claim'[a] = claim'[b], ~claim'[a].backFill
             PROVE  Agree(a, b)'
  BY DEF RepeatInv
<1>i. WriterInv /\ RowsInv /\ ReceiptInv
  BY DEF ServiceInv
<1>n. arrived'[a] \in Nat /\ arrived'[b] \in Nat
  BY <1>i, OrderStep DEF OrderInv
<1>1. ASSUME NEW r \in Requests, RunClaim(r) PROVE Agree(a, b)'
  <2>1. /\ \A q \in Requests : Decided(q) => arrived[q] < arrived[r]
        /\ \A q \in Requests : q # r =>
             /\ Done(q)' = Done(q) /\ Decided(q)' = Decided(q)
             /\ built'[q] = built[q] /\ refusal'[q] = refusal[q]
        /\ arrived' = arrived /\ claim' = claim
    BY <1>i, <1>1, RunsInTurn
  <2>2. a # b /\ arrived[a] < arrived[b] /\ arrived[a] \in Nat /\ arrived[b] \in Nat
    BY <1>n, <2>1
  <2>3. CASE b = r
    BY <1>1, <2>1, <2>2, <2>3, RepeatAgrees
  <2>4. CASE b # r
    <3>1. Decided(b) /\ arrived[b] < arrived[r]
      BY <2>1, <2>4
    <3>2. a # r
      BY <2>2, <3>1
    <3>3. Done(a) /\ Agree(a, b)
      BY <2>1, <2>2, <3>1, <3>2 DEF RepeatInv
    <3>4. builtAt'[a] = builtAt[a] /\ builtAt'[b] = builtAt[b]
      BY <1>1, <2>4, <3>2
      DEF RunClaim, RefuseClaim, RepeatClaim, InsertClaim, WordingInv, OnRequests
    <3> QED
      BY <1>i, <2>1, <2>4, <3>2, <3>3, <3>4, AgreeStays, SentFirst
  <2> QED
    BY <2>3, <2>4
<1>2. CASE \A r \in Requests : ~RunClaim(r)
  <2>1. Done(a) /\ Decided(b)
    BY <1>i, <1>2, Settled
  <2>2. reply[a] # "none" /\ reply[b] # "none"
    BY <1>i, <2>1, SentFirst
  <2>3. /\ claim'[a] = claim[a] /\ arrived'[a] = arrived[a] /\ built'[a] = built[a]
        /\ claim'[b] = claim[b] /\ arrived'[b] = arrived[b] /\ built'[b] = built[b]
        /\ refusal'[b] = refusal[b]
    BY <1>i, <1>2, <2>2, Settled
  <2>4. Agree(a, b)
    BY <2>1, <2>3 DEF RepeatInv
  <2>5. UNCHANGED builtAt
    BY <1>2, BuiltStep
  <2> QED
    BY <2>2, <2>3, <2>4, <2>5, AgreeStays
<1> QED
  BY <1>1, <1>2

\* Sets of rows that fit the seats cannot outgrow one that fills them.
LEMMA NoRoomToGrow ==
  ASSUME NEW S, NEW T, S \subseteq T, IsFiniteSet(T), NEW g \in Groups,
         LiveOf(T, g) = Of(T, g),
         Cardinality(LiveOf(T, g)) <= Seats[g], Cardinality(Of(S, g)) >= Seats[g]
  PROVE  Of(T, g) = Of(S, g)
<1>1. Of(S, g) \subseteq Of(T, g) /\ IsFiniteSet(Of(T, g))
  BY FS_Subset DEF Of
<1>2. Cardinality(Of(T, g)) <= Seats[g]
  OBVIOUS
<1>3. Seats[g] \in Nat
  BY ServiceAssumption DEF ServiceAssumption
<1>4. /\ IsFiniteSet(Of(S, g)) /\ Cardinality(Of(S, g)) \in Nat
      /\ Cardinality(Of(T, g)) \in Nat /\ Cardinality(Of(S, g)) <= Cardinality(Of(T, g))
  BY <1>1, FS_Subset, FS_CardinalityType
<1>5. Cardinality(Of(S, g)) = Cardinality(Of(T, g))
  BY <1>2, <1>3, <1>4
<1> QED
  BY <1>1, <1>5, FS_Subset

\* What has run stays as it is.
LEMMA PastStays ==
  ASSUME WriterInv, ReceiptInv, OrderInv, OutcomeInv, [ServiceNext]_serviceVars,
         NEW c \in Requests, Past(c)
  PROVE  /\ Past(c)'
         /\ built'[c] = built[c] /\ arrived'[c] = arrived[c]
         /\ claim'[c] = claim[c] /\ refusal'[c] = refusal[c]
<1> USE DEF Past
<1>1. ASSUME NEW r \in Requests, RunClaim(r)
      PROVE  /\ Past(c)'
             /\ built'[c] = built[c] /\ arrived'[c] = arrived[c]
             /\ claim'[c] = claim[c] /\ refusal'[c] = refusal[c]
  <2>1. /\ Waits(r) /\ UNCHANGED <<arrived, claim, queue, active, reply>> /\ run \subseteq run'
        /\ writer = "working"
        /\ \A q \in Requests : q # r => built'[q] = built[q] /\ refusal'[q] = refusal[q]
    BY <1>1, RunsInTurn
  <2> QED
    BY <2>1 DEF Waits
<1>2. CASE \A r \in Requests : ~RunClaim(r)
  <2>1. /\ built'[c] = built[c] /\ arrived'[c] = arrived[c]
        /\ claim'[c] = claim[c] /\ refusal'[c] = refusal[c]
    BY <1>2, Settled
  <2> SUFFICES Past(c)'
    BY <2>1
  <2>2. ASSUME NEW r \in Requests, NEW d \in Claims, SendClaim(r, d) PROVE Past(c)'
    <3>1. /\ reply[r] = "none" /\ reply' = [reply EXCEPT ![r] = "awaiting"]
          /\ queue' = queue \cup {r} /\ UNCHANGED <<active, run>>
          /\ writer' = "working" => writer = "working"
      BY <2>2 DEF SendClaim, Writer!Submit, Writer!Enqueue, Writer!batch
    <3> QED
      BY <3>1 DEF WriterInv, OnRequests, Waits
  <2>3. CASE CommitClaims \/ FailClaims
    BY <2>3 DEF CommitClaims, FailClaims, Writer!Commit, Writer!FailBatch, Writer!batch, Waits
  <2>4. CASE CrashServer
    BY <2>4 DEF CrashServer, Writer!Crash, Waits
  <2>5. CASE Writer!TakeBatch
    <3>1. PICK jobs \in SUBSET queue : active' = jobs /\ queue' = queue \ jobs
      BY <2>5 DEF Writer!TakeBatch
    <3>2. reply' = reply
      BY <2>5 DEF Writer!TakeBatch
    <3> QED
      BY <3>1, <3>2 DEF Waits
  <2>6. CASE Writer!FinishBatch
    <3>1. writer' = "waiting" /\ UNCHANGED <<queue, reply>>
      BY <2>6 DEF Writer!FinishBatch
    <3> QED
      BY <3>1 DEF Waits
  <2>7. ASSUME NEW r \in Requests, Writer!ResolveJob(r) PROVE Past(c)'
    BY <2>7 DEF Writer!ResolveJob, Writer!batch, Waits
  <2>8. CASE UNCHANGED writerVars
    BY <2>8 DEF writerVars, Waits
  <2>9. ASSUME NEW r \in Requests, AnswerClaim(r) PROVE Past(c)'
    BY <2>9 DEF AnswerClaim, Writer!Deliver, Writer!Refuse, Writer!batch, Waits, WriterInv,
                OnRequests
  <2>10. UNCHANGED serviceVars => UNCHANGED writerVars
    BY DEF serviceVars
  <2> QED
    BY <1>2, <2>2, <2>3, <2>4, <2>5, <2>6, <2>7, <2>8, <2>9, <2>10
    DEF ServiceNext, WriterAlone, Administer, Meanwhile
<1> QED
  BY <1>1, <1>2

\* A row of an earlier request remains one.
LEMMA EarlierStays ==
  ASSUME WriterInv, ReceiptInv, OrderInv, OutcomeInv, [ServiceNext]_serviceVars,
         NEW a \in Requests, arrived'[a] = arrived[a]
  PROVE  \A x : Earlier(x, a) =>
           \E c \in Requests : Past(c)' /\ arrived'[c] < arrived'[a]
                               /\ \E t \in built'[c] : t.id = x.id
  BY PastStays DEF Earlier

\* A full group keeps its rows until one is given up.
LEMMA GroupStays ==
  ASSUME ServiceInv, ArchivesInv, [ServiceNext]_serviceVars,
         NEW p \in 1..lastActivity, NEW g \in Groups, ~SeatGivenUp(p, g),
         Cardinality(Of(RowsOf(p), g)) >= Seats[g]
  PROVE  SeatGivenUp(p, g)' \/ Of(RowsOf(p), g)' = Of(RowsOf(p), g)
<1> USE DEF SeatGivenUp, Known, RowsOf
<1>1. CASE CommitClaims
  <2>1. rows' = View /\ UNCHANGED <<title, archive, current>>
    BY <1>1 DEF CommitClaims, View
  <2>2. CASE p = current
    <3>1. LiveOf(View, g) = Of(View, g)
      BY <2>2 DEF View, ServiceInv, RowsInv, Of, LiveOf
    <3>2. IsFiniteSet(View) /\ rows \subseteq View
      BY FS_Union DEF View, ServiceInv, RowsInv
    <3>3. Cardinality(LiveOf(View, g)) <= Seats[g]
      BY DEF ServiceInv, SeatsFit, LiveOf
    <3>4. Cardinality(Of(rows, g)) >= Seats[g]
      BY <2>2
    <3>5. Of(View, g) = Of(rows, g)
      BY <3>1, <3>2, <3>3, <3>4, NoRoomToGrow
    <3> QED
      BY <2>1, <2>2, <3>5
  <2>3. CASE p # current
    BY <2>1, <2>3
  <2> QED
    BY <2>2, <2>3
<1>2. ASSUME NEW x \in rows, Revoke(x)
      PROVE  SeatGivenUp(p, g)' \/ Of(RowsOf(p), g)' = Of(RowsOf(p), g)
  <2> DEFINE z == [x EXCEPT !.revoked = TRUE]
  <2>1. z.group = x.group /\ z.revoked
    BY <1>2 DEF Revoke
  <2>2. rows' = (rows \ {x}) \cup {z} /\ UNCHANGED <<title, archive, current>>
    BY <1>2 DEF Revoke
  <2> HIDE DEF z
  <2>3. CASE p = current /\ x.group = g
    BY <2>1, <2>2, <2>3
  <2>4. CASE p = current /\ x.group # g
    <3>1. \A y : y \in rows' /\ y.group = g <=> y \in rows /\ y.group = g
      BY <2>1, <2>2, <2>4
    <3> QED
      BY <2>2, <2>4, <3>1 DEF Of
  <2>5. CASE p # current
    BY <2>2, <2>5
  <2> QED
    BY <2>3, <2>4, <2>5
<1>3. ASSUME NEW n \in Names, CreateActivity(n) PROVE RowsOf(p)' = RowsOf(p)
  <2>1. /\ current' = lastActivity + 1 /\ lastActivity \in Nat
        /\ DOMAIN archive' = DOMAIN archive \cup {current}
        /\ archive'[current].rows = rows
        /\ \A b \in DOMAIN archive : b # current => archive'[b] = archive[b]
    BY <1>3 DEF CreateActivity, ServiceInv, RowsInv
  <2>2. p # current'
    BY <2>1
  <2> QED
    BY <2>1, <2>2
<1>4. ASSUME NEW b \in DOMAIN archive, DeleteArchive(b)
      PROVE  SeatGivenUp(p, g)' \/ RowsOf(p)' = RowsOf(p)
  BY <1>4 DEF DeleteArchive
<1>5. ASSUME NEW n \in Names, Retitle(n) \/ Relabel(n) PROVE RowsOf(p)' = RowsOf(p)
  BY <1>5 DEF Retitle, Relabel
<1>6. CASE Administer \/ Meanwhile
  <2>1. UNCHANGED archiveVars \/ (\E x \in rows : FetchReceipt(x)) => RowsOf(p)' = RowsOf(p)
    BY DEF archiveVars, FetchReceipt
  <2> QED
    BY <1>2, <1>3, <1>4, <1>5, <1>6, <2>1, TablesStep
<1>7. ASSUME NEW r \in Requests,
             (\E c \in Claims : SendClaim(r, c)) \/ RunClaim(r) \/ AnswerClaim(r)
      PROVE  RowsOf(p)' = RowsOf(p)
  BY <1>7 DEF SendClaim, RunClaim, AnswerClaim, archiveVars
<1>8. CASE FailClaims \/ CrashServer \/ WriterAlone \/ UNCHANGED serviceVars
  BY <1>8 DEF FailClaims, CrashServer, WriterAlone, archiveVars, serviceVars
<1> QED
  BY <1>1, <1>6, <1>7, <1>8 DEF ServiceNext

\* The same of a constant activity and group.
LEMMA GroupKept ==
  ASSUME ServiceInv, ArchivesInv, [ServiceNext]_serviceVars,
         NEW p, p \in 1..lastActivity, NEW g, g \in Groups, ~SeatGivenUp(p, g),
         Cardinality(Of(RowsOf(p), g)) >= Seats[g]
  PROVE  LET after == IF p = current' THEN rows'
                      ELSE IF p \in DOMAIN archive' THEN archive'[p].rows ELSE {}
         IN  \/ p \in DOMAIN title' => \E x \in after : x.group = g /\ x.revoked
             \/ Of(after, g) = Of(RowsOf(p), g)
<1>1. RowsOf(p)' = IF p = current' THEN rows'
                   ELSE IF p \in DOMAIN archive' THEN archive'[p].rows ELSE {}
  BY DEF RowsOf
<1>2. SeatGivenUp(p, g)' \/ Of(RowsOf(p), g)' = Of(RowsOf(p), g)
  BY GroupStays
<1>3. SeatGivenUp(p, g)' =
        (p \in DOMAIN title' => \E x \in RowsOf(p)' : x.group = g /\ x.revoked)
  BY DEF SeatGivenUp, Known
<1>4. Of(RowsOf(p), g)' = Of(RowsOf(p)', g)
  BY DEF Of
<1> QED
  BY <1>1, <1>2, <1>3, <1>4

\* A request that was, or is about to be, told that the group is full.
Told(a) == result[a] = "rejected" \/ (writer = "resolving" /\ ~failed /\ a \in run)

\* It was refused in a committed batch.
LEMMA ToldWhenCommitted ==
  ASSUME WriterInv, OutcomeInv, OrderInv, [ServiceNext]_serviceVars,
         NEW a \in Requests, Told(a)'
  PROVE  Told(a) \/ (CommitClaims /\ a \in run)
<1> USE DEF Told, WriterInv, OnRequests
<1>1. ASSUME NEW r \in Requests, NEW c \in Claims, SendClaim(r, c) PROVE Told(a)
  <2>1. /\ UNCHANGED <<run, failed, result>>
        /\ writer' = "resolving" => writer = "resolving"
    BY <1>1 DEF SendClaim, Writer!Submit, Writer!Enqueue, Writer!batch
  <2> QED
    BY <2>1
<1>2. ASSUME NEW r \in Requests, RunClaim(r) PROVE Told(a)
  BY <1>2 DEF RunClaim, RefuseClaim, RepeatClaim, InsertClaim, Writer!RunJob
<1>3. CASE CommitClaims
  BY <1>3 DEF CommitClaims, Writer!Commit, Writer!batch
<1>4. CASE FailClaims
  BY <1>4 DEF FailClaims, Writer!FailBatch
<1>5. CASE CrashServer
  BY <1>5 DEF CrashServer, Writer!Crash
<1>6. CASE Writer!TakeBatch
  BY <1>6 DEF Writer!TakeBatch
<1>7. CASE Writer!FinishBatch
  BY <1>7 DEF Writer!FinishBatch
<1>8. ASSUME NEW r \in Requests, Writer!ResolveJob(r) PROVE Told(a)
  BY <1>8 DEF Writer!ResolveJob, Writer!Outcome, Writer!batch, OutcomeInv
<1>9. CASE UNCHANGED writerVars
  BY <1>9 DEF writerVars
<1>10. ASSUME NEW r \in Requests, AnswerClaim(r) PROVE Told(a)
  BY <1>10 DEF AnswerClaim, Writer!Deliver, Writer!Refuse, Writer!batch
<1>11. UNCHANGED serviceVars => UNCHANGED writerVars
  BY DEF serviceVars
<1> QED
  BY <1>1, <1>2, <1>3, <1>4, <1>5, <1>6, <1>7, <1>8, <1>9, <1>10, <1>11
  DEF ServiceNext, WriterAlone, Administer, Meanwhile

\* What the rows of a transaction come from has run before the next callback.
LEMMA AllEarlier ==
  ASSUME WriterInv, OutcomeInv, OrderInv, OriginInv,
         NEW a \in Requests, writer = "working", a \in active \ run
  PROVE  \A x \in View : Earlier(x, a)
<1>1. ASSUME NEW c \in durable \cup good PROVE c \in Requests /\ Past(c) /\ Ran(c)
  BY <1>1 DEF WriterInv, OrderInv, Past, Waits, Ran
<1>2. Waits(a)
  BY DEF Waits
<1> QED
  BY <1>1, <1>2 DEF OriginInv, View, Earlier, OrderInv, Past

\* Rows that fill a group for a do so as long as they are the rows of the group.
LEMMA FilledStays ==
  ASSUME WriterInv, ReceiptInv, OrderInv, OutcomeInv, [ServiceNext]_serviceVars,
         NEW a \in Requests, arrived'[a] = arrived[a], claim'[a] = claim[a]
  PROVE  \A S, T : Filled(a, S) /\ Of(T, claim[a].group) = Of(S, claim[a].group) =>
           /\ \A x \in Of(T, claim'[a].group) :
                \E c \in Requests : Past(c)' /\ arrived'[c] < arrived'[a]
                                    /\ \E t \in built'[c] : t.id = x.id
           /\ Cardinality(Of(T, claim'[a].group)) >= Seats[claim'[a].group]
  BY EarlierStays DEF Filled

\* The rows of a batch do not change under it but by its callbacks.
LEMMA StillRunning ==
  ASSUME WriterInv, [ServiceNext]_serviceVars, \A r \in Requests : ~RunClaim(r),
         NEW a, a \in run', writer' = "working"
  PROVE  /\ writer = "working" /\ a \in run
         /\ UNCHANGED <<rows, pending, current, title, archive>>
<1>1. CASE \E r \in Requests, c \in Claims : SendClaim(r, c)
  BY <1>1 DEF SendClaim, Writer!Submit, Writer!Enqueue, Writer!batch, archiveVars, WriterInv
<1>2. CASE CommitClaims \/ FailClaims \/ CrashServer
  BY <1>2 DEF CommitClaims, FailClaims, CrashServer, Writer!Commit, Writer!FailBatch, Writer!Crash
<1>3. CASE WriterAlone
  BY <1>3 DEF WriterAlone, Writer!TakeBatch, Writer!FinishBatch, Writer!ResolveJob, WriterInv
<1>4. CASE \E r \in Requests : AnswerClaim(r)
  BY <1>4 DEF AnswerClaim, Writer!Deliver, Writer!Refuse, Writer!batch, requestVars
<1>5. CASE Administer \/ Meanwhile
  BY <1>5, TablesStep DEF writerVars, requestVars, InTransaction, archiveVars, FetchReceipt
<1>6. CASE UNCHANGED serviceVars
  BY <1>6 DEF serviceVars, archiveVars, writerVars, requestVars
<1> QED
  BY <1>1, <1>2, <1>3, <1>4, <1>5, <1>6 DEF ServiceNext

\* A request is refused for want of a seat when earlier requests hold them all.
LEMMA RefusedFull ==
  ASSUME ServiceInv, OutcomeInv, OrderInv, OriginInv,
         NEW a \in Requests, RunClaim(a), refusal'[a] = "full"
  PROVE  claim[a].page = current /\ Filled(a, View)
<1>1. writer = "working" /\ a \in active \ run /\ refusal[a] = "none"
  BY DEF RunClaim, RefuseClaim, RepeatClaim, InsertClaim, Writer!RunJob, OutcomeInv, Waits
<1>2. Refusal(a) = "full"
  BY <1>1 DEF RunClaim, RefuseClaim, RepeatClaim, InsertClaim, OutcomeInv, OnRequests
<1>3. PageAccepted(a) /\ ~HasSeat(claim[a].group)
  BY <1>2 DEF Refusal
<1>4. claim[a].group \in Groups /\ Seats[claim[a].group] \in Nat
  <2>1. reply[a] # "none"
    BY <1>1 DEF ServiceInv, WriterInv
  <2> QED
    BY <2>1, ServiceAssumption DEF ServiceAssumption, OutcomeInv, Claims
<1> DEFINE g == claim[a].group
           live == {x \in View : x.group = g /\ ~x.revoked}
<1>5. IsFiniteSet(View)
  BY FS_Union DEF View, ServiceInv, RowsInv
<1>6. live \subseteq Of(View, g) /\ IsFiniteSet(Of(View, g))
  BY <1>5, FS_Subset DEF Of
<1>7. Cardinality(live) <= Cardinality(Of(View, g))
      /\ Cardinality(live) \in Nat /\ Cardinality(Of(View, g)) \in Nat
  BY <1>6, FS_Subset, FS_CardinalityType
<1>8. Cardinality(Of(View, g)) >= Seats[g]
  BY <1>3, <1>4, <1>7 DEF HasSeat
<1>9. \A x \in View : Earlier(x, a)
  BY <1>1, AllEarlier DEF ServiceInv
<1> QED
  BY <1>3, <1>8, <1>9 DEF PageAccepted, Filled, Of

\* What holds of a full group holds until the batch is answered ...
LEMMA RunningStep ==
  ASSUME ServiceInv, ArchivesInv, OrderInv, OutcomeInv, OriginInv, FullInv,
         [ServiceNext]_serviceVars, SeatsFit', RowsInv',
         NEW a \in Requests, refusal'[a] = "full", writer' = "working", a \in run'
  PROVE  /\ claim'[a].page = current'
         /\ SeatGivenUp(current, claim[a].group)' \/ Filled(a, View)'
<1>i. WriterInv /\ RowsInv /\ ReceiptInv
  BY DEF ServiceInv
<1>1. ASSUME writer = "working", a \in run
      PROVE  /\ Past(a) /\ refusal[a] = "full" /\ claim[a].page = current
             /\ SeatGivenUp(current, claim[a].group) \/ Filled(a, View)
             /\ arrived'[a] = arrived[a] /\ claim'[a] = claim[a]
  <2>1. Past(a)
    BY <1>i, <1>1 DEF Past, Waits, OrderInv, Ran, WriterInv
  <2>2. refusal[a] = "full" /\ arrived'[a] = arrived[a] /\ claim'[a] = claim[a]
    BY <1>i, <2>1, PastStays
  <2> QED
    BY <1>1, <2>1, <2>2 DEF FullInv
<1>2. CASE RunClaim(a)
  <2>1. claim[a].page = current /\ Filled(a, View)
    BY <1>2, RefusedFull
  <2>2. UNCHANGED <<claim, arrived, archiveVars>>
    BY <1>i, <1>2, RunsInTurn
  <2>3. pending' = pending
    <3>1. refusal[a] # "full"
      BY <1>2 DEF RunClaim, RefuseClaim, RepeatClaim, InsertClaim, Writer!RunJob,
                  OutcomeInv, Waits
    <3> QED
      BY <1>2, <3>1 DEF RunClaim, RefuseClaim, RepeatClaim, InsertClaim
  <2>4. View' = View /\ claim'[a].page = current'
    BY <2>1, <2>2, <2>3 DEF View, archiveVars
  <2>5. Filled(a, View)'
    BY <1>i, <2>1, <2>2, <2>4, FilledStays DEF Filled, Earlier
  <2> QED
    BY <2>4, <2>5
<1>3. ASSUME NEW r \in Requests, r # a, RunClaim(r)
      PROVE  /\ claim'[a].page = current'
             /\ SeatGivenUp(current, claim[a].group)' \/ Filled(a, View)'
  <2>1. /\ writer = "working" /\ a \in run /\ UNCHANGED <<claim, arrived, archiveVars>>
    BY <1>i, <1>3, RunsInTurn
  <2>2. UNCHANGED <<title, archive, current, rows>>
    BY <2>1 DEF archiveVars
  <2>3. CASE SeatGivenUp(current, claim[a].group)
    BY <1>1, <2>1, <2>2, <2>3 DEF SeatGivenUp, Known, RowsOf
  <2>4. CASE ~SeatGivenUp(current, claim[a].group)
    <3> DEFINE g == claim[a].group
    <3>1. Filled(a, View) /\ View \subseteq View'
      <4>1. pending \subseteq pending'
        BY <1>3 DEF RunClaim, RefuseClaim, RepeatClaim, InsertClaim
      <4> QED
        BY <1>1, <2>1, <2>2, <2>4, <4>1 DEF View
    <3>2. g \in Groups
      BY <1>1, <2>1 DEF Past, OutcomeInv, Claims
    <3>3. LiveOf(View', g) = Of(View', g)
      <4>1. \A x \in rows : x.group = g => ~x.revoked
        BY <2>4 DEF SeatGivenUp, RowsOf, Known, ArchivesInv
      <4>2. \A x \in pending' : ~x.revoked
        BY DEF RowsInv
      <4> QED
        BY <2>2, <4>1, <4>2 DEF LiveOf, Of, View
    <3>4. IsFiniteSet(View')
      BY FS_Union DEF View, RowsInv
    <3>5. Cardinality(LiveOf(View', g)) <= Seats[g]
      BY <3>2 DEF SeatsFit, LiveOf
    <3>6. Cardinality(Of(View, g)) >= Seats[g]
      BY <3>1 DEF Filled
    <3>7. Of(View', g) = Of(View, g)
      <4> HIDE DEF g
      <4> QED
        BY <3>1, <3>2, <3>3, <3>4, <3>5, <3>6, NoRoomToGrow
    <3>8. /\ \A x \in Of(View', claim'[a].group) :
               \E c \in Requests : Past(c)' /\ arrived'[c] < arrived'[a]
                                   /\ \E t \in built'[c] : t.id = x.id
          /\ Cardinality(Of(View', claim'[a].group)) >= Seats[claim'[a].group]
      <4>1. arrived'[a] = arrived[a] /\ claim'[a] = claim[a]
        BY <2>1
      <4> HIDE DEF View
      <4> QED
        BY <1>i, <3>1, <3>7, <4>1, FilledStays
    <3>9. Filled(a, View)'
      BY <3>8 DEF Filled, Earlier, Of
    <3> QED
      BY <1>1, <2>1, <2>2, <3>9
  <2> QED
    BY <2>3, <2>4
<1>4. CASE \A r \in Requests : ~RunClaim(r)
  <2>1. /\ writer = "working" /\ a \in run
        /\ UNCHANGED <<rows, pending, current, title, archive>>
    BY <1>i, <1>4, StillRunning
  <2>2. View' = View
    BY <2>1 DEF View
  <2>3. CASE SeatGivenUp(current, claim[a].group)
    BY <1>1, <2>1, <2>3 DEF SeatGivenUp, Known, RowsOf
  <2>4. CASE Filled(a, View)
    BY <1>i, <1>1, <2>1, <2>2, <2>4, FilledStays DEF Filled, Earlier
  <2> QED
    BY <1>1, <2>1, <2>3, <2>4
<1> QED
  BY <1>2, <1>3, <1>4

\* ... and after it.
LEMMA ToldStep ==
  ASSUME ServiceInv, ArchivesInv, OrderInv, OutcomeInv, FullInv,
         [ServiceNext]_serviceVars, NEW a \in Requests, refusal'[a] = "full", Told(a)'
  PROVE  \/ SeatGivenUp(claim[a].page, claim[a].group)'
         \/ Filled(a, RowsOf(claim[a].page))'
<1>i. WriterInv /\ ReceiptInv
  BY DEF ServiceInv
<1>1. Told(a) \/ (CommitClaims /\ a \in run)
  BY <1>i, ToldWhenCommitted
<1>2. Past(a)
  BY <1>i, <1>1 DEF Told, Past, Waits, OrderInv, Ran, WriterInv, OutcomeInv, CommitClaims,
                    Writer!Commit
<1>3. refusal[a] = "full" /\ arrived'[a] = arrived[a] /\ claim'[a] = claim[a]
  BY <1>i, <1>2, PastStays
<1>4. claim[a].page \in 1..lastActivity /\ claim[a].group \in Groups
  BY <1>2 DEF Past, OutcomeInv, Claims
<1>5. CASE CommitClaims /\ a \in run
  <2>1. /\ writer = "working" /\ rows' = View /\ UNCHANGED <<title, archive, current>>
    BY <1>5 DEF CommitClaims, Writer!Commit, View
  <2>2. /\ claim[a].page = current
        /\ SeatGivenUp(current, claim[a].group) \/ Filled(a, View)
    BY <1>3, <1>5, <2>1 DEF FullInv
  <2>3. RowsOf(claim[a].page)' = View
    BY <1>3, <2>1, <2>2 DEF RowsOf
  <2>4. CASE SeatGivenUp(current, claim[a].group)
    BY <1>3, <2>1, <2>2, <2>4 DEF SeatGivenUp, RowsOf, Known, View
  <2>5. CASE Filled(a, View)
    BY <1>i, <1>3, <2>3, <2>5, FilledStays DEF Filled, Earlier
  <2> QED
    BY <2>2, <2>4, <2>5
<1>6. CASE Told(a)
  <2> DEFINE p == claim[a].page
             g == claim[a].group
  <2>1. SeatGivenUp(p, g) \/ Filled(a, RowsOf(p))
    BY <1>3, <1>6 DEF FullInv, Told
  <2>2. claim'[a].page = p /\ claim'[a].group = g
    BY <1>3
  <2>3. p \in 1..lastActivity /\ g \in Groups
    BY <1>4
  <2>4. Filled(a, RowsOf(p)) => Cardinality(Of(RowsOf(p), g)) >= Seats[g]
    BY DEF Filled
  <2>5. CASE SeatGivenUp(p, g)
    <3> HIDE DEF p, g
    <3>1. p \in DOMAIN title' =>
             \E x \in IF p = current' THEN rows'
                      ELSE IF p \in DOMAIN archive' THEN archive'[p].rows ELSE {} :
               x.group = g /\ x.revoked
      BY <2>3, <2>5, GivenUpKept
    <3> QED
      BY <2>2, <3>1 DEF SeatGivenUp, RowsOf, Known
  <2>6. CASE ~SeatGivenUp(p, g) /\ Filled(a, RowsOf(p))
    <3> DEFINE after == IF p = current' THEN rows'
                        ELSE IF p \in DOMAIN archive' THEN archive'[p].rows ELSE {}
    <3>1. \/ p \in DOMAIN title' => \E x \in after : x.group = g /\ x.revoked
          \/ Of(after, g) = Of(RowsOf(p), g)
      <4> HIDE DEF p, g
      <4> QED
        BY <2>3, <2>4, <2>6, GroupKept
    <3>2. RowsOf(claim[a].page)' = after
      BY <2>2 DEF RowsOf
    <3>3. CASE Of(after, g) = Of(RowsOf(p), g)
      <4> HIDE DEF after
      <4> QED
        BY <1>i, <1>3, <2>2, <2>6, <3>2, <3>3, FilledStays DEF Filled, Earlier
    <3>4. CASE p \in DOMAIN title' => \E x \in after : x.group = g /\ x.revoked
      <4> HIDE DEF after
      <4> QED
        BY <2>2, <3>2, <3>4 DEF SeatGivenUp, Known
    <3> QED
      BY <3>1, <3>3, <3>4
  <2> QED
    BY <2>1, <2>5, <2>6
<1> QED
  BY <1>1, <1>5, <1>6

\* Nobody who was told that a group is full is overtaken.
LEMMA FullStep ==
  /\ ServiceInv /\ ArchivesInv /\ OrderInv /\ OutcomeInv /\ OriginInv /\ FullInv
  /\ [ServiceNext]_serviceVars
  => FullInv'
<1> SUFFICES ASSUME ServiceInv, ArchivesInv, OrderInv, OutcomeInv, OriginInv, FullInv,
                    [ServiceNext]_serviceVars
             PROVE  FullInv'
  OBVIOUS
<1>1. SeatsFit' /\ RowsInv'
  BY SeatsStep, RowsStep DEF ServiceInv
<1>2. ASSUME NEW a \in Requests, refusal'[a] = "full", writer' = "working", a \in run'
      PROVE  /\ claim'[a].page = current'
             /\ SeatGivenUp(current, claim[a].group)' \/ Filled(a, View)'
  BY <1>1, <1>2, RunningStep
<1>3. ASSUME NEW a \in Requests, refusal'[a] = "full", Told(a)'
      PROVE  \/ SeatGivenUp(claim[a].page, claim[a].group)'
             \/ Filled(a, RowsOf(claim[a].page))'
  BY <1>3, ToldStep
<1> QED
  BY <1>2, <1>3 DEF FullInv, Told

\* The parts hold together in every reachable state.
HistoryInv == OrderInv /\ OutcomeInv /\ OriginInv /\ WordingInv /\ RepeatInv /\ FullInv

LEMMA HistoryInvariant == ServiceSpec => []HistoryInv
<1>1. ServiceInit => HistoryInv
  <2> SUFFICES ASSUME ServiceInit PROVE HistoryInv
    OBVIOUS
  <2> USE DEF ServiceInit, Writer!Init
  <2>1. OrderInv
    BY DEF OrderInv, OnRequests, Waits, Ran
  <2>2. OutcomeInv
    BY DEF OutcomeInv, OnRequests, Waits
  <2>3. OriginInv
    BY DEF OriginInv, View, ArchiveInit
  <2>w. WordingInv
    BY DEF WordingInv, OnRequests, ArchiveInit
  <2>4. RepeatInv
    BY DEF RepeatInv, Done
  <2>5. FullInv
    BY DEF FullInv
  <2> QED
    BY <2>1, <2>2, <2>3, <2>w, <2>4, <2>5 DEF HistoryInv
<1>2. ServiceInv /\ ArchivesInv /\ HistoryInv /\ [ServiceNext]_serviceVars => HistoryInv'
  <2> SUFFICES ASSUME ServiceInv, ArchivesInv, HistoryInv, [ServiceNext]_serviceVars
               PROVE  HistoryInv'
    OBVIOUS
  <2>1. /\ WriterInv /\ RowsInv /\ ReceiptInv
        /\ OrderInv /\ OutcomeInv /\ OriginInv /\ WordingInv /\ RepeatInv /\ FullInv
    BY DEF ServiceInv, HistoryInv
  <2> QED
    BY <2>1, OrderStep, OutcomeStep, OriginStep, WordingStep, RepeatStep, FullStep DEF HistoryInv
<1> QED
  BY <1>1, <1>2, ServiceInvariant, ArchivesInvariant, PTL DEF ServiceSpec

\* A student whose selection is on record and who asks for the same group again,
\* after a lost answer or a closed round, is given that selection again, on the same
\* receipt unless a name was edited in between; or is refused because the activity
\* changed, the selection was given up or the public address was emptied.
THEOREM RepeatsAgreeTheorem == ServiceSpec => []RepeatsAgree
<1>1. HistoryInv => RepeatsAgree
  <2> SUFFICES ASSUME OutcomeInv, RepeatInv,
                      NEW a \in Requests, NEW b \in Requests,
                      a \in durable, arrived[a] < arrived[b],
                      claim[a] = claim[b], ~claim[a].backFill,
                      result[b] \in {"ok", "rejected"}
               PROVE  \/ result[b] = "ok" /\ SameAnswer(a, b)
                      \/ result[b] = "rejected" /\ refusal[b] \in {"stale", "unaddressed"}
                      \/ SeatGivenUp(claim[a].page, claim[a].group)
    BY DEF HistoryInv, RepeatsAgree, SameAnswer
  <2>1. Agree(a, b)
    BY DEF RepeatInv, Done, Decided
  <2>2. refusal[b] = "none" <=> result[b] = "ok"
    BY DEF OutcomeInv
  <2> QED
    BY <2>1, <2>2 DEF Agree
<1> QED
  BY <1>1, HistoryInvariant, PTL

\* Nobody who was told that the group is full is overtaken there by a request that
\* was admitted later, whatever batches, failures and crashes come between.
THEOREM FirstComeTheorem == ServiceSpec => []FirstCome
<1>1. ServiceInv /\ ArchivesInv /\ HistoryInv => FirstCome
  <2> SUFFICES ASSUME ServiceInv, ArchivesInv, OriginInv, OutcomeInv, FullInv,
                      NEW a \in Requests, NEW b \in Requests,
                      claim[a].group = claim[b].group, claim[a].page = claim[b].page,
                      result[a] = "rejected", refusal[a] = "full", b \in durable,
                      \A c \in Requests : arrived[c] < arrived[a] =>
                        \A t \in built[c], u \in built[b] : t.id # u.id,
                      ~SeatGivenUp(claim[a].page, claim[a].group)
               PROVE  FALSE
    BY DEF HistoryInv, FirstCome
  <2> DEFINE p == claim[a].page
             g == claim[a].group
  <2>1. Filled(a, RowsOf(p)) /\ p \in Known
    BY DEF FullInv, SeatGivenUp
  <2>2. PICK u \in built[b] : u.group = g /\ u.activity = p
    <3>1. \A u \in built[b] : u.group = g
      BY DEF OriginInv
    <3>2. \A u \in built[b] : u.activity = p
      BY DEF ServiceInv, NoStaleWrite
    <3>3. built[b] # {}
      BY DEF OriginInv
    <3> QED
      BY <3>1, <3>2, <3>3
  <2>3. Backed(u)
    BY DEF ServiceInv, ReceiptInv
  <2>4. PICK x \in RowsOf(p) : Answers(x, u)
    BY <2>1, <2>2, <2>3 DEF Backed
  <2>5. Earlier(x, a)
    BY <2>1, <2>2, <2>4 DEF Filled, Of, Answers
  <2> QED
    BY <2>4, <2>5 DEF Earlier, Answers
<1> QED
  BY <1>1, HistoryInvariant, ServiceInvariant, ArchivesInvariant, PTL
=============================================================================
