---------------------------- MODULE ActivityArchive ----------------------------
(***************************************************************************)
(* Activities, their archives and the receipts of selections: the tables   *)
(* activities, settings (current_activity_id) and selections, the          *)
(* transactions that move an activity into its archive, and the public     *)
(* verification of a receipt, which reads the tables while the activity is *)
(* current and the archive afterwards.                                     *)
(*                                                                         *)
(* A receipt carries the ids of a selection and an HMAC over the texts     *)
(* shown with it.  The texts are a title of the activity and one label for *)
(* all names in the working tables; two HMACs agree iff their texts do.    *)
(* The checksum over a snapshot and its outer columns reduces to the       *)
(* title, the one outer column a statement can still write.                *)
(***************************************************************************)
EXTENDS Integers, FiniteSets

CONSTANTS
  Students,       \* student numbers
  Groups,         \* teaching groups
  Names,          \* titles and labels
  FirstName,      \* those of a fresh database
  MaxActivities,  \* a bound on the activities ever created
  MaxRenames      \* a bound on the edits of names in one behaviour

VARIABLES
  title,         \* activities.title of each row of activities
  archive,       \* snapshot of each archived activity
  current,       \* settings.current_activity_id
  lastActivity,  \* sqlite_sequence of activities
  label,         \* names in the working tables
  rows,          \* selections of the current activity
  lastRow,       \* sqlite_sequence of selections
  receipts,      \* receipts that left the server
  renames

archiveVars == <<title, archive, current, lastActivity, label, rows, lastRow, receipts, renames>>

Rows == [id : Nat \ {0}, student : Students, group : Groups, revoked : BOOLEAN]

Receipts ==
  [activity : Nat \ {0}, id : Nat \ {0}, student : Students, group : Groups,
   title : Names, label : Names]

-----------------------------------------------------------------------------
(* Queries. *)

\* The ids in the table activities.
Known == DOMAIN title

\* The selections on record for an activity.
RowsOf(a) ==
  IF a = current THEN rows ELSE IF a \in DOMAIN archive THEN archive[a].rows ELSE {}

\* The label of the names on record for an activity.
LabelOf(a) == IF a = current THEN label ELSE archive[a].label

\* The rows a receipt may answer for: its ids are compared one by one.
Matching(t) ==
  {x \in RowsOf(t.activity) : x.id = t.id /\ x.student = t.student /\ x.group = t.group}

\* build_selection_receipt.
Receipt(x) ==
  [activity |-> current, id |-> x.id, student |-> x.student, group |-> x.group,
   title |-> title[current], label |-> label]

\* Slip, for the runs on mutated code: revoked_at is not looked at.
VerdictIgnoringRevocation(t) ==
  IF /\ t.activity \in Known
     /\ t.title = title[t.activity] /\ t.label = LabelOf(t.activity) /\ Matching(t) # {}
  THEN "valid" ELSE "unknown"
\* verify_selection_receipt of a receipt with a good signature.
Verdict(t) ==
  IF t.activity \notin Known THEN "unknown"
  ELSE IF t.activity # current /\ archive[t.activity].title # title[t.activity]
       THEN "unavailable"
  ELSE IF t.title # title[t.activity] \/ t.label # LabelOf(t.activity) \/ Matching(t) = {}
       THEN "unknown"
  ELSE IF \E x \in Matching(t) : x.revoked THEN "revoked" ELSE "valid"

ArchiveInit ==
  /\ current = 1 /\ lastActivity = 1
  /\ title = [a \in {1} |-> FirstName]
  /\ archive = [a \in {} |-> {}]
  /\ label = FirstName
  /\ rows = {} /\ lastRow = 0
  /\ receipts = {}
  /\ renames = 0

-----------------------------------------------------------------------------

\* A committed transaction of claims: new rows, numbered on from lastRow.
RecordSelections(new, last) ==
  /\ last >= lastRow
  /\ \A x \in new : x.id \in (lastRow + 1)..last /\ ~x.revoked
  /\ \A x, y \in new : x.id = y.id => x = y
  /\ rows' = rows \cup new
  /\ lastRow' = last
  /\ UNCHANGED <<title, archive, current, lastActivity, label, receipts, renames>>

\* The row stays, with revoked_at set.
Revoke(x) ==
  /\ x \in rows /\ ~x.revoked
  /\ rows' = (rows \ {x}) \cup {[x EXCEPT !.revoked = TRUE]}
  /\ UNCHANGED <<title, archive, current, lastActivity, label, lastRow, receipts, renames>>

\* update_settings writes the title to both tables; their triggers agree.
Retitle(n) ==
  /\ renames < MaxRenames /\ n # title[current]
  /\ renames' = renames + 1
  /\ title' = [title EXCEPT ![current] = n]
  /\ UNCHANGED <<archive, current, lastActivity, label, rows, lastRow, receipts>>

\* The names of groups or majors are edited, or students re-imported.
Relabel(n) ==
  /\ renames < MaxRenames /\ n # label
  /\ renames' = renames + 1
  /\ label' = n
  /\ UNCHANGED <<title, archive, current, lastActivity, rows, lastRow, receipts>>

\* Slip, for the runs on mutated code: the trigger reads OLD.current_activity_id.
SyncedBeforeSwitch(next) == current
\* The activity whose title sync_settings_title_to_activity overwrites when one
\* UPDATE of settings changes the current id and the title: the new one.
SyncedBySettings(next) == next

\* create_activity: snapshot, new row, switch of the settings, empty tables.
CreateActivity(n) ==
  LET next  == lastActivity + 1
      table == [a \in Known \cup {next} |-> IF a = next THEN n ELSE title[a]]
  IN  /\ next <= MaxActivities
      /\ archive' = [a \in DOMAIN archive \cup {current} |->
                       IF a = current
                       THEN [title |-> title[current], label |-> label, rows |-> rows]
                       ELSE archive[a]]
      /\ title' = [table EXCEPT ![SyncedBySettings(next)] = n]
      /\ current' = next /\ lastActivity' = next
      /\ rows' = {}
      /\ UNCHANGED <<label, lastRow, receipts, renames>>

\* delete_activity_archive: only an archive that agrees with its row.
DeleteArchive(a) ==
  /\ a \in DOMAIN archive
  /\ archive' = [b \in DOMAIN archive \ {a} |-> archive[b]]
  /\ title' = [b \in Known \ {a} |-> title[b]]
  /\ UNCHANGED <<current, lastActivity, label, rows, lastRow, receipts, renames>>

\* student_me: the receipt of the selection a student holds.
FetchReceipt(x) ==
  /\ x \in rows /\ ~x.revoked
  /\ receipts' = receipts \cup {Receipt(x)}
  /\ UNCHANGED <<title, archive, current, lastActivity, label, rows, lastRow, renames>>

\* The answer to a claim, built inside its transaction, arrives later: the row
\* is on record, or was until its archive was deleted.
DeliverReceipt(t) ==
  /\ t.activity <= lastActivity
  /\ t.activity \in Known => Matching(t) # {}
  /\ receipts' = receipts \cup {t}
  /\ UNCHANGED <<title, archive, current, lastActivity, label, rows, lastRow, renames>>

\* The step names what it adds, so that any set of rows and any receipt may be.
ArchiveNext ==
  \/ RecordSelections(rows' \ rows, lastRow')
  \/ \E x \in rows : Revoke(x) \/ FetchReceipt(x)
  \/ \E n \in Names : Retitle(n) \/ Relabel(n) \/ CreateActivity(n)
  \/ \E a \in DOMAIN archive : DeleteArchive(a)
  \/ \E t \in receipts' : DeliverReceipt(t)

ArchiveSpec == ArchiveInit /\ [][ArchiveNext]_archiveVars

-----------------------------------------------------------------------------
(* What must hold. *)

\* What verification says of a receipt is settled when its activity is archived,
\* and equals what it said before: no later activity, rename, claim, revocation or
\* late answer changes it.  Only deleting the archive does.
VerdictsSettle ==
  [][\A t \in receipts :
       t.activity \in Known' /\ t.activity # current' => Verdict(t)' = Verdict(t)]_archiveVars

\* All receipts of a student that verify as valid in one activity answer for the
\* same selection, however often it was withdrawn, taken again and shown again.
ValidReceiptsAgree ==
  \A t, u \in receipts :
    /\ Verdict(t) = "valid" /\ Verdict(u) = "valid"
    /\ t.student = u.student /\ t.activity = u.activity
    => t.id = u.id /\ t.group = u.group
=============================================================================
