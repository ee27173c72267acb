--------------------------- MODULE StudentSessions ---------------------------
(***************************************************************************)
(* Sessions of students in server/main.py: the login, which reads and      *)
(* verifies a candidate row, passes the response gate, writes the session  *)
(* through the batch writer, reads the committed state and then sends the  *)
(* cookie; and everything that touches the rows meanwhile: other logins,   *)
(* heartbeats, logout, expiry, roster imports and a new activity.          *)
(*                                                                         *)
(* A session is known by the login that created it.  A student's row lives *)
(* from its import to the next activity and ids are never reused, so       *)
(* (student, activity) is the row's id.  A card is what a student has to   *)
(* prove, name and activation code.  The writer's jobs run one by one:     *)
(* that several share a transaction only hides states between them.        *)
(***************************************************************************)
EXTENDS Integers, FiniteSets

CONSTANTS
  Students,
  Cards, NoCard,   \* name with activation code; NoCard where there is no row
  Logins,          \* login requests; each is made at most once
  Who, Proves,     \* the student number and the card a login presents
  Interval,        \* HEARTBEAT_WRITE_INTERVAL_SECONDS in ticks
  Tabs,            \* a bound on each session's heartbeats waiting to be written
  MaxActivities    \* a bound on the activities of one behaviour

ASSUME SessionAssumption ==
  /\ IsFiniteSet(Logins)
  /\ NoCard \notin Cards
  /\ Who \in [Logins -> Students]
  /\ Proves \in [Logins -> Cards]
  /\ Interval \in Nat
  /\ Tabs \in [Logins -> Nat]
  /\ MaxActivities \in Nat \ {0}

VARIABLES
  activity,        \* settings.current_activity_id
  card,            \* name and activation code of each student's row
  activeStudents,  \* rows with active = 1
  sessions,        \* rows of the table sessions
  expired,         \* those whose expires_at has passed
  age,             \* ticks since last_seen_at, counted up to Interval
  phase,           \* where each login request is
  candidate,       \* activity of the row it read, 0 before
  gate,            \* PrincipalResponseGate._active
  queue,           \* logins whose write waits for the writer
  ahead,           \* for each of them, those that arrived before it
  beating,         \* heartbeats of a session that wait for the writer
  replaced         \* history: live sessions deleted by a later login

rows    == <<activity, card, activeStudents>>
table   == <<sessions, expired, age, replaced>>
request == <<phase, candidate, gate>>
writer  == <<queue, ahead>>
vars    == <<rows, table, request, writer, beating>>

-----------------------------------------------------------------------------

\* The id of the row that a login read.
RowId(l) == <<Who[l], candidate[l]>>
Twin(k, l) == RowId(k) = RowId(l)

\* credentials_match on the row as it is now.
Matches(l) == Who[l] \in activeStudents /\ card[Who[l]] = Proves[l]

\* require_session_from_connection: a row that has not expired.
Live(l) == l \in sessions \ expired

\* Phases in which a login keeps the gate of its student.
Holding == {"queued", "written", "failed", "projected"}
Holders == {l \in Logins : phase[l] \in Holding}

\* Rows that remain after a deletion.
Keep(rest) ==
  /\ sessions' = rest
  /\ expired' = expired \cap rest
  /\ age' = [l \in Logins |-> IF l \in rest THEN age[l] ELSE 0]

Init ==
  /\ activity = 1
  /\ card = [s \in Students |-> NoCard]
  /\ activeStudents = {}
  /\ sessions = {} /\ expired = {} /\ replaced = {}
  /\ age = [l \in Logins |-> 0]
  /\ phase = [l \in Logins |-> "idle"]
  /\ candidate = [l \in Logins |-> 0]
  /\ gate = {}
  /\ queue = {}
  /\ ahead = [l \in Logins |-> {}]
  /\ beating = [l \in Logins |-> 0]

-----------------------------------------------------------------------------
(* The login handler on the event loop. *)

ReadCandidate(l) ==
  /\ phase[l] = "idle"
  /\ Matches(l)
  /\ phase' = [phase EXCEPT ![l] = "matched"]
  /\ candidate' = [candidate EXCEPT ![l] = activity]
  /\ UNCHANGED <<rows, table, gate, writer, beating>>

\* Wrong credentials, a limiter, a gate already held, or a queue that is full
\* or closed; the last after acquiring the gate and releasing it again.
TurnAway(l) ==
  /\ phase[l] \in {"idle", "matched"}
  /\ phase' = [phase EXCEPT ![l] = "refused"]
  /\ UNCHANGED <<rows, table, candidate, gate, writer, beating>>

\* Slip, for the runs on mutated code: the gate is not consulted.
EnterGateUnchecked(l) ==
  /\ phase[l] = "matched"
  /\ gate' = gate \cup {RowId(l)}
  /\ phase' = [phase EXCEPT ![l] = "queued"]
  /\ queue' = queue \cup {l}
  /\ ahead' = [ahead EXCEPT ![l] = queue]
  /\ UNCHANGED <<rows, table, candidate, beating>>
\* try_acquire and submit_async, with no await between them.
EnterGate(l) ==
  /\ phase[l] = "matched"
  /\ RowId(l) \notin gate
  /\ gate' = gate \cup {RowId(l)}
  /\ phase' = [phase EXCEPT ![l] = "queued"]
  /\ queue' = queue \cup {l}
  /\ ahead' = [ahead EXCEPT ![l] = queue]
  /\ UNCHANGED <<rows, table, candidate, beating>>

\* The request is over; the response gate opens again.
Leave(l, end) ==
  /\ phase' = [phase EXCEPT ![l] = end]
  /\ gate' = gate \ {RowId(l)}
  /\ UNCHANGED <<rows, table, candidate, writer, beating>>

\* The exception of the write or of the survival check reaches the client.
AnswerFailure(l) ==
  /\ phase[l] = "failed"
  /\ Leave(l, "refused")

\* Slip, for the runs on mutated code: the gate opens when the handler returns.
ProjectLoginAndOpenGate(l) ==
  /\ phase[l] = "written"
  /\ phase' = [phase EXCEPT ![l] = IF l \in sessions THEN "projected" ELSE "failed"]
  /\ gate' = gate \ {RowId(l)}
  /\ UNCHANGED <<rows, table, candidate, writer, beating>>
\* project_committed_login: is the session still there?
ProjectLogin(l) ==
  /\ phase[l] = "written"
  /\ phase' = [phase EXCEPT ![l] = IF l \in sessions THEN "projected" ELSE "failed"]
  /\ UNCHANGED <<rows, table, candidate, gate, writer, beating>>

\* The outer send has returned, with the cookie on its way to the browser.
SendLogin(l) ==
  /\ phase[l] = "projected"
  /\ Leave(l, "sent")

\* The request is cancelled or its send raises; a job in the queue stays there.
Abandon(l) ==
  /\ phase[l] \in {"queued", "written", "projected"}
  /\ Leave(l, "refused")

-----------------------------------------------------------------------------
(* The writer thread and the sessions table. *)

\* A job leaves the queue.
Dequeue(l) ==
  /\ queue' = queue \ {l}
  /\ ahead' = [k \in Logins |-> IF k = l THEN {} ELSE ahead[k] \ {l}]

\* A job is done: the request that still waits for it goes on.
Resolve(l, next) ==
  /\ Dequeue(l)
  /\ phase' = IF phase[l] = "queued" THEN [phase EXCEPT ![l] = next] ELSE phase
  /\ UNCHANGED <<rows, candidate, gate, beating>>

IsNextJob(l) == l \in queue /\ ahead[l] = {}

\* The session that a login of the same row has to replace.
Earlier(l) == {k \in sessions \ expired : Twin(k, l)}

\* A new row; those in "gone" are deleted before.
Insert(l, gone) ==
  /\ sessions' = (sessions \ gone) \cup {l}
  /\ expired' = {}
  /\ age' = [k \in Logins |-> IF k \in sessions \ gone THEN age[k] ELSE 0]
  /\ replaced' = replaced \cup Earlier(l)

\* persist_session: expired rows and the student's earlier session give way.
PersistSession(l) == Insert(l, expired \cup Earlier(l))

\* Slip, for the runs on mutated code: the credentials are not verified again.
StillEntitledAsRead(l) == Who[l] \in activeStudents /\ candidate[l] = activity
\* The callback reads the row again.
StillEntitled(l) == Matches(l) /\ candidate[l] = activity

WriteLogin(l) ==
  /\ IsNextJob(l)
  /\ StillEntitled(l)
  /\ PersistSession(l)
  /\ Resolve(l, "written")

RejectLogin(l) ==
  /\ IsNextJob(l)
  /\ ~StillEntitled(l)
  /\ Resolve(l, "failed")
  /\ UNCHANGED table

\* Slip, for the runs on mutated code: a displaced job is forgotten.
LoseWriteSilently(l) ==
  /\ l \in queue
  /\ Dequeue(l)
  /\ UNCHANGED <<rows, table, request, beating>>
\* A claim displaces the job, or its transaction fails.
LoseWrite(l) ==
  /\ l \in queue
  /\ Resolve(l, "failed")
  /\ UNCHANGED table

\* The first part of a heartbeat, with a cookie that was delivered.
ReadHeartbeat(l) ==
  /\ phase[l] = "sent"
  /\ Live(l)
  /\ age[l] >= Interval
  /\ beating[l] < Tabs[l]
  /\ beating' = [beating EXCEPT ![l] = @ + 1]
  /\ UNCHANGED <<rows, table, request, writer>>

\* Slip, for the runs on mutated code: the write relies on the read's cutoff.
BeatIsDueAsRead(l) == Live(l) /\ candidate[l] = activity
\* require_expected_activity and the cutoff in the WHERE clause.
BeatIsDue(l) == Live(l) /\ candidate[l] = activity /\ age[l] >= Interval

\* persist_heartbeat, which may also be refused or lost in the queue.
WriteHeartbeat(l) ==
  /\ beating[l] > 0
  /\ beating' = [beating EXCEPT ![l] = @ - 1]
  /\ age' \in {age} \cup (IF BeatIsDue(l) THEN {[age EXCEPT ![l] = 0]} ELSE {})
  /\ UNCHANGED <<rows, sessions, expired, replaced, request, writer>>

Logout(l) ==
  /\ phase[l] = "sent"
  /\ Live(l)
  /\ Keep(sessions \ {l})
  /\ UNCHANGED <<rows, replaced, request, writer, beating>>

Expire(l) ==
  /\ Live(l)
  /\ expired' = expired \cup {l}
  /\ UNCHANGED <<rows, sessions, age, replaced, request, writer, beating>>

\* Time passes for the rows that have not reached the cutoff.
Tick ==
  /\ \E l \in sessions : age[l] < Interval
  /\ age' = [l \in Logins |-> IF l \in sessions /\ age[l] < Interval THEN age[l] + 1
                              ELSE age[l]]
  /\ UNCHANGED <<rows, sessions, expired, replaced, request, writer, beating>>

-----------------------------------------------------------------------------
(* The administrator. *)

\* Known students whose code, name, major or access the roster changes.
Affected(listed, new, moved) ==
  {s \in listed : card[s] # NoCard
                  /\ (new[s] # card[s] \/ s \in moved \/ s \notin activeStudents)}

\* import_students, merging or synchronising; a roster refused because of the
\* round or of a selection is no step.
ImportStudents(listed, new, moved, sync) ==
  LET affected == Affected(listed, new, moved)
      retired  == IF sync THEN activeStudents \ listed ELSE {}
  IN  /\ card' = [s \in Students |-> IF s \in listed THEN new[s] ELSE card[s]]
      /\ activeStudents' = (activeStudents \cup listed) \ retired
      /\ Keep({l \in sessions : ~(Who[l] \in affected \cup retired
                                  /\ candidate[l] = activity)})
      /\ UNCHANGED <<activity, replaced, request, writer, beating>>

NewActivity ==
  /\ activity < MaxActivities
  /\ activity' = activity + 1
  /\ card' = [s \in Students |-> NoCard]
  /\ activeStudents' = {}
  /\ Keep({})
  /\ UNCHANGED <<replaced, request, writer, beating>>

\* The process dies and is started again: requests, gate and queue are lost.
Crash ==
  /\ phase' = [l \in Logins |-> IF phase[l] \in Holding \cup {"matched"} THEN "refused"
                                ELSE phase[l]]
  /\ gate' = {}
  /\ queue' = {}
  /\ ahead' = [l \in Logins |-> {}]
  /\ beating' = [l \in Logins |-> 0]
  /\ UNCHANGED <<rows, table, candidate>>

-----------------------------------------------------------------------------

Handler(l) ==
  \/ ReadCandidate(l) \/ TurnAway(l) \/ EnterGate(l)
  \/ AnswerFailure(l) \/ ProjectLogin(l) \/ SendLogin(l) \/ Abandon(l)

Thread(l) == WriteLogin(l) \/ RejectLogin(l) \/ LoseWrite(l)

Page(l) == ReadHeartbeat(l) \/ WriteHeartbeat(l) \/ Logout(l) \/ Expire(l)

Administrator ==
  \/ \E listed \in SUBSET Students : \E new \in [listed -> Cards] :
       \E moved \in SUBSET listed, sync \in BOOLEAN :
         ImportStudents(listed, new, moved, sync)
  \/ NewActivity

Next ==
  \/ \E l \in Logins : Handler(l) \/ Thread(l) \/ Page(l)
  \/ Administrator \/ Tick \/ Crash

Spec == Init /\ [][Next]_vars

\* A request that is past the gate goes on, and the writer keeps running.
FairSpec ==
  /\ Spec
  /\ \A l \in Logins : WF_vars(AnswerFailure(l) \/ ProjectLogin(l) \/ SendLogin(l))
  /\ WF_vars(\E l \in Logins : Thread(l))

-----------------------------------------------------------------------------
(* What must hold. *)

TypeOK ==
  /\ activity \in 1..MaxActivities
  /\ card \in [Students -> Cards \cup {NoCard}]
  /\ activeStudents \subseteq {s \in Students : card[s] # NoCard}
  /\ sessions \subseteq Logins /\ expired \subseteq sessions
  /\ replaced \subseteq Logins \ sessions
  /\ age \in [Logins -> 0..Interval]
  /\ phase \in [Logins -> {"idle", "matched", "sent", "refused"} \cup Holding]
  /\ candidate \in [Logins -> 0..MaxActivities]
  /\ gate \subseteq Students \X (0..MaxActivities)
  /\ queue \subseteq Logins
  /\ ahead \in [Logins -> SUBSET queue]
  /\ beating \in [Logins -> Nat]

\* A student has at most one session, whatever order the writes of several
\* devices, imports and activities come in (persist_session).
OneSessionEach == \A k, l \in sessions : Who[k] = Who[l] => k = l

\* Every session in the table was opened with the name and code its student's
\* row holds now, for a row that is active and of the current activity: a login
\* that waited in the queue while the roster changed leaves no session behind.
SessionsMatchRoster ==
  \A l \in sessions : Matches(l) /\ candidate[l] = activity

\* The response gate is held by exactly the logins past it, one per student's
\* row: it is neither leaked by a failure nor opened early by someone else.
GateExact ==
  /\ gate = {RowId(l) : l \in Holders}
  /\ \A k, l \in Holders : Twin(k, l) => k = l

\* No login is answered with a cookie that a later login has made invalid: the
\* gate stays shut until the answer is sent, and an abandoned write is older.
NoReplacedCookieSent ==
  [][\A l \in Logins : phase[l] # "sent" /\ phase'[l] = "sent" => l \notin replaced]_vars

\* last_seen_at of a session is renewed at most once per interval, however
\* many of its heartbeats found it due before the first was written.
PresenceThrottled ==
  [][\A l \in sessions \cap sessions' : age'[l] < age[l] => age[l] = Interval]_vars

\* Every login that entered the gate leaves it: no lost write or cancellation
\* keeps a student from ever logging in again (the finally of student_login).
GateIsReturned ==
  \A l \in Logins : (phase[l] \in Holding) ~> (phase[l] \notin Holding)
=============================================================================
