------------------------ MODULE StudentSessionsProofs ------------------------
(***************************************************************************)
(* Proofs about StudentSessions, for any number of students, logins,       *)
(* activities and heartbeats.                                              *)
(***************************************************************************)
EXTENDS StudentSessions, TLAPS

-----------------------------------------------------------------------------
(* The inductive invariant. *)

\* A job's row is not in the table yet, and its request waits or is over.
QueuedIsNew ==
  \A l \in queue :
    l \notin sessions /\ l \notin replaced /\ phase[l] \in {"queued", "refused"}

\* A login past the gate finds the abandoned writes of its student before it
\* while it waits, and none left once it is written; it is not replaced then.
GateProtects ==
  \A l \in Logins :
    /\ phase[l] \in {"idle", "matched"} =>
         l \notin queue /\ l \notin sessions /\ l \notin replaced
    /\ phase[l] = "queued" =>
         l \in queue /\ \A k \in queue : Twin(k, l) /\ k # l => k \in ahead[l]
    /\ phase[l] \in {"written", "projected"} =>
         l \notin replaced /\ \A k \in queue : ~Twin(k, l)

Inv == TypeOK /\ GateExact /\ QueuedIsNew /\ GateProtects /\ SessionsMatchRoster

LEMMA InvInit == Init => Inv
BY SessionAssumption
   DEF Init, Inv, TypeOK, GateExact, QueuedIsNew, GateProtects, SessionsMatchRoster,
       Holders, Holding

-----------------------------------------------------------------------------
(* The handler's steps. *)

LEMMA ReadCandidateStep ==
  ASSUME Inv, NEW l \in Logins, ReadCandidate(l)
  PROVE  Inv'
<1> USE SessionAssumption DEF Inv, ReadCandidate, rows, table, writer
<1>0. l \notin queue /\ l \notin sessions /\ l \notin Holders /\ l \notin Holders'
      /\ Holders' = Holders /\ \A k \in Logins \ {l} : RowId(k)' = RowId(k)
  BY DEF TypeOK, GateProtects, Holders, Holding, RowId
<1>1. TypeOK'
  BY DEF TypeOK, Holding
<1>2. GateExact'
  BY <1>0 DEF GateExact, Twin, TypeOK, Holders
<1>3. QueuedIsNew'
  BY <1>0 DEF QueuedIsNew, TypeOK
<1>4. GateProtects'
  BY <1>0 DEF GateProtects, Twin, TypeOK
<1>5. SessionsMatchRoster'
  BY <1>0 DEF SessionsMatchRoster, Matches, TypeOK
<1> QED
  BY <1>1, <1>2, <1>3, <1>4, <1>5

LEMMA TurnAwayStep ==
  ASSUME Inv, NEW l \in Logins, TurnAway(l)
  PROVE  Inv'
<1> USE SessionAssumption DEF Inv, TurnAway, rows, table, writer
<1>0. l \notin queue /\ Holders' = Holders /\ \A k \in Logins : RowId(k)' = RowId(k)
  BY DEF TypeOK, GateProtects, Holders, Holding, RowId
<1>1. TypeOK'
  BY DEF TypeOK, Holding
<1>2. GateExact'
  BY <1>0 DEF GateExact, Twin, TypeOK, Holders
<1>3. QueuedIsNew'
  BY <1>0 DEF QueuedIsNew, TypeOK
<1>4. GateProtects'
  BY <1>0 DEF GateProtects, Twin, TypeOK
<1>5. SessionsMatchRoster'
  BY <1>0 DEF SessionsMatchRoster, Matches, TypeOK
<1> QED
  BY <1>1, <1>2, <1>3, <1>4, <1>5

LEMMA EnterGateStep ==
  ASSUME Inv, NEW l \in Logins, EnterGate(l)
  PROVE  Inv'
<1> USE SessionAssumption DEF Inv, EnterGate, rows, table
<1>0. /\ l \notin queue /\ l \notin sessions /\ l \notin replaced
      /\ Holders' = Holders \cup {l} /\ l \notin Holders
      /\ \A k \in Logins : RowId(k)' = RowId(k)
  BY DEF TypeOK, GateProtects, Holders, Holding, RowId
<1>1. \A k \in Holders : ~Twin(k, l) /\ ~Twin(l, k)
  BY DEF GateExact, Twin
<1>2. TypeOK'
  <2>1. RowId(l) \in Students \X (0..MaxActivities)
    BY DEF RowId, TypeOK
  <2>2. ahead' \in [Logins -> SUBSET queue']
    BY DEF TypeOK
  <2> QED
    BY <2>1, <2>2 DEF TypeOK, Holding
<1>3. GateExact'
  BY <1>0, <1>1 DEF GateExact, Twin, Holders
<1>4. QueuedIsNew'
  BY <1>0 DEF QueuedIsNew, TypeOK
<1>5. GateProtects'
  <2> SUFFICES ASSUME NEW k \in Logins
               PROVE  /\ phase'[k] \in {"idle", "matched"} =>
                           k \notin queue' /\ k \notin sessions' /\ k \notin replaced'
                      /\ phase'[k] = "queued" =>
                           k \in queue' /\ \A j \in queue' : Twin(j, k)' /\ j # k => j \in ahead'[k]
                      /\ phase'[k] \in {"written", "projected"} =>
                           k \notin replaced' /\ \A j \in queue' : ~Twin(j, k)'
    BY DEF GateProtects
  <2>1. CASE k = l
    BY <1>0, <2>1 DEF GateProtects, TypeOK
  <2>2. CASE k # l
    <3>1. phase'[k] = phase[k] /\ ahead'[k] = ahead[k]
      BY <2>2 DEF TypeOK
    <3>2. phase[k] \in Holding => ~Twin(l, k)
      BY <1>1 DEF Holders
    <3> QED
      BY <1>0, <2>2, <3>1, <3>2 DEF GateProtects, Twin, TypeOK, Holding
  <2> QED
    BY <2>1, <2>2
<1>6. SessionsMatchRoster'
  BY DEF SessionsMatchRoster, Matches, TypeOK
<1> QED
  BY <1>2, <1>3, <1>4, <1>5, <1>6

\* Leaving the gate, with an answer or without.
LEMMA LeaveStep ==
  ASSUME Inv, NEW l \in Logins, NEW end \in {"sent", "refused"},
         phase[l] \in Holding, end = "sent" => phase[l] = "projected", Leave(l, end)
  PROVE  Inv'
<1> USE SessionAssumption DEF Inv, Leave, rows, table, writer
<1>0. /\ Holders' = Holders \ {l} /\ l \in Holders
      /\ \A k \in Logins : RowId(k)' = RowId(k)
  BY DEF TypeOK, Holders, Holding, RowId
<1>1. TypeOK'
  BY DEF TypeOK, Holding
<1>2. GateExact'
  <2>1. \A k \in Holders : RowId(k) = RowId(l) => k = l
    BY <1>0 DEF GateExact, Twin
  <2>2. gate = {RowId(k) : k \in Holders} /\ Holders \subseteq Logins
    BY DEF GateExact, Holders
  <2>3. gate' = {RowId(k) : k \in Holders \ {l}}
    BY <1>0, <2>1, <2>2
  <2>4. {RowId(k) : k \in Holders}' = {RowId(k) : k \in Holders \ {l}}
    BY <1>0, <2>2
  <2>5. \A j, k \in Holders' : Twin(j, k)' => j = k
    BY <1>0, <2>2 DEF GateExact, Twin
  <2> QED
    BY <2>3, <2>4, <2>5 DEF GateExact
<1>3. QueuedIsNew'
  BY DEF QueuedIsNew, TypeOK, Holding
<1>4. GateProtects'
  BY <1>0 DEF GateProtects, Twin, TypeOK
<1>5. SessionsMatchRoster'
  BY DEF SessionsMatchRoster, Matches, TypeOK
<1> QED
  BY <1>1, <1>2, <1>3, <1>4, <1>5

LEMMA ProjectLoginStep ==
  ASSUME Inv, NEW l \in Logins, ProjectLogin(l)
  PROVE  Inv'
<1> USE SessionAssumption DEF Inv, ProjectLogin, rows, table, writer
<1>0. Holders' = Holders /\ \A k \in Logins : RowId(k)' = RowId(k)
  BY DEF TypeOK, Holders, Holding, RowId
<1>1. TypeOK'
  BY DEF TypeOK, Holding
<1>2. GateExact'
  BY <1>0 DEF GateExact, Twin, TypeOK, Holders
<1>3. QueuedIsNew'
  BY DEF QueuedIsNew, TypeOK
<1>4. GateProtects'
  BY <1>0 DEF GateProtects, Twin, TypeOK
<1>5. SessionsMatchRoster'
  BY DEF SessionsMatchRoster, Matches, TypeOK
<1> QED
  BY <1>1, <1>2, <1>3, <1>4, <1>5

-----------------------------------------------------------------------------
(* The writer's steps. *)

\* A job leaves the queue and its request, if it still waits, goes on; "added"
\* is the session it wrote, if any.
LEMMA ResolveRequest ==
  ASSUME Inv, NEW l \in Logins, l \in queue, NEW next \in {"written", "failed"},
         Resolve(l, next)
  PROVE  /\ Holders' = Holders /\ GateExact'
         /\ \A k \in Logins : RowId(k)' = RowId(k)
         /\ queue' = queue \ {l}
         /\ ahead' \in [Logins -> SUBSET queue']
         /\ phase' \in [Logins -> {"idle", "matched", "sent", "refused"} \cup Holding]
         /\ \A k \in Logins \ {l} : phase'[k] = phase[k]
         /\ phase'[l] \in {next, "refused"} /\ (phase'[l] = next => phase[l] = "queued")
<1> USE SessionAssumption DEF Inv, Resolve, Dequeue, rows
<1>1. phase[l] \in {"queued", "refused"}
  BY DEF QueuedIsNew
<1>2. Holders' = Holders /\ \A k \in Logins : RowId(k)' = RowId(k)
  BY <1>1 DEF TypeOK, Holders, Holding, RowId
<1>3. GateExact'
  BY <1>2 DEF GateExact, Twin, Holders
<1>4. ahead' \in [Logins -> SUBSET queue']
  BY DEF TypeOK
<1>5. phase' \in [Logins -> {"idle", "matched", "sent", "refused"} \cup Holding]
  BY DEF TypeOK, Holding
<1> QED
  BY <1>1, <1>2, <1>3, <1>4, <1>5 DEF TypeOK

\* What the queue's order says of the requests that remain.
LEMMA ResolveGate ==
  ASSUME Inv, NEW l \in Logins, l \in queue, NEW next \in {"written", "failed"},
         Resolve(l, next), replaced' \subseteq replaced \cup Earlier(l),
         sessions' \subseteq sessions \cup {l},
         next = "written" => IsNextJob(l)
  PROVE  GateProtects' /\ QueuedIsNew'
<1> USE SessionAssumption DEF Inv
<1>0. /\ \A k \in Logins : RowId(k)' = RowId(k)
      /\ queue' = queue \ {l}
      /\ \A k \in Logins \ {l} : phase'[k] = phase[k]
      /\ phase'[l] \in {next, "refused"} /\ (phase'[l] = next => phase[l] = "queued")
  BY ResolveRequest
<1>1. \A k \in Logins \ {l} : ahead'[k] = ahead[k] \ {l}
  BY DEF Resolve, Dequeue
<1>2. Earlier(l) \subseteq sessions /\ \A k \in Earlier(l) : Twin(k, l)
  BY DEF Earlier
<1>3. QueuedIsNew'
  BY <1>0, <1>2 DEF QueuedIsNew, TypeOK
<1>4. ASSUME NEW k \in Logins, phase'[k] \in {"idle", "matched"}
      PROVE  k \notin queue' /\ k \notin sessions' /\ k \notin replaced'
  BY <1>0, <1>2, <1>4 DEF GateProtects
<1>5. ASSUME NEW k \in Logins, phase'[k] = "queued"
      PROVE  k \in queue' /\ \A j \in queue' : Twin(j, k)' /\ j # k => j \in ahead'[k]
  BY <1>0, <1>1, <1>5 DEF GateProtects, Twin, TypeOK
<1>6. ASSUME NEW k \in Logins, phase'[k] \in {"written", "projected"}
      PROVE  k \notin replaced' /\ \A j \in queue' : ~Twin(j, k)'
  <2>1. CASE k = l
    <3>1. next = "written" /\ phase[l] = "queued" /\ ahead[l] = {}
      BY <1>0, <1>6, <2>1 DEF IsNextJob
    <3>2. l \notin replaced /\ l \notin Earlier(l)
      BY <1>2 DEF QueuedIsNew
    <3>3. \A j \in queue : j # l => ~Twin(j, l)
      BY <3>1 DEF GateProtects
    <3> QED
      BY <1>0, <2>1, <3>2, <3>3 DEF Twin, TypeOK
  <2>2. CASE k # l
    <3>1. phase[k] \in {"written", "projected"}
      BY <1>0, <1>6, <2>2
    <3>2. k \notin replaced /\ \A j \in queue : ~Twin(j, k)
      BY <3>1 DEF GateProtects
    <3>3. k \notin Earlier(l)
      BY <1>2, <3>2 DEF Twin
    <3> QED
      BY <1>0, <3>2, <3>3 DEF Twin, TypeOK
  <2> QED
    BY <2>1, <2>2
<1> QED
  BY <1>3, <1>4, <1>5, <1>6 DEF GateProtects

LEMMA WriteLoginStep ==
  ASSUME Inv, NEW l \in Logins, WriteLogin(l)
  PROVE  Inv'
<1> USE SessionAssumption DEF Inv
<1>1. /\ l \in queue /\ IsNextJob(l) /\ Resolve(l, "written") /\ StillEntitled(l)
      /\ sessions' = (sessions \ (expired \cup Earlier(l))) \cup {l}
      /\ expired' = {} /\ replaced' = replaced \cup Earlier(l)
      /\ age' = [k \in Logins |-> IF k \in sessions \ (expired \cup Earlier(l))
                                  THEN age[k] ELSE 0]
  BY DEF WriteLogin, IsNextJob, PersistSession, Insert
<1>2. UNCHANGED <<rows, candidate, gate, beating>>
  BY <1>1 DEF Resolve
<1>3. Earlier(l) \subseteq sessions /\ l \notin sessions /\ l \notin replaced
  BY <1>1 DEF Earlier, QueuedIsNew
<1>4. GateProtects' /\ QueuedIsNew'
  BY <1>1, ResolveGate
<1>5. /\ GateExact' /\ queue' = queue \ {l}
      /\ ahead' \in [Logins -> SUBSET queue']
      /\ phase' \in [Logins -> {"idle", "matched", "sent", "refused"} \cup Holding]
  BY <1>1, ResolveRequest
<1>6. replaced' \subseteq Logins \ sessions'
  BY <1>1, <1>3 DEF TypeOK
<1>7. age' \in [Logins -> 0..Interval]
  BY <1>1 DEF TypeOK
<1>8. TypeOK'
  BY <1>1, <1>2, <1>5, <1>6, <1>7 DEF TypeOK, rows
<1>9. SessionsMatchRoster'
  BY <1>1, <1>2 DEF SessionsMatchRoster, StillEntitled, Matches, rows
<1> QED
  BY <1>4, <1>5, <1>8, <1>9

LEMMA FailJobStep ==
  ASSUME Inv, NEW l \in Logins, l \in queue, Resolve(l, "failed"), UNCHANGED table
  PROVE  Inv'
<1> USE SessionAssumption DEF Inv, table
<1>1. UNCHANGED <<rows, candidate, gate, beating>>
  BY DEF Resolve
<1>2. GateProtects' /\ QueuedIsNew'
  BY ResolveGate
<1>3. /\ GateExact' /\ queue' = queue \ {l}
      /\ ahead' \in [Logins -> SUBSET queue']
      /\ phase' \in [Logins -> {"idle", "matched", "sent", "refused"} \cup Holding]
  BY ResolveRequest
<1>4. TypeOK'
  BY <1>1, <1>3 DEF TypeOK, rows
<1>5. SessionsMatchRoster'
  BY <1>1 DEF SessionsMatchRoster, Matches, rows
<1> QED
  BY <1>2, <1>3, <1>4, <1>5

-----------------------------------------------------------------------------
(* The steps on the table, by pages, the administrator and time. *)

\* Deleting rows, or none, disturbs no request.
LEMMA RequestsUndisturbed ==
  ASSUME Inv, sessions' \subseteq sessions, UNCHANGED <<replaced, request, writer>>
  PROVE  GateExact' /\ QueuedIsNew' /\ GateProtects'
BY DEF Inv, GateExact, QueuedIsNew, GateProtects, Twin, RowId, Holders, request, writer

LEMMA PageStep ==
  ASSUME Inv, NEW l \in Logins, Page(l)
  PROVE  Inv'
<1> USE SessionAssumption DEF Inv
<1>1. UNCHANGED <<rows, replaced, request, writer>> /\ sessions' \subseteq sessions
  BY DEF Page, ReadHeartbeat, WriteHeartbeat, Logout, Expire, Keep, table
<1>2. GateExact' /\ QueuedIsNew' /\ GateProtects'
  BY <1>1, RequestsUndisturbed
<1>3. SessionsMatchRoster'
  BY <1>1 DEF SessionsMatchRoster, Matches, rows, request
<1>4. age' \in [Logins -> 0..Interval]
  BY DEF TypeOK, Page, ReadHeartbeat, WriteHeartbeat, Logout, Expire, Keep, table
<1>5. beating' \in [Logins -> Nat]
  BY DEF TypeOK, Page, ReadHeartbeat, WriteHeartbeat, Logout, Expire
<1>6. sessions' \subseteq Logins /\ expired' \subseteq sessions'
  BY DEF TypeOK, Page, ReadHeartbeat, WriteHeartbeat, Logout, Expire, Keep, Live, table
<1>7. TypeOK'
  BY <1>1, <1>4, <1>5, <1>6 DEF TypeOK, rows, request, writer
<1> QED
  BY <1>2, <1>3, <1>7

LEMMA ImportStep ==
  ASSUME Inv, NEW listed \in SUBSET Students, NEW new \in [listed -> Cards],
         NEW moved \in SUBSET listed, NEW sync \in BOOLEAN,
         ImportStudents(listed, new, moved, sync)
  PROVE  Inv'
<1> USE SessionAssumption DEF Inv
<1> DEFINE affected == Affected(listed, new, moved)
           retired == IF sync THEN activeStudents \ listed ELSE {}
           ended == {l \in sessions : Who[l] \in affected \cup retired
                                      /\ candidate[l] = activity}
<1>1. /\ card' = [s \in Students |-> IF s \in listed THEN new[s] ELSE card[s]]
      /\ activeStudents' = (activeStudents \cup listed) \ retired
      /\ sessions' = sessions \ ended
      /\ expired' = expired \cap sessions'
      /\ age' = [l \in Logins |-> IF l \in sessions' THEN age[l] ELSE 0]
      /\ UNCHANGED <<activity, replaced, request, writer, beating>>
  BY DEF ImportStudents, Keep
<1>2. GateExact' /\ QueuedIsNew' /\ GateProtects'
  BY <1>1, RequestsUndisturbed
<1>3. SessionsMatchRoster'
  <2> SUFFICES ASSUME NEW l \in sessions' PROVE Matches(l)' /\ candidate'[l] = activity'
    BY DEF SessionsMatchRoster
  <2>1. Matches(l) /\ candidate[l] = activity /\ Who[l] \in Students
    BY <1>1 DEF SessionsMatchRoster, TypeOK
  <2>2. Who[l] \notin affected /\ Who[l] \notin retired
    BY <1>1, <2>1
  <2>3. card[Who[l]] # NoCard
    BY <2>1 DEF Matches, TypeOK
  <2>4. Who[l] \in listed => new[Who[l]] = card[Who[l]]
    BY <2>2, <2>3 DEF Affected
  <2>5. card'[Who[l]] = card[Who[l]] /\ Who[l] \in activeStudents'
    BY <1>1, <2>1, <2>2, <2>4 DEF Matches
  <2> QED
    BY <1>1, <2>1, <2>5 DEF Matches, request
<1>4. TypeOK'
  <2>1. card' \in [Students -> Cards \cup {NoCard}]
    BY <1>1 DEF TypeOK
  <2>2. activeStudents' \subseteq {s \in Students : card'[s] # NoCard}
    BY <1>1 DEF TypeOK
  <2>3. age' \in [Logins -> 0..Interval]
    BY <1>1 DEF TypeOK
  <2> QED
    BY <1>1, <2>1, <2>2, <2>3 DEF TypeOK, request, writer
<1> QED
  BY <1>2, <1>3, <1>4

LEMMA NewActivityStep ==
  ASSUME Inv, NewActivity
  PROVE  Inv'
<1> USE SessionAssumption DEF Inv, NewActivity, Keep
<1>1. GateExact' /\ QueuedIsNew' /\ GateProtects'
  BY RequestsUndisturbed
<1>2. SessionsMatchRoster'
  BY DEF SessionsMatchRoster
<1>3. TypeOK'
  BY DEF TypeOK, request, writer
<1> QED
  BY <1>1, <1>2, <1>3

LEMMA TickStep ==
  ASSUME Inv, Tick
  PROVE  Inv'
<1> USE SessionAssumption DEF Inv, Tick
<1>1. GateExact' /\ QueuedIsNew' /\ GateProtects'
  BY RequestsUndisturbed
<1>2. SessionsMatchRoster'
  BY DEF SessionsMatchRoster, Matches, rows, request
<1>3. age' \in [Logins -> 0..Interval]
  BY DEF TypeOK
<1>4. TypeOK'
  BY <1>3 DEF TypeOK, rows, request, writer
<1> QED
  BY <1>1, <1>2, <1>4

LEMMA CrashStep ==
  ASSUME Inv, Crash
  PROVE  Inv'
<1> USE SessionAssumption DEF Inv, Crash, rows, table
<1>1. Holders' = {}
  BY DEF Holders, Holding, TypeOK
<1>2. GateExact'
  BY <1>1 DEF GateExact
<1>3. QueuedIsNew' /\ GateProtects'
  BY DEF QueuedIsNew, GateProtects, TypeOK, Holding
<1>4. SessionsMatchRoster'
  BY DEF SessionsMatchRoster, Matches
<1>5. TypeOK'
  BY DEF TypeOK, Holding
<1> QED
  BY <1>2, <1>3, <1>4, <1>5

-----------------------------------------------------------------------------
(* The theorems. *)

LEMMA InvStep == Inv /\ [Next]_vars => Inv'
<1> SUFFICES ASSUME Inv, [Next]_vars PROVE Inv'
  OBVIOUS
<1>1. ASSUME NEW l \in Logins, Handler(l) PROVE Inv'
  <2>1. CASE AnswerFailure(l) \/ Abandon(l)
    BY <2>1, LeaveStep DEF AnswerFailure, Abandon, Holding
  <2>2. CASE SendLogin(l)
    BY <2>2, LeaveStep DEF SendLogin, Holding
  <2> QED
    BY <1>1, <2>1, <2>2, ReadCandidateStep, TurnAwayStep, EnterGateStep, ProjectLoginStep
       DEF Handler
<1>2. ASSUME NEW l \in Logins, Thread(l) PROVE Inv'
  BY <1>2, WriteLoginStep, FailJobStep DEF Thread, RejectLogin, LoseWrite, IsNextJob
<1>3. CASE UNCHANGED vars
  BY <1>3 DEF vars, rows, table, request, writer, Inv, TypeOK, GateExact, QueuedIsNew,
              GateProtects, SessionsMatchRoster, Holders, RowId, Twin, Matches
<1> QED
  BY <1>1, <1>2, <1>3, PageStep, ImportStep, NewActivityStep, TickStep, CrashStep
     DEF Next, Administrator

LEMMA Invariant == Spec => []Inv
BY InvInit, InvStep, PTL DEF Spec

\* Tables, gate and queue keep their types; a replaced session is not in the
\* table.
THEOREM TypeCorrect == Spec => []TypeOK
BY Invariant, PTL DEF Inv

\* No session exists whose name, code, access or activity is not that of the
\* student's row, whatever a login waited for in the queue.
THEOREM SessionsMatchRosterTheorem == Spec => []SessionsMatchRoster
BY Invariant, PTL DEF Inv

\* The response gate is held by exactly the logins past it.
THEOREM GateExactTheorem == Spec => []GateExact
BY Invariant, PTL DEF Inv

\* A student never has two sessions.
THEOREM OneSessionTheorem == Spec => []OneSessionEach
<1>1. Init => OneSessionEach
  BY DEF Init, OneSessionEach
<1>2. Inv /\ OneSessionEach /\ [Next]_vars => OneSessionEach'
  <2> SUFFICES ASSUME Inv, OneSessionEach, [Next]_vars PROVE OneSessionEach'
    OBVIOUS
  <2>1. ASSUME sessions' \subseteq sessions PROVE OneSessionEach'
    BY <2>1 DEF OneSessionEach
  <2>2. ASSUME NEW l \in Logins, WriteLogin(l) PROVE OneSessionEach'
    <3>1. /\ sessions' = (sessions \ (expired \cup Earlier(l))) \cup {l}
          /\ candidate[l] = activity
      BY <2>2 DEF WriteLogin, PersistSession, Insert, StillEntitled
    <3>2. \A k \in sessions' : Who[k] = Who[l] => k = l
      BY <3>1 DEF Inv, SessionsMatchRoster, Earlier, Twin, RowId
    <3> QED
      BY <3>1, <3>2 DEF OneSessionEach
  <2>3. ASSUME NEW l \in Logins, Handler(l) \/ Page(l) \/ RejectLogin(l) \/ LoseWrite(l)
        PROVE OneSessionEach'
    BY <2>1, <2>3 DEF Handler, ReadCandidate, TurnAway, EnterGate, AnswerFailure, ProjectLogin,
       SendLogin, Abandon, Leave, RejectLogin, LoseWrite, Page, ReadHeartbeat,
       WriteHeartbeat, Logout, Expire, Keep, table
  <2>4. CASE Administrator \/ Tick \/ Crash \/ UNCHANGED vars
    BY <2>1, <2>4 DEF Administrator, ImportStudents, NewActivity, Keep, Tick, Crash, vars, table
  <2> QED
    BY <2>2, <2>3, <2>4 DEF Next, Thread
<1> QED
  BY <1>1, <1>2, Invariant, PTL DEF Spec

\* No login is answered with a cookie that a later login replaced.
THEOREM NoReplacedCookieTheorem == Spec => NoReplacedCookieSent
<1> DEFINE Truthful ==
      \A l \in Logins : phase[l] # "sent" /\ phase'[l] = "sent" => l \notin replaced
<1>1. Inv /\ [Next]_vars => Truthful
  <2> SUFFICES ASSUME Inv, [Next]_vars, NEW l \in Logins,
                      phase[l] # "sent", phase'[l] = "sent"
               PROVE  l \notin replaced
    OBVIOUS
  <2> USE DEF Inv, TypeOK
  <2>1. phase[l] = "projected"
    <3>1. ASSUME NEW k \in Logins, Handler(k) PROVE phase[l] = "projected"
      BY <3>1 DEF Handler, ReadCandidate, TurnAway, EnterGate, AnswerFailure,
         ProjectLogin, SendLogin, Abandon, Leave
    <3>2. ASSUME NEW k \in Logins, Thread(k) PROVE FALSE
      BY <3>2 DEF Thread, WriteLogin, RejectLogin, LoseWrite, Resolve
    <3>3. ASSUME NEW k \in Logins, Page(k) PROVE FALSE
      BY <3>3 DEF Page, ReadHeartbeat, WriteHeartbeat, Logout, Expire, request
    <3>4. ~Administrator /\ ~Tick /\ ~Crash /\ ~UNCHANGED vars
      BY DEF Administrator, ImportStudents, NewActivity, Tick, Crash, vars, request
    <3> QED
      BY <3>1, <3>2, <3>3, <3>4 DEF Next
  <2> QED
    BY <2>1 DEF GateProtects
<1> QED
  BY <1>1, Invariant, PTL DEF Spec, NoReplacedCookieSent

\* last_seen_at is renewed only after a whole interval, for any number of
\* concurrent heartbeats.
THEOREM PresenceThrottledTheorem == Spec => PresenceThrottled
<1> DEFINE Throttled ==
      \A l \in sessions \cap sessions' : age'[l] < age[l] => age[l] = Interval
<1>1. Inv /\ [Next]_vars => Throttled
  <2> SUFFICES ASSUME Inv, [Next]_vars, NEW l \in sessions \cap sessions', age'[l] < age[l]
               PROVE  age[l] = Interval
    OBVIOUS
  <2> USE SessionAssumption DEF Inv, TypeOK
  <2>0. l \in Logins /\ age[l] \in Nat /\ age[l] <= Interval
    OBVIOUS
  <2>1. ASSUME NEW k \in Logins, WriteHeartbeat(k) PROVE age[l] = Interval
    <3>1. age' = [age EXCEPT ![k] = 0] /\ BeatIsDue(k)
      BY <2>0, <2>1 DEF WriteHeartbeat
    <3>2. k = l
      BY <2>0, <3>1
    <3> QED
      BY <2>0, <3>1, <3>2 DEF BeatIsDue
  <2>2. CASE age'[l] = age[l]
    BY <2>0, <2>2
  <2>3. ASSUME NEW k \in Logins, WriteLogin(k) PROVE age'[l] = age[l]
    <3>1. /\ k \notin sessions
          /\ sessions' = (sessions \ (expired \cup Earlier(k))) \cup {k}
          /\ age' = [j \in Logins |-> IF j \in sessions \ (expired \cup Earlier(k))
                                      THEN age[j] ELSE 0]
      BY <2>3 DEF WriteLogin, IsNextJob, QueuedIsNew, PersistSession, Insert
    <3> QED
      BY <2>0, <3>1
  <2>4. ASSUME NEW k \in Logins,
               Handler(k) \/ RejectLogin(k) \/ LoseWrite(k) \/ ReadHeartbeat(k) \/ Logout(k)
               \/ Expire(k)
        PROVE age'[l] = age[l]
    BY <2>0, <2>4 DEF Handler, ReadCandidate, TurnAway, EnterGate, AnswerFailure,
       ProjectLogin, SendLogin, Abandon, Leave, RejectLogin, LoseWrite, ReadHeartbeat,
       Logout, Expire, Keep, table
  <2>5. CASE Administrator \/ Crash \/ UNCHANGED vars
    BY <2>0, <2>2, <2>5 DEF Administrator, ImportStudents, NewActivity, Keep, Crash, vars, table
  <2>6. CASE Tick
    BY <2>0, <2>6 DEF Tick
  <2> QED
    BY <2>1, <2>2, <2>3, <2>4, <2>5, <2>6 DEF Next, Thread, Page
<1> QED
  BY <1>1, Invariant, PTL DEF Spec, PresenceThrottled
=============================================================================
