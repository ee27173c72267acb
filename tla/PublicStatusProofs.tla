-------------------------- MODULE PublicStatusProofs --------------------------
(***************************************************************************)
(* Proofs about PublicStatus, for any number of requests and commits.      *)
(***************************************************************************)
EXTENDS PublicStatus, FiniteSetTheorems, TLAPS

-----------------------------------------------------------------------------
(* Types. *)

States  == {"new", "waiting", "answered", "failed", "cancelled"}
Arrived == {r \in Requests : state[r] # "new"}

\* What ended well has read; what runs is the refresh that requests join.
FlightInv ==
  \A f \in Flights :
    /\ flight[f] = "done" => snapshot[f] # NotRead
    /\ flight[f] = "running" => refresh = f

\* Requests only ever leave the state "new".
LEMMA ArrivedGrows ==
  ASSUME Arrived \in SUBSET Arrived', Arrived' \in SUBSET Requests
  PROVE  /\ Cardinality(Arrived) \in Nat /\ Cardinality(Arrived') \in Nat
         /\ Cardinality(Arrived) <= Cardinality(Arrived')
         /\ Cardinality(Arrived') <= Cardinality(Requests)
         /\ Cardinality(Requests) \in Nat
<1>1. IsFiniteSet(Requests)
  BY StatusAssumption
<1>2. IsFiniteSet(Arrived') /\ Cardinality(Arrived') <= Cardinality(Requests)
  BY <1>1, FS_Subset
<1>3. IsFiniteSet(Arrived) /\ Cardinality(Arrived) <= Cardinality(Arrived')
  BY <1>2, FS_Subset
<1> QED
  BY <1>1, <1>2, <1>3, FS_CardinalityType

LEMMA TypeInit == Init => TypeOK
<1> SUFFICES ASSUME Init PROVE TypeOK
  OBVIOUS
<1>1. commits = 0 /\ commits \in 0..MaxCommits
  BY StatusAssumption DEF Init
<1>2. launched = 0 /\ {r \in Requests : state[r] # "new"} = {}
  BY DEF Init
<1>3. launched \in 0..Cardinality({r \in Requests : state[r] # "new"})
  BY <1>2, FS_EmptySet
<1>4. /\ flight \in [Flights -> {"none", "running", "done", "failed"}]
      /\ snapshot \in [Flights -> {NotRead} \cup 0..commits]
      /\ state \in [Requests -> States]
  BY DEF Init, States
<1>5. /\ awaits \in [Requests -> 0..launched]
      /\ answer \in [Requests -> {NotRead} \cup 0..commits]
      /\ atLeast \in [Requests -> 0..commits]
  BY <1>1, <1>2 DEF Init, NoRefresh
<1>6. refresh \in 0..launched /\ cache = NoCache /\ valid = FALSE
  BY <1>2 DEF Init, NoRefresh
<1>7. \A r \in Requests : state[r] # "waiting"
  BY DEF Init
<1> QED
  BY <1>1, <1>3, <1>4, <1>5, <1>6, <1>7 DEF TypeOK, States

LEMMA TypeStep == TypeOK /\ FlightInv /\ [Next]_vars => TypeOK'
<1> SUFFICES ASSUME TypeOK, FlightInv, [Next]_vars PROVE TypeOK'
  OBVIOUS
<1> USE DEF TypeOK, NoCache, NotRead, NoRefresh
<1>0. /\ commits \in Nat
      /\ launched \in Nat /\ launched <= Cardinality(Arrived)
      /\ Cardinality(Arrived) \in Nat /\ Cardinality(Arrived) <= Cardinality(Requests)
      /\ Cardinality(Requests) \in Nat
  <2>1. Arrived \in SUBSET Requests /\ IsFiniteSet(Requests)
    BY StatusAssumption DEF Arrived
  <2>2. IsFiniteSet(Arrived) /\ Cardinality(Arrived) <= Cardinality(Requests)
    BY <2>1, FS_Subset
  <2>3. Cardinality(Arrived) \in Nat /\ Cardinality(Requests) \in Nat
    BY <2>1, <2>2, FS_CardinalityType
  <2> QED
    BY <2>2, <2>3, StatusAssumption DEF Arrived
\* The launch counter stays below the number of requests that arrived.
<1>1. ASSUME launched' = launched, \A r \in Requests : state[r] # "new" => state'[r] # "new"
      PROVE launched' \in 0..Cardinality({r \in Requests : state'[r] # "new"})
  <2>1. Arrived \in SUBSET Arrived' /\ Arrived' \in SUBSET Requests
    BY <1>1 DEF Arrived
  <2>2. Cardinality(Arrived) <= Cardinality(Arrived') /\ Cardinality(Arrived') \in Nat
    BY <2>1, ArrivedGrows
  <2>3. launched' \in 0..Cardinality(Arrived')
    BY <1>0, <1>1, <2>2
  <2> QED
    BY <2>3 DEF Arrived
<1>2. ASSUME NEW r \in Requests, AnswerFromCache(r) PROVE TypeOK'
  <2>1. launched' \in 0..Cardinality({q \in Requests : state'[q] # "new"})
    BY <1>1, <1>2 DEF AnswerFromCache, thread
  <2> QED
    BY <1>2, <2>1 DEF AnswerFromCache, shared, thread
<1>3. ASSUME NEW r \in Requests, StartRefresh(r) PROVE TypeOK'
  <2>1. /\ state[r] = "new" /\ state' = [state EXCEPT ![r] = "waiting"]
        /\ launched' = launched + 1
    BY <1>3 DEF StartRefresh, Launch, Arrive
  <2>2. Arrived' = Arrived \cup {r} /\ r \notin Arrived
    BY <2>1 DEF Arrived
  <2>3. Cardinality(Arrived') = Cardinality(Arrived) + 1
    <3>1. IsFiniteSet(Arrived)
      BY FS_Subset, StatusAssumption DEF Arrived
    <3> QED
      BY <2>2, <3>1, FS_AddElement
  <2>4. launched' \in 0..Cardinality({q \in Requests : state'[q] # "new"})
    BY <1>0, <2>1, <2>3 DEF Arrived
  <2>5. atLeast' \in [Requests -> 0..commits']
    BY <1>0, <1>3 DEF StartRefresh, Launch, Arrive
  <2>6. awaits' \in [Requests -> 0..launched']
    BY <1>0, <1>3 DEF StartRefresh, Launch
  <2>7. launched' \in Flights
    BY <1>0, <2>1, <2>2, <2>3, ArrivedGrows DEF Flights, Arrived
  <2>8. /\ flight' \in [Flights -> {"none", "running", "done", "failed"}]
        /\ state' \in [Requests -> States]
        /\ refresh' \in 0..launched'
    BY <1>0, <1>3, <2>1, <2>7 DEF StartRefresh, Launch, States
  <2>9. \A q \in Requests : state'[q] = "waiting" => awaits'[q] # NoRefresh
    BY <1>0, <1>3, <2>1 DEF StartRefresh, Launch
  <2>10. UNCHANGED <<commits, cache, valid, snapshot, answer>>
    BY <1>3 DEF StartRefresh, Launch, Arrive
  <2> QED
    BY <2>4, <2>5, <2>6, <2>8, <2>9, <2>10 DEF States
<1>4. ASSUME NEW r \in Requests, JoinRefresh(r) PROVE TypeOK'
  <2>1. launched' \in 0..Cardinality({q \in Requests : state'[q] # "new"})
    BY <1>1, <1>4 DEF JoinRefresh, Arrive
  <2>2. atLeast' \in [Requests -> 0..commits']
    BY <1>0, <1>4 DEF JoinRefresh, Arrive
  <2> QED
    BY <1>4, <2>1, <2>2 DEF JoinRefresh, Arrive
<1>5. ASSUME NEW r \in Requests, Loop(r) \/ Cancel(r) PROVE TypeOK'
  <2>1. state'[r] # "new" /\ launched' = launched /\ \A q \in Requests \ {r} : state'[q] = state[q]
    BY <1>5 DEF Loop, Resume, ResumeFailed, Cancel, thread
  <2>2. launched' \in 0..Cardinality({q \in Requests : state'[q] # "new"})
    BY <1>1, <2>1
  <2>3. CASE Resume(r)
    <3>1. awaits[r] \in Flights /\ snapshot[awaits[r]] \in {NotRead} \cup 0..commits
      BY <1>0, <2>3 DEF Resume, Flights
    <3>2. snapshot[awaits[r]] # NotRead
      BY <2>3, <3>1 DEF Resume, FlightInv
    <3>3. /\ cache' \in {NoCache} \cup 0..commits
          /\ valid' \in BOOLEAN /\ (valid' => cache' # NoCache)
          /\ refresh' \in 0..launched
      <4>1. CASE refresh = awaits[r]
        <5>1. cache' = snapshot[awaits[r]] /\ valid' = TRUE /\ refresh' = 0
          BY <2>3, <4>1 DEF Resume, Publish
        <5> QED
          BY <1>0, <3>1, <3>2, <5>1
      <4>2. CASE refresh # awaits[r]
        <5>1. UNCHANGED <<cache, valid, refresh>>
          BY <2>3, <4>2 DEF Resume, Publish, shared
        <5> QED
          BY <5>1
      <4> QED
        BY <4>1, <4>2
    <3>4. answer' \in [Requests -> {NotRead} \cup 0..commits]
      BY <2>3, <3>1, <3>3 DEF Resume
    <3> QED
      BY <2>2, <2>3, <3>3, <3>4 DEF Resume, thread
  <2>4. CASE ResumeFailed(r) \/ Cancel(r)
    BY <2>2, <2>4 DEF ResumeFailed, Cancel, Withdraw, thread
  <2> QED
    BY <1>5, <2>3, <2>4 DEF Loop
<1>6. ASSUME NEW f \in Flights, Executor(f) PROVE TypeOK'
  <2>1. launched' \in 0..Cardinality({q \in Requests : state'[q] # "new"})
    BY <1>1, <1>6 DEF Executor, Read, Complete, Fail, requests
  <2> QED
    BY <1>0, <1>6, <2>1 DEF Executor, Read, Complete, Fail, shared, requests
<1>7. CASE Commit
  <2>1. commits' = commits + 1 /\ commits' \in 0..MaxCommits
    BY <1>0, <1>7, StatusAssumption DEF Commit
  <2>2. 0..commits \subseteq 0..commits'
    BY <1>0, <2>1
  <2> QED
    BY <1>7, <2>1, <2>2 DEF Commit, shared, thread, requests
<1>8. CASE Expire
  BY <1>8 DEF Expire, thread, requests
<1>10. CASE Shutdown
  <2>1. flight' \in [Flights -> {"none", "running", "done", "failed"}]
    BY <1>10 DEF Shutdown
  <2>2. /\ cache' = NoCache /\ valid' = FALSE /\ refresh' \in 0..launched
        /\ UNCHANGED <<commits, launched, snapshot, requests>>
    BY <1>0, <1>10 DEF Shutdown
  <2> QED
    BY <2>1, <2>2 DEF requests
<1>9. CASE UNCHANGED vars
  BY <1>9 DEF vars, shared, thread, requests
<1> QED
  BY <1>2, <1>3, <1>4, <1>5, <1>6, <1>7, <1>8, <1>9, <1>10 DEF Next

LEMMA FlightInit == Init => FlightInv
  BY DEF Init, FlightInv

LEMMA FlightStep == TypeOK /\ FlightInv /\ [Next]_vars => FlightInv'
<1> SUFFICES ASSUME TypeOK, FlightInv, [Next]_vars PROVE FlightInv'
  OBVIOUS
<1> USE DEF FlightInv
<1>0. /\ flight \in [Flights -> {"none", "running", "done", "failed"}]
      /\ snapshot \in [Flights -> {NotRead} \cup 0..commits]
      /\ \A f \in Flights : f # NoRefresh
      /\ commits \in Nat
  BY StatusAssumption DEF TypeOK, Flights, NoRefresh
<1>1. ASSUME NEW r \in Requests, AnswerFromCache(r) \/ JoinRefresh(r) PROVE FlightInv'
  BY <1>1 DEF AnswerFromCache, JoinRefresh, Arrive, shared, thread
<1>2. ASSUME NEW r \in Requests, StartRefresh(r) PROVE FlightInv'
  <2>1. /\ refresh' = launched' /\ flight' = [flight EXCEPT ![launched'] = "running"]
        /\ snapshot' = snapshot
        /\ \A f \in Flights : flight[f] # "running"
    BY <1>0, <1>2 DEF StartRefresh, Launch, Arrive
  <2> QED
    BY <1>0, <2>1
<1>3. ASSUME NEW r \in Requests, Resume(r) PROVE FlightInv'
  BY <1>0, <1>3 DEF Resume, Publish, shared, thread
<1>4. ASSUME NEW r \in Requests, ResumeFailed(r) \/ Cancel(r) PROVE FlightInv'
  BY <1>0, <1>4 DEF ResumeFailed, Cancel, Withdraw, thread
<1>5. ASSUME NEW f \in Flights, Read(f) PROVE FlightInv'
  BY <1>0, <1>5 DEF Read, shared, NotRead
<1>6. ASSUME NEW f \in Flights, Complete(f) \/ Fail(f) PROVE FlightInv'
  BY <1>0, <1>6 DEF Complete, Fail, shared
<1>7. CASE Commit \/ Expire
  BY <1>7 DEF Commit, Expire, shared, thread
<1>8. CASE Shutdown
  BY <1>0, <1>8 DEF Shutdown
<1>9. CASE UNCHANGED vars
  BY <1>9 DEF vars, shared, thread
<1> QED
  BY <1>1, <1>2, <1>3, <1>4, <1>5, <1>6, <1>7, <1>8, <1>9 DEF Next, Executor, Loop

\* Types hold, and a waiting request has a projection to wait for.
THEOREM TypeCorrect == Spec => []TypeOK
  BY TypeInit, TypeStep, FlightInit, FlightStep, PTL DEF Spec

\* At most one projection runs at a time, whichever waiters are cancelled and
\* whichever projections fail.
THEOREM SingleFlightTheorem == Spec => []SingleFlight
<1>1. FlightInv => SingleFlight
  BY DEF FlightInv, SingleFlight
<1> QED
  BY <1>1, TypeInit, TypeStep, FlightInit, FlightStep, PTL DEF Spec

-----------------------------------------------------------------------------
(* Answers. *)

Answered(r) == state[r] = "answered"
HasRead(f)  == snapshot[f] # NotRead

\* Projections are submitted one after the other, so they read in that order.
ReadInv ==
  /\ refresh \in {NoRefresh, launched}
  /\ \A f \in Flights : f > launched => snapshot[f] = NotRead /\ flight[f] = "none"
  /\ \A f, g \in Flights : f < g /\ HasRead(f) /\ HasRead(g) => snapshot[f] <= snapshot[g]

\* Nothing that was answered is newer than what will be answered next: the
\* cache, the refresh, or with an empty cache the snapshot of who waits.
AnswersInv ==
  \A o \in Requests : Answered(o) =>
    /\ cache # NoCache => answer[o] <= cache
    /\ refresh # NoRefresh /\ HasRead(refresh) => answer[o] <= snapshot[refresh]
    /\ \A r \in Requests :
         state[r] = "waiting" /\ HasRead(awaits[r]) /\ cache = NoCache
           => answer[o] <= snapshot[awaits[r]]

\* The refresh is at least as new as the cache it will replace.
CacheInv == refresh # NoRefresh /\ HasRead(refresh) => cache <= snapshot[refresh]

MonotoneInv == TypeOK /\ FlightInv /\ ReadInv /\ CacheInv /\ AnswersInv

\* What the types say of projections and their snapshots.
LEMMA Submitted ==
  ASSUME TypeOK
  PROVE  /\ commits \in Nat /\ launched \in Nat
         /\ \A f \in 1 .. launched : f \in Flights
         /\ \A r \in Requests : state[r] = "waiting" => awaits[r] \in 1 .. launched
         /\ \A f \in Flights : HasRead(f) => snapshot[f] \in 0 .. commits
<1>1. Cardinality(Requests) \in Nat /\ launched <= Cardinality(Requests)
  <2>1. {r \in Requests : state[r] # "new"} \subseteq Requests /\ IsFiniteSet(Requests)
    BY StatusAssumption
  <2>2. Cardinality({r \in Requests : state[r] # "new"}) <= Cardinality(Requests)
    BY <2>1, FS_Subset
  <2>3. /\ Cardinality({r \in Requests : state[r] # "new"}) \in Nat
        /\ Cardinality(Requests) \in Nat
    BY <2>1, FS_Subset, FS_CardinalityType
  <2> QED
    BY <2>2, <2>3 DEF TypeOK
<1>2. commits \in Nat /\ launched \in Nat
  BY StatusAssumption, <1>1 DEF TypeOK
<1>3. \A f \in 1 .. launched : f \in Flights
  BY <1>1, <1>2 DEF Flights
<1>4. \A r \in Requests : state[r] = "waiting" => awaits[r] \in 1 .. launched
  BY <1>2 DEF TypeOK, NoRefresh
<1>5. \A f \in Flights : HasRead(f) => snapshot[f] \in 0 .. commits
  <2> SUFFICES ASSUME NEW f \in Flights, HasRead(f) PROVE snapshot[f] \in 0 .. commits
    OBVIOUS
  <2>1. snapshot[f] \in {NotRead} \cup 0 .. commits
    BY DEF TypeOK
  <2> QED
    BY <2>1 DEF HasRead
<1> QED
  BY <1>2, <1>3, <1>4, <1>5

\* There is a number for every projection.
LEMMA LaunchIsNext ==
  ASSUME TypeOK, FlightInv, NEW r \in Requests, StartRefresh(r)
  PROVE  launched' \in Flights
<1>1. launched \in Nat /\ launched' = launched + 1
  BY Submitted DEF StartRefresh, Launch
<1>2. Arrived' \subseteq Requests /\ IsFiniteSet(Requests)
  BY StatusAssumption DEF Arrived
<1>3. Cardinality(Arrived') <= Cardinality(Requests)
  BY <1>2, FS_Subset
<1>4. Cardinality(Arrived') \in Nat /\ Cardinality(Requests) \in Nat
  BY <1>2, FS_Subset, FS_CardinalityType
<1>5. launched' <= Cardinality(Arrived')
  BY <1>1, TypeStep DEF Next, TypeOK, Arrived
<1> QED
  BY <1>1, <1>3, <1>4, <1>5 DEF Flights

\* A projection that runs is the last one submitted.
LEMMA ReadStep ==
  TypeOK /\ FlightInv /\ ReadInv /\ [Next]_vars => ReadInv'
<1> SUFFICES ASSUME TypeOK, FlightInv, ReadInv, [Next]_vars PROVE ReadInv'
  OBVIOUS
<1> USE DEF ReadInv, HasRead
<1>0. /\ commits \in Nat /\ launched \in Nat
      /\ \A f \in Flights : HasRead(f) => snapshot[f] \in 0 .. commits
      /\ flight \in [Flights -> {"none", "running", "done", "failed"}]
      /\ snapshot \in [Flights -> {NotRead} \cup 0..commits]
      /\ Flights \subseteq Nat \ {0} /\ NoRefresh = 0 /\ NotRead = -1
  BY Submitted DEF TypeOK, Flights, NoRefresh, NotRead
<1>1. ASSUME NEW r \in Requests, StartRefresh(r) PROVE ReadInv'
  <2>1. /\ refresh' = launched' /\ launched' = launched + 1 /\ snapshot' = snapshot
        /\ flight' = [flight EXCEPT ![launched'] = "running"]
    BY <1>1 DEF StartRefresh, Launch, Arrive
  <2> QED
    BY <1>0, <2>1
<1>2. ASSUME NEW f \in Flights, Read(f) PROVE ReadInv'
  <2>1. /\ f = launched /\ snapshot' = [snapshot EXCEPT ![f] = commits]
        /\ UNCHANGED <<refresh, launched, flight>>
    BY <1>0, <1>2 DEF Read, FlightInv, shared
  <2>2. snapshot'[f] = commits /\ \A g \in Flights \ {f} : snapshot'[g] = snapshot[g]
    BY <1>0, <2>1
  <2>3. \A g \in Flights : g > f => snapshot'[g] = NotRead /\ flight'[g] = "none"
    BY <1>0, <2>1, <2>2
  <2>4. ASSUME NEW g \in Flights, NEW h \in Flights,
               g < h, snapshot'[g] # NotRead, snapshot'[h] # NotRead
        PROVE  snapshot'[g] <= snapshot'[h]
    <3>1. g # f \/ h # f
      BY <1>0, <2>4
    <3>2. CASE h = f
      BY <1>0, <2>2, <2>4, <3>2
    <3>3. CASE h # f /\ g = f
      BY <1>0, <2>3, <2>4, <3>3
    <3>4. CASE h # f /\ g # f
      BY <1>0, <2>2, <2>4, <3>4
    <3> QED
      BY <3>2, <3>3, <3>4
  <2> QED
    BY <2>1, <2>3, <2>4
<1>3. ASSUME NEW f \in Flights, Complete(f) \/ Fail(f) PROVE ReadInv'
  BY <1>0, <1>3 DEF Complete, Fail, shared
<1>4. ASSUME NEW r \in Requests, Loop(r) \/ Cancel(r) PROVE ReadInv'
  BY <1>4 DEF Loop, Resume, ResumeFailed, Cancel, Publish, Withdraw, shared, thread
<1>5. ASSUME NEW r \in Requests, AnswerFromCache(r) \/ JoinRefresh(r) PROVE ReadInv'
  BY <1>5 DEF AnswerFromCache, JoinRefresh, Arrive, shared, thread
<1>6. CASE Commit \/ Expire \/ UNCHANGED vars
  BY <1>6 DEF Commit, Expire, vars, shared, thread
<1>7. CASE Shutdown
  BY <1>0, <1>7 DEF Shutdown
<1> QED
  BY <1>1, <1>2, <1>3, <1>4, <1>5, <1>6, <1>7 DEF Next, Executor

\* The waiters of earlier projections were resumed before.
LEMMA InOrder ==
  ASSUME TypeOK, FlightInv, ReadInv, NEW r \in Requests, Resume(r),
         NEW q \in Requests, state[q] = "waiting"
  PROVE  awaits[q] >= awaits[r]
<1>1. /\ awaits[r] \in 1 .. launched /\ awaits[q] \in 1 .. launched
      /\ awaits[q] \in Flights /\ launched \in Nat
  BY Submitted DEF Resume
<1>2. SUFFICES ASSUME awaits[q] < awaits[r] PROVE FALSE
  BY <1>1
<1>3. flight[awaits[q]] = "running"
  BY <1>2 DEF Resume, Foremost
<1>4. awaits[q] = launched
  BY <1>1, <1>3 DEF FlightInv, ReadInv, NoRefresh
<1> QED
  BY <1>1, <1>2, <1>4

\* What a resumed waiter is told, and what that leaves behind.
LEMMA Told ==
  ASSUME MonotoneInv, NEW r \in Requests, Resume(r)
  PROVE  /\ \A o \in Requests : Answered(o) => answer[o] <= answer'[r]
         /\ cache' # NoCache => answer'[r] = cache' /\ cache <= cache'
         /\ cache' = NoCache => cache = NoCache /\ answer'[r] = snapshot[awaits[r]]
         /\ HasRead(awaits[r]) /\ answer' = [answer EXCEPT ![r] = answer'[r]]
         /\ \/ refresh = awaits[r] /\ cache' = snapshot[awaits[r]] /\ refresh' = NoRefresh
            \/ refresh # awaits[r] /\ UNCHANGED <<cache, refresh>>
<1> USE DEF MonotoneInv
<1>1. /\ awaits[r] \in Flights /\ awaits[r] # NoRefresh /\ HasRead(awaits[r])
      /\ snapshot[awaits[r]] \in 0 .. commits
      /\ commits \in Nat
  BY Submitted DEF Resume, FlightInv, HasRead, Flights, NoRefresh
<1>2. answer'[r] = IF cache' = NoCache THEN snapshot[awaits[r]] ELSE cache'
  BY DEF Resume, TypeOK
<1>3. answer' = [answer EXCEPT ![r] = answer'[r]]
  BY <1>2 DEF Resume
<1>4. CASE refresh = awaits[r]
  <2>1. cache' = snapshot[awaits[r]] /\ refresh' = NoRefresh /\ cache' # NoCache
    BY <1>1, <1>4 DEF Resume, Publish, NoCache
  <2>2. cache <= cache'
    BY <1>1, <1>4, <2>1 DEF CacheInv
  <2>3. \A o \in Requests : Answered(o) => answer[o] <= cache'
    BY <1>1, <1>4, <2>1 DEF AnswersInv
  <2> QED
    BY <1>1, <1>2, <1>3, <1>4, <2>1, <2>2, <2>3
<1>5. CASE refresh # awaits[r]
  <2>1. UNCHANGED <<cache, refresh>>
    BY <1>5 DEF Resume, Publish, shared
  <2>2. cache <= cache'
    BY <1>1, <2>1 DEF TypeOK, NoCache
  <2>3. \A o \in Requests : Answered(o) => answer[o] <= answer'[r]
    BY <1>1, <1>2, <2>1 DEF AnswersInv, Resume
  <2> QED
    BY <1>1, <1>2, <1>3, <1>5, <2>1, <2>2, <2>3
<1> QED
  BY <1>4, <1>5

LEMMA MonotoneStep == MonotoneInv /\ [Next]_vars => (CacheInv /\ AnswersInv)'
<1> SUFFICES ASSUME MonotoneInv, [Next]_vars PROVE (CacheInv /\ AnswersInv)'
  OBVIOUS
<1> USE DEF CacheInv, AnswersInv, Answered, HasRead
<1>0. /\ commits \in Nat /\ launched \in Nat
      /\ \A f \in 1 .. launched : f \in Flights
      /\ \A q \in Requests : state[q] = "waiting" => awaits[q] \in 1 .. launched
      /\ \A f \in Flights : HasRead(f) => snapshot[f] \in 0 .. commits
      /\ refresh # NoRefresh => refresh \in Flights /\ refresh = launched
      /\ CacheInv /\ AnswersInv /\ FlightInv /\ ReadInv /\ TypeOK
  BY Submitted DEF MonotoneInv, ReadInv, TypeOK, NoRefresh
<1>1. ASSUME NEW r \in Requests, AnswerFromCache(r) PROVE (CacheInv /\ AnswersInv)'
  <2>1. /\ valid /\ cache # NoCache
        /\ answer' = [answer EXCEPT ![r] = cache]
        /\ state' = [state EXCEPT ![r] = "answered"]
        /\ UNCHANGED <<cache, refresh, snapshot, awaits>>
    BY <1>0, <1>1 DEF AnswerFromCache, TypeOK, shared, thread
  <2>2. cache \in 0 .. commits
    BY <1>0, <2>1 DEF TypeOK
  <2>3. \A o \in Requests \ {r} : answer'[o] = answer[o] /\ state'[o] = state[o]
    BY <1>0, <2>1 DEF TypeOK
  <2>4. answer'[r] = cache /\ state'[r] = "answered"
    BY <1>0, <2>1 DEF TypeOK
  <2> QED
    BY <1>0, <2>1, <2>2, <2>3, <2>4
<1>2. ASSUME NEW r \in Requests, StartRefresh(r) PROVE (CacheInv /\ AnswersInv)'
  <2>1. /\ launched' = launched + 1 /\ refresh' = launched' /\ refresh = NoRefresh
        /\ state[r] = "new" /\ state' = [state EXCEPT ![r] = "waiting"]
        /\ awaits' = [awaits EXCEPT ![r] = launched']
        /\ UNCHANGED <<cache, snapshot, answer>>
    BY <1>2 DEF StartRefresh, Launch, Arrive
  <2>2. launched' \in Flights
    BY <1>0, <1>2, LaunchIsNext
  <2>3. ~HasRead(launched')
    BY <1>0, <2>1, <2>2 DEF ReadInv
  <2>4. /\ state'[r] = "waiting" /\ awaits'[r] = launched'
        /\ \A q \in Requests \ {r} : state'[q] = state[q] /\ awaits'[q] = awaits[q]
    BY <1>0, <2>1 DEF TypeOK
  <2> QED
    BY <1>0, <2>1, <2>3, <2>4
<1>3. ASSUME NEW r \in Requests, JoinRefresh(r) PROVE (CacheInv /\ AnswersInv)'
  <2>1. /\ refresh # NoRefresh
        /\ state' = [state EXCEPT ![r] = "waiting"]
        /\ awaits' = [awaits EXCEPT ![r] = refresh]
        /\ UNCHANGED <<cache, refresh, snapshot, answer>>
    BY <1>3 DEF JoinRefresh, Arrive
  <2>2. /\ state'[r] = "waiting" /\ awaits'[r] = refresh
        /\ \A q \in Requests \ {r} : state'[q] = state[q] /\ awaits'[q] = awaits[q]
    BY <1>0, <2>1 DEF TypeOK
  <2> QED
    BY <1>0, <2>1, <2>2
<1>4. ASSUME NEW r \in Requests, Resume(r) PROVE (CacheInv /\ AnswersInv)'
  <2>1. /\ state[r] = "waiting" /\ state'[r] = "answered"
        /\ \A q \in Requests \ {r} : state'[q] = state[q]
        /\ UNCHANGED <<snapshot, awaits, launched>>
    BY <1>0, <1>4 DEF Resume, TypeOK, thread
  <2>2. /\ \A o \in Requests : Answered(o) => answer[o] <= answer'[r]
        /\ cache' # NoCache => answer'[r] = cache' /\ cache <= cache'
        /\ cache' = NoCache => cache = NoCache /\ answer'[r] = snapshot[awaits[r]]
        /\ HasRead(awaits[r])
        /\ \/ refresh = awaits[r] /\ cache' = snapshot[awaits[r]] /\ refresh' = NoRefresh
           \/ UNCHANGED <<cache, refresh>>
    BY <1>4, Told DEF MonotoneInv
  <2>3. \A q \in Requests \ {r} : answer'[q] = answer[q]
    BY <1>0, <1>4, Told DEF MonotoneInv, TypeOK
  <2>4. \A q \in Requests : state[q] = "waiting" => awaits[q] >= awaits[r]
    BY <1>0, <1>4, InOrder
  <2>5. \A q \in Requests : state[q] = "waiting" /\ HasRead(awaits[q])
          => snapshot[awaits[r]] <= snapshot[awaits[q]]
    BY <1>0, <2>1, <2>2, <2>4 DEF ReadInv
  <2>6. refresh # NoRefresh /\ HasRead(refresh) => snapshot[awaits[r]] <= snapshot[refresh]
    BY <1>0, <2>1, <2>2 DEF ReadInv
  <2>7. (cache' # NoCache => cache' \in 0 .. commits) /\ cache \in {NoCache} \cup 0 .. commits
    BY <1>0, <2>1, <2>2 DEF TypeOK
  <2>8. answer \in [Requests -> {NotRead} \cup 0 .. commits] /\ NotRead = -1 /\ NoCache = -1
    BY <1>0 DEF TypeOK, NotRead, NoCache
  <2>9. CacheInv'
    BY <1>0, <2>1, <2>2
  <2>10. ASSUME NEW o \in Requests, state'[o] = "answered"
         PROVE  /\ cache' # NoCache => answer'[o] <= cache'
                /\ refresh' # NoRefresh /\ HasRead(refresh)' => answer'[o] <= snapshot'[refresh']
    <3>1. CASE o = r
      <4>1. cache' # NoCache => answer'[r] <= cache'
        BY <2>2, <2>7, <2>8
      <4>2. ASSUME refresh' # NoRefresh, HasRead(refresh)'
            PROVE  answer'[r] <= snapshot'[refresh']
        BY <1>0, <2>1, <2>2, <2>6, <2>7, <4>2
      <4> QED
        BY <3>1, <4>1, <4>2
    <3>2. CASE o # r
      <4>1. Answered(o) /\ answer'[o] = answer[o] /\ answer[o] <= answer'[r]
        BY <2>1, <2>2, <2>3, <2>10, <3>2
      <4>2. cache' # NoCache => answer'[o] <= cache'
        BY <2>2, <4>1
      <4>3. ASSUME refresh' # NoRefresh, HasRead(refresh)'
            PROVE  answer'[o] <= snapshot'[refresh']
        BY <1>0, <2>1, <2>2, <4>1, <4>3
      <4> QED
        BY <4>2, <4>3
    <3> QED
      BY <3>1, <3>2
  <2>11. ASSUME NEW o \in Requests, state'[o] = "answered", cache' = NoCache,
                NEW q \in Requests, state'[q] = "waiting", HasRead(awaits[q])'
         PROVE  answer'[o] <= snapshot'[awaits'[q]]
    <3>1. q # r /\ state[q] = "waiting" /\ HasRead(awaits[q]) /\ cache = NoCache
      BY <2>1, <2>2, <2>11
    <3>2. CASE o = r
      BY <2>1, <2>2, <2>5, <2>11, <3>1, <3>2
    <3>3. CASE o # r
      BY <1>0, <2>1, <2>3, <2>11, <3>1, <3>3
    <3> QED
      BY <3>2, <3>3
  <2> QED
    BY <2>9, <2>10, <2>11
<1>5. ASSUME NEW r \in Requests, ResumeFailed(r) \/ Cancel(r) PROVE (CacheInv /\ AnswersInv)'
  <2>1. /\ state'[r] \in {"failed", "cancelled"}
        /\ \A q \in Requests \ {r} : state'[q] = state[q]
        /\ refresh' \in {NoRefresh, refresh}
        /\ UNCHANGED <<cache, snapshot, awaits, answer>>
    BY <1>0, <1>5 DEF ResumeFailed, Cancel, Withdraw, TypeOK, thread
  <2> QED
    BY <1>0, <2>1
<1>6. ASSUME NEW f \in Flights, Read(f) PROVE (CacheInv /\ AnswersInv)'
  <2>1. /\ snapshot' = [snapshot EXCEPT ![f] = commits]
        /\ UNCHANGED <<cache, refresh, state, awaits, answer>>
    BY <1>6 DEF Read, shared, requests
  <2>2. snapshot'[f] = commits /\ \A g \in Flights \ {f} : snapshot'[g] = snapshot[g]
    BY <1>0, <2>1 DEF TypeOK
  <2>3. cache <= commits /\ \A o \in Requests : answer[o] <= commits
    BY <1>0 DEF TypeOK, NoCache, NotRead
  <2>4. \A g \in Flights : snapshot'[g] = commits \/ snapshot'[g] = snapshot[g]
    BY <2>2
  <2>5. CacheInv'
    BY <1>0, <2>1, <2>3, <2>4
  <2>6. AnswersInv'
    BY <1>0, <2>1, <2>3, <2>4
  <2> QED
    BY <2>5, <2>6
<1>7. ASSUME NEW f \in Flights, Complete(f) \/ Fail(f) PROVE (CacheInv /\ AnswersInv)'
  BY <1>0, <1>7 DEF Complete, Fail, shared, requests
<1>8. CASE Commit \/ Expire \/ UNCHANGED vars
  BY <1>0, <1>8 DEF Commit, Expire, vars, shared, thread, requests
<1>9. CASE Shutdown
  BY <1>0, <1>9 DEF Shutdown, requests
<1> QED
  BY <1>1, <1>2, <1>3, <1>4, <1>5, <1>6, <1>7, <1>8, <1>9 DEF Next, Executor, Loop

LEMMA MonotoneInvariant == Spec => []MonotoneInv
<1>1. Init => MonotoneInv
  <2> SUFFICES ASSUME Init PROVE MonotoneInv
    OBVIOUS
  <2>1. TypeOK /\ FlightInv
    BY TypeInit, FlightInit
  <2>2. ReadInv /\ CacheInv /\ AnswersInv
    BY DEF Init, ReadInv, CacheInv, AnswersInv, Answered, HasRead, NoRefresh
  <2> QED
    BY <2>1, <2>2 DEF MonotoneInv
<1>2. MonotoneInv /\ [Next]_vars => MonotoneInv'
  BY TypeStep, FlightStep, ReadStep, MonotoneStep DEF MonotoneInv
<1> QED
  BY <1>1, <1>2, PTL DEF Spec

\* The phase never runs backwards: no answer is older than one given before.
THEOREM MonotonicTheorem == Spec => MonotonicAnswers
<1>1. MonotoneInv /\ [Next]_vars =>
        [\A r, o \in Requests :
           state'[r] = "answered" /\ state[r] # "answered" /\ state[o] = "answered"
             => answer'[r] >= answer[o]]_vars
  <2> SUFFICES ASSUME MonotoneInv, Next, NEW r \in Requests, NEW o \in Requests,
                      state'[r] = "answered", state[r] # "answered", state[o] = "answered"
               PROVE  answer'[r] >= answer[o]
    OBVIOUS
  <2>0. /\ answer \in [Requests -> {NotRead} \cup 0 .. commits]
        /\ state \in [Requests -> States] /\ commits \in Nat
    BY Submitted DEF MonotoneInv, TypeOK, States
  <2>1. CASE AnswerFromCache(r)
    <3>1. answer'[r] = cache /\ cache # NoCache /\ cache \in 0 .. commits
      BY <2>0, <2>1 DEF AnswerFromCache, MonotoneInv, TypeOK
    <3> QED
      BY <2>0, <3>1 DEF MonotoneInv, AnswersInv, Answered, NotRead
  <2>2. CASE Resume(r)
    <3>1. answer[o] <= answer'[r]
      BY <2>2, Told DEF Answered
    <3> QED
      BY <3>1
  <2>3. AnswerFromCache(r) \/ Resume(r)
    BY <2>0 DEF Next, AnswerFromCache, StartRefresh, JoinRefresh, Launch, Arrive, Loop, Resume,
                ResumeFailed, Cancel, Executor, Read, Complete, Fail, Commit, Expire, Shutdown,
                requests
  <2> QED
    BY <2>1, <2>2, <2>3
<1> QED
  BY <1>1, MonotoneInvariant, PTL DEF Spec, MonotonicAnswers

-----------------------------------------------------------------------------
(* Stale answers. *)

\* A waiter of r's projection was cancelled.
LeftBehind(r) == \E o \in Requests : state[o] = "cancelled" /\ awaits[o] = awaits[r]

\* Who waits will see its due, in the projection it joined or, once that is no
\* longer the refresh, in the cache; unless it joined one that was left behind.
DueInv ==
  /\ \A r \in Requests : state[r] = "new" => awaits[r] = NoRefresh
  /\ refresh # NoRefresh =>
       \E o \in Requests : state[o] \in {"waiting", "cancelled"} /\ awaits[o] = refresh
  /\ \A r \in Requests : state[r] = "waiting" =>
       /\ HasRead(awaits[r]) => snapshot[awaits[r]] >= atLeast[r] \/ LeftBehind(r)
       /\ awaits[r] # refresh /\ flight[awaits[r]] # "failed"
            => cache >= atLeast[r] \/ LeftBehind(r)

\* The answer of a waiter is its due.
LEMMA ToldItsDue ==
  ASSUME MonotoneInv, DueInv, NEW r \in Requests, Resume(r)
  PROVE  answer'[r] >= atLeast[r] \/ LeftBehind(r)
<1>1. /\ answer'[r] = IF cache' = NoCache THEN snapshot[awaits[r]] ELSE cache'
      /\ state[r] = "waiting" /\ flight[awaits[r]] = "done" /\ HasRead(awaits[r])
  BY Told DEF MonotoneInv, Resume, TypeOK
<1>2. snapshot[awaits[r]] >= atLeast[r] \/ LeftBehind(r)
  BY <1>1 DEF DueInv
<1>3. CASE refresh = awaits[r]
  <2>1. cache' = snapshot[awaits[r]]
    BY <1>3 DEF Resume, Publish
  <2> QED
    BY <1>1, <1>2, <2>1
<1>4. CASE refresh # awaits[r]
  <2>1. cache' = cache
    BY <1>4 DEF Resume, Publish, shared
  <2>2. cache >= atLeast[r] \/ LeftBehind(r)
    BY <1>1, <1>4 DEF DueInv
  <2> QED
    BY <1>1, <1>2, <2>1, <2>2
<1> QED
  BY <1>3, <1>4

LEMMA DueStep ==
  MonotoneInv /\ DueInv /\ StaleOnlyAfterCancel /\ [Next]_vars
    => (DueInv /\ StaleOnlyAfterCancel)'
<1> SUFFICES ASSUME MonotoneInv, DueInv, StaleOnlyAfterCancel, [Next]_vars
             PROVE  (DueInv /\ StaleOnlyAfterCancel)'
  OBVIOUS
<1> USE DEF DueInv, StaleOnlyAfterCancel, HasRead, LeftBehind
<1>0. /\ commits \in Nat /\ launched \in Nat
      /\ \A f \in 1 .. launched : f \in Flights
      /\ \A q \in Requests : state[q] = "waiting" => awaits[q] \in 1 .. launched
      /\ \A f \in Flights : HasRead(f) => snapshot[f] \in 0 .. commits
      /\ cache \in {NoCache} \cup 0 .. commits /\ NoCache = -1 /\ NotRead = -1
      /\ atLeast \in [Requests -> 0 .. commits]
      /\ answer \in [Requests -> {NotRead} \cup 0 .. commits]
      /\ state \in [Requests -> States]
      /\ awaits \in [Requests -> 0 .. launched]
      /\ snapshot \in [Flights -> {NotRead} \cup 0 .. commits]
      /\ flight \in [Flights -> {"none", "running", "done", "failed"}]
      /\ refresh # NoRefresh => refresh \in Flights /\ refresh = launched
      /\ \A f \in Flights : f > launched => snapshot[f] = NotRead
  BY Submitted DEF MonotoneInv, ReadInv, TypeOK, NoRefresh, NoCache, NotRead, States
\* What was answered keeps its excuse.
<1>1. ASSUME NEW r \in Requests,
             \A q \in Requests \ {r} : state'[q] = state[q] /\ awaits'[q] = awaits[q],
             state[r] \in {"new", "waiting"}, state'[r] # "answered",
             answer' = answer, \A q \in Requests \ {r} : atLeast'[q] = atLeast[q]
      PROVE  StaleOnlyAfterCancel'
  BY <1>0, <1>1
<1>2. ASSUME NEW r \in Requests, AnswerFromCache(r) PROVE (DueInv /\ StaleOnlyAfterCancel)'
  <2>1. /\ state[r] = "new" /\ state' = [state EXCEPT ![r] = "answered"]
        /\ answer' = [answer EXCEPT ![r] = cache]
        /\ UNCHANGED <<cache, refresh, snapshot, flight, awaits, atLeast>>
    BY <1>2 DEF AnswerFromCache, shared, thread
  <2>2. \A q \in Requests \ {r} : state'[q] = state[q] /\ answer'[q] = answer[q]
    BY <1>0, <2>1
  <2>3. state'[r] = "answered"
    BY <1>0, <2>1
  <2>4. awaits[r] = NoRefresh
    BY <1>0, <2>1
  <2>5. DueInv'
    BY <1>0, <2>1, <2>2, <2>3
  <2>6. StaleOnlyAfterCancel'
    BY <1>0, <2>1, <2>2, <2>3, <2>4
  <2> QED
    BY <2>5, <2>6
<1>3. ASSUME NEW r \in Requests, StartRefresh(r) PROVE (DueInv /\ StaleOnlyAfterCancel)'
  <2>1. /\ launched' = launched + 1 /\ refresh' = launched' /\ refresh = NoRefresh
        /\ state[r] = "new" /\ state' = [state EXCEPT ![r] = "waiting"]
        /\ awaits' = [awaits EXCEPT ![r] = launched']
        /\ flight' = [flight EXCEPT ![launched'] = "running"]
        /\ atLeast' = [atLeast EXCEPT ![r] = atLeast'[r]]
        /\ UNCHANGED <<cache, snapshot, answer>>
    BY <1>0, <1>3 DEF StartRefresh, Launch, Arrive
  <2>2. /\ state'[r] = "waiting" /\ awaits'[r] = launched'
        /\ \A q \in Requests \ {r} : /\ state'[q] = state[q] /\ awaits'[q] = awaits[q]
                                     /\ atLeast'[q] = atLeast[q]
    BY <1>0, <2>1
  <2>3. ~HasRead(launched')
    <3>1. launched' \in Flights
      BY <1>0, <1>3, LaunchIsNext DEF MonotoneInv
    <3> QED
      BY <1>0, <2>1, <3>1
  <2>4. StaleOnlyAfterCancel'
    BY <1>1, <2>1, <2>2
  <2>5. ASSUME NEW q \in Requests \ {r}, LeftBehind(q) PROVE LeftBehind(q)'
    BY <2>1, <2>2, <2>5
  <2>6. ASSUME NEW q \in Requests \ {r}, state[q] = "waiting"
        PROVE  awaits[q] # refresh /\ flight'[awaits[q]] = flight[awaits[q]]
    BY <1>0, <2>1, <2>6 DEF NoRefresh
  <2>7. DueInv'
    BY <1>0, <2>1, <2>2, <2>3, <2>5, <2>6
  <2> QED
    BY <2>4, <2>7
<1>4. ASSUME NEW r \in Requests, JoinRefresh(r) PROVE (DueInv /\ StaleOnlyAfterCancel)'
  <2>1. /\ refresh # NoRefresh
        /\ state[r] = "new" /\ state' = [state EXCEPT ![r] = "waiting"]
        /\ awaits' = [awaits EXCEPT ![r] = refresh]
        /\ atLeast' = [atLeast EXCEPT ![r] =
                         IF \E o \in Requests : state[o] = "waiting" THEN 0 ELSE commits]
        /\ UNCHANGED <<cache, refresh, flight, snapshot, answer>>
    BY <1>4 DEF JoinRefresh, Arrive
  <2>2. /\ state'[r] = "waiting" /\ awaits'[r] = refresh
        /\ \A q \in Requests \ {r} : /\ state'[q] = state[q] /\ awaits'[q] = awaits[q]
                                     /\ atLeast'[q] = atLeast[q]
    BY <1>0, <2>1
  <2>3. HasRead(refresh) => snapshot[refresh] >= atLeast'[r] \/ LeftBehind(r)'
    BY <1>0, <2>1, <2>2
  <2> QED
    BY <1>0, <1>1, <2>1, <2>2, <2>3
<1>5. ASSUME NEW r \in Requests, Resume(r) PROVE (DueInv /\ StaleOnlyAfterCancel)'
  <2>1. /\ state[r] = "waiting" /\ state'[r] = "answered"
        /\ \A q \in Requests \ {r} : state'[q] = state[q]
        /\ UNCHANGED <<snapshot, flight, awaits, atLeast>>
    BY <1>0, <1>5 DEF Resume, thread
  <2>2. /\ \/ refresh = awaits[r] /\ cache' = snapshot[awaits[r]] /\ refresh' = NoRefresh
           \/ refresh # awaits[r] /\ UNCHANGED <<cache, refresh>>
        /\ \A q \in Requests \ {r} : answer'[q] = answer[q]
        /\ HasRead(awaits[r])
    BY <1>0, <1>5, Told
  <2>3. answer'[r] >= atLeast[r] \/ LeftBehind(r)
    BY <1>5, ToldItsDue
  <2>4. cache <= cache'
    BY <1>0, <2>2, <1>5, Told
  <2>6. ASSUME NEW q \in Requests, LeftBehind(q) PROVE LeftBehind(q)'
    BY <2>1, <2>6
  <2>7. refresh' # NoRefresh =>
          \E o \in Requests : state'[o] \in {"waiting", "cancelled"} /\ awaits'[o] = refresh'
    BY <2>1, <2>2
  <2>8. ASSUME NEW q \in Requests, state'[q] = "waiting"
        PROVE  /\ HasRead(awaits[q])' => (snapshot[awaits[q]] >= atLeast[q])' \/ LeftBehind(q)'
               /\ awaits'[q] # refresh' /\ flight'[awaits'[q]] # "failed"
                    => (cache >= atLeast[q])' \/ LeftBehind(q)'
    <3>1. q # r /\ state[q] = "waiting"
      BY <2>1, <2>8
    <3>2. HasRead(awaits[q]) => snapshot[awaits[q]] >= atLeast[q] \/ LeftBehind(q)
      BY <3>1
    <3>3. CASE awaits[q] = refresh
      BY <2>1, <2>2, <2>6, <3>1, <3>2, <3>3
    <3>4. CASE awaits[q] # refresh
      <4>1. flight[awaits[q]] # "failed" => cache >= atLeast[q] \/ LeftBehind(q)
        BY <3>1, <3>4
      <4>2. cache >= atLeast[q] => cache' >= atLeast[q]
        <5>1. cache' \in Int /\ cache \in Int /\ atLeast[q] \in Int
          BY <1>0, <2>1, <2>2
        <5> QED
          BY <2>4, <5>1
      <4> QED
        BY <2>1, <2>6, <3>2, <4>1, <4>2
    <3> QED
      BY <3>3, <3>4
  <2>9. \A q \in Requests : state'[q] = "new" => awaits'[q] = NoRefresh
    BY <2>1
  <2>10. DueInv'
    BY <2>7, <2>8, <2>9
  <2>5. StaleOnlyAfterCancel'
    BY <1>0, <2>1, <2>2, <2>3
  <2> QED
    BY <2>5, <2>10
<1>6. ASSUME NEW r \in Requests, ResumeFailed(r) PROVE (DueInv /\ StaleOnlyAfterCancel)'
  <2>1. /\ state[r] = "waiting" /\ state'[r] = "failed"
        /\ \A q \in Requests \ {r} : state'[q] = state[q]
        /\ refresh' = (IF refresh = awaits[r] THEN NoRefresh ELSE refresh)
        /\ flight[awaits[r]] = "failed"
        /\ UNCHANGED <<cache, snapshot, flight, awaits, answer, atLeast>>
    BY <1>0, <1>6 DEF ResumeFailed, Withdraw, thread
  <2> QED
    BY <1>0, <1>1, <2>1
<1>7. ASSUME NEW r \in Requests, Cancel(r) PROVE (DueInv /\ StaleOnlyAfterCancel)'
  <2>1. /\ state[r] = "waiting" /\ state'[r] = "cancelled"
        /\ \A q \in Requests \ {r} : state'[q] = state[q]
        /\ refresh' = refresh \/ (refresh = awaits[r] /\ refresh' = NoRefresh)
        /\ UNCHANGED <<cache, snapshot, flight, awaits, answer, atLeast>>
    BY <1>0, <1>7 DEF Cancel, Withdraw, thread
  <2>2. DueInv'
    BY <1>0, <2>1
  <2> QED
    BY <1>0, <1>1, <2>1, <2>2
<1>8. ASSUME NEW f \in Flights, Read(f) PROVE (DueInv /\ StaleOnlyAfterCancel)'
  <2>1. /\ snapshot' = [snapshot EXCEPT ![f] = commits]
        /\ UNCHANGED <<cache, refresh, flight, state, awaits, answer, atLeast>>
    BY <1>8 DEF Read, shared, requests
  <2>2. \A g \in Flights : snapshot'[g] = commits \/ snapshot'[g] = snapshot[g]
    BY <1>0, <2>1
  <2> QED
    BY <1>0, <2>1, <2>2
<1>9. ASSUME NEW f \in Flights, Complete(f) \/ Fail(f) PROVE (DueInv /\ StaleOnlyAfterCancel)'
  <2>1. /\ flight[f] = "running"
        /\ \A g \in Flights \ {f} : flight'[g] = flight[g]
        /\ UNCHANGED <<cache, refresh, snapshot, state, awaits, answer, atLeast>>
    BY <1>0, <1>9 DEF Complete, Fail, shared, requests
  <2> QED
    BY <1>0, <2>1
<1>10. CASE Commit \/ Expire \/ UNCHANGED vars
  BY <1>0, <1>10 DEF Commit, Expire, vars, shared, thread, requests
<1>11. CASE Shutdown
  BY <1>0, <1>11 DEF Shutdown, requests
<1> QED
  BY <1>2, <1>3, <1>4, <1>5, <1>6, <1>7, <1>8, <1>9, <1>10, <1>11 DEF Next, Executor, Loop

\* Only the cancellation of a fellow waiter lets a request that found the cache
\* expired, and nobody at work, be answered with less than it had to see.
THEOREM StaleOnlyAfterCancelTheorem == Spec => []StaleOnlyAfterCancel
<1>1. Init => DueInv /\ StaleOnlyAfterCancel
  BY DEF Init, DueInv, StaleOnlyAfterCancel, NoRefresh
<1> QED
  BY <1>1, DueStep, MonotoneInvariant, PTL DEF Spec
=============================================================================
