--------------------------- MODULE FrontDoorProofs ---------------------------
(***************************************************************************)
(* Proofs about the limiters and the upload gate, for any number of calls, *)
(* keys, values and uploads and any limits.                                *)
(***************************************************************************)
EXTENDS FrontDoor, FiniteSetTheorems, TLAPS

-----------------------------------------------------------------------------
(* The upload gate. *)

\* The gate's inductive invariant: the slots counted are the slots held.
GateInv == GateTypeOK /\ SlotsExact

\* The slots of a class are counted by a number that is never exceeded.
LEMMA HoldersFinite ==
  ASSUME NEW c \in Classes
  PROVE  IsFiniteSet(Holders(c)) /\ Cardinality(Holders(c)) \in Nat
<1>1. Holders(c) \subseteq Uploads /\ IsFiniteSet(Uploads)
  BY GateAssumption DEF Holders
<1> QED
  BY <1>1, FS_Subset, FS_CardinalityType

\* A request that ends gives back the slot it holds, and only that one.
LEMMA LeaveStep ==
  ASSUME GateInv, NEW u \in Uploads, upload[u].stage \in Held, Leave(u)
  PROVE  GateInv'
<1> USE DEF GateInv, GateTypeOK
<1>0. PICK class \in Classes : class = upload[u].class
  OBVIOUS
<1>1. /\ class \in Classes /\ u \in Holders(class)
      /\ MaxImports \in Nat /\ active \in [Classes -> 0 .. MaxImports]
  BY <1>0, GateAssumption DEF Holders
<1>2. /\ upload' = [upload EXCEPT ![u] = Untouched("done")]
      /\ active' = [active EXCEPT ![class] = active[class] - 1]
  BY <1>0 DEF Leave, Over
<1>3. upload'[u].stage = "done" /\ \A v \in Uploads \ {u} : upload'[v] = upload[v]
  BY <1>2 DEF Untouched
<1>4. Holders(class)' = Holders(class) \ {u}
  BY <1>3 DEF Holders, Held
<1>5. \A c \in Classes \ {class} : Holders(c)' = Holders(c)
  BY <1>0, <1>3 DEF Holders, Held
<1>6. /\ Cardinality(Holders(class)') = Cardinality(Holders(class)) - 1
      /\ Cardinality(Holders(class)') \in Nat
  BY <1>1, <1>4, HoldersFinite, FS_RemoveElement, FS_CardinalityType
<1>7. active[class] = Cardinality(Holders(class))
  BY <1>1 DEF SlotsExact
<1>8. SlotsExact'
  BY <1>1, <1>2, <1>5, <1>6, <1>7 DEF SlotsExact
<1>9. active' \in [Classes -> 0 .. MaxImports]
  BY <1>1, <1>2, <1>6, <1>7
<1>10. upload' \in [Uploads -> [stage : Held \cup {"idle", "done"}, class : Classes,
                                received : 0 .. MaxBody, remaining : 0 .. Deadline]]
  BY <1>2, GateAssumption DEF Untouched, Classes
<1> QED
  BY <1>8, <1>9, <1>10

\* A request that stays, in its class, keeps its slot.
LEMMA StayStep ==
  ASSUME GateInv, UNCHANGED active, GateTypeOK',
         \A u \in Uploads : /\ upload'[u].stage \in Held <=> upload[u].stage \in Held
                            /\ upload[u].stage \in Held => upload'[u].class = upload[u].class
  PROVE  GateInv'
<1>1. \A c \in Classes : Holders(c)' = Holders(c)
  BY DEF Holders
<1> QED
  BY <1>1 DEF GateInv, SlotsExact

\* Every step of every upload keeps the count.
LEMMA GateStep == GateInv /\ [GateNext]_gateVars => GateInv'
<1> SUFFICES ASSUME GateInv, [GateNext]_gateVars PROVE GateInv'
  OBVIOUS
<1>0. /\ upload \in [Uploads -> [stage : Held \cup {"idle", "done"}, class : Classes,
                                 received : 0 .. MaxBody, remaining : 0 .. Deadline]]
      /\ active \in [Classes -> 0 .. MaxImports]
      /\ MaxImports \in Nat /\ MaxBody \in Nat /\ Deadline \in Nat
  BY GateAssumption DEF GateInv, GateTypeOK
<1>1. ASSUME NEW u \in Uploads, Enter(u) PROVE GateInv'
  <2>1. CASE Over(u) /\ UNCHANGED active
    <3>1. upload' = [upload EXCEPT ![u] = Untouched("done")] /\ upload[u].stage = "idle"
      BY <1>1, <2>1 DEF Over, Enter
    <3>2. GateTypeOK'
      BY <1>0, <2>1, <3>1 DEF GateTypeOK, Untouched, Classes
    <3>3. upload'[u].stage = "done" /\ \A v \in Uploads \ {u} : upload'[v] = upload[v]
      BY <1>0, <3>1 DEF Untouched
    <3> QED
      BY <2>1, <3>1, <3>2, <3>3, StayStep DEF Held
  <2>2. ASSUME NEW class \in Classes, NEW stage \in {"receiving", "replying"},
               active[class] < MaxImports,
               upload' = [upload EXCEPT ![u].stage = stage, ![u].class = class],
               active' = [active EXCEPT ![class] = @ + 1]
        PROVE  GateInv'
    <3>1. upload' = [upload EXCEPT ![u] = [@ EXCEPT !.stage = stage, !.class = class]]
      BY <2>2
    <3>2. /\ upload'[u].stage = stage /\ upload'[u].class = class
          /\ \A v \in Uploads \ {u} : upload'[v] = upload[v]
      BY <1>0, <3>1
    <3>3. upload[u].stage = "idle" /\ u \notin Holders(class)
      BY <1>1 DEF Enter, Holders, Held
    <3>4. Holders(class)' = Holders(class) \cup {u}
      BY <3>2 DEF Holders, Held
    <3>5. \A c \in Classes \ {class} : Holders(c)' = Holders(c)
      BY <3>2, <3>3 DEF Holders, Held
    <3>6. Cardinality(Holders(class)') = Cardinality(Holders(class)) + 1
      BY <3>3, <3>4, HoldersFinite, FS_AddElement
    <3>7. SlotsExact'
      BY <1>0, <2>2, <3>5, <3>6 DEF GateInv, SlotsExact
    <3>8. active' \in [Classes -> 0 .. MaxImports]
      BY <1>0, <2>2
    <3>9. [upload[u] EXCEPT !.stage = stage, !.class = class]
            \in [stage : Held \cup {"idle", "done"}, class : Classes,
                 received : 0 .. MaxBody, remaining : 0 .. Deadline]
      BY <1>0 DEF Held
    <3> QED
      BY <1>0, <3>1, <3>7, <3>8, <3>9 DEF GateInv, GateTypeOK
  <2> QED
    BY <1>1, <2>1, <2>2 DEF Enter
<1>2. ASSUME NEW u \in Uploads, Message(u) \/ TimeOut(u) PROVE GateInv'
  <2>1. PICK x \in [stage : Held, class : Classes, received : 0 .. MaxBody,
                    remaining : 0 .. Deadline] :
          upload' = [upload EXCEPT ![u] = x] /\ x.class = upload[u].class
    <3>1. CASE upload' = [upload EXCEPT ![u].stage = "replying"]
      <4> DEFINE x == [upload[u] EXCEPT !.stage = "replying"]
      <4>1. upload' = [upload EXCEPT ![u] = x] /\ x.class = upload[u].class
        BY <1>0, <3>1
      <4>2. x \in [stage : Held, class : Classes, received : 0 .. MaxBody,
                   remaining : 0 .. Deadline]
        BY <1>0 DEF Held
      <4> QED
        BY <4>1, <4>2
    <3>2. ASSUME NEW bytes \in {0, 1}, NEW more \in BOOLEAN, upload[u].stage = "receiving",
                 ~(upload[u].received + bytes > MaxBody),
                 upload' = [upload EXCEPT ![u].received = @ + bytes,
                                          ![u].stage = IF more THEN @ ELSE "handling"]
          PROVE  \E x \in [stage : Held, class : Classes, received : 0 .. MaxBody,
                           remaining : 0 .. Deadline] :
                   upload' = [upload EXCEPT ![u] = x] /\ x.class = upload[u].class
      <4> DEFINE x == [upload[u] EXCEPT !.received = @ + bytes,
                                        !.stage = IF more THEN @ ELSE "handling"]
      <4>1. upload' = [upload EXCEPT ![u] = x] /\ x.class = upload[u].class
        BY <1>0, <3>2
      <4>2. upload[u].received + bytes \in 0 .. MaxBody
        BY <1>0, <3>2
      <4>3. x \in [stage : Held, class : Classes, received : 0 .. MaxBody,
                   remaining : 0 .. Deadline]
        BY <1>0, <3>2, <4>2 DEF Held
      <4> QED
        BY <4>1, <4>3
    <3> QED
      BY <1>2, <3>1, <3>2 DEF Message, TimeOut, To
  <2>2. upload[u].stage \in Held /\ UNCHANGED active
    BY <1>2 DEF Message, TimeOut, Held
  <2>3. upload'[u] = x /\ \A v \in Uploads \ {u} : upload'[v] = upload[v]
    BY <1>0, <2>1
  <2>4. GateTypeOK'
    BY <1>0, <2>1, <2>2 DEF GateTypeOK
  <2> QED
    BY <2>1, <2>2, <2>3, <2>4, StayStep
<1>3. ASSUME NEW u \in Uploads, Disconnect(u) \/ Replied(u) \/ Handled(u) \/ Cancelled(u)
      PROVE  GateInv'
  BY <1>3, LeaveStep DEF Disconnect, Replied, Handled, Cancelled, Held
<1>4. CASE Wait
  <2>1. /\ UNCHANGED active
        /\ upload' = [u \in Uploads |->
             IF upload[u].stage = "receiving" /\ upload[u].remaining > 0
             THEN [upload[u] EXCEPT !.remaining = @ - 1] ELSE upload[u]]
    BY <1>4 DEF Wait
  <2>2. ASSUME NEW u \in Uploads
        PROVE  /\ upload'[u] \in [stage : Held \cup {"idle", "done"}, class : Classes,
                                  received : 0 .. MaxBody, remaining : 0 .. Deadline]
               /\ upload'[u].stage = upload[u].stage /\ upload'[u].class = upload[u].class
    <3>1. CASE upload[u].stage = "receiving" /\ upload[u].remaining > 0
      <4>1. upload[u].remaining - 1 \in 0 .. Deadline
        BY <1>0, <3>1
      <4> QED
        BY <1>0, <2>1, <3>1, <4>1
    <3>2. CASE ~(upload[u].stage = "receiving" /\ upload[u].remaining > 0)
      BY <1>0, <2>1, <3>2
    <3> QED
      BY <3>1, <3>2
  <2>3. GateTypeOK'
    BY <1>0, <2>1, <2>2 DEF GateTypeOK
  <2> QED
    BY <2>1, <2>2, <2>3, StayStep
<1>5. CASE UNCHANGED gateVars
  BY <1>5 DEF gateVars, GateInv, GateTypeOK, SlotsExact, Holders
<1> QED
  BY <1>1, <1>2, <1>3, <1>4, <1>5 DEF GateNext

\* The counters count the uploads under way, whatever way each of them ends.
THEOREM SlotsExactTheorem == FrontSpec => []SlotsExact
<1>1. FrontInit => GateInv
  <2> SUFFICES ASSUME FrontInit PROVE GateInv
    OBVIOUS
  <2>1. GateTypeOK
    BY GateAssumption DEF FrontInit, GateInit, GateTypeOK, Untouched, Classes
  <2>2. \A c \in Classes : Holders(c) = {} /\ active[c] = 0
    BY DEF FrontInit, GateInit, Holders, Held, Untouched
  <2> QED
    BY <2>1, <2>2, FS_EmptySet DEF GateInv, SlotsExact
<1>2. [FrontNext]_frontVars => [GateNext]_gateVars
  BY DEF FrontNext, frontVars
<1>3. GateInv => SlotsExact
  BY DEF GateInv
<1> QED
  BY <1>1, <1>2, <1>3, GateStep, PTL DEF FrontSpec

-----------------------------------------------------------------------------
(* The limiters. *)

\* What a call may have recorded, whatever it came to.
Outcomes == [key : Keys \cup {None}, value : Values \cup {None},
             at : Nat, verdict : Verdicts, behind : SUBSET Calls]

\* A call that counts towards the limit of its key.
Charged(c) == call[c].verdict = "charged"

\* A call under way, or one that counts, has a key and a time that has come.
CallsInv ==
  /\ LimiterTypeOK
  /\ \A c \in Calls : call[c].verdict \in {"clocked", "charged"} => call[c].key \in Keys
  /\ \A k \in Keys : \A e \in table[k] : Charged(e) /\ call[e].key = k

\* What counts is in the table until a later call no longer counts it.
PrunedInv ==
  \A c \in Calls : Charged(c) =>
    c \in table[call[c].key] \/ call[c].at < latest - Window

\* The last cleanup left nothing older, and only late calls add something older.
CleanInv ==
  /\ lastCleanup <= latest
  /\ \A k \in Keys : \A e \in table[k] : e \in late \/ call[e].at >= lastCleanup - Window

\* The limiter's inductive invariant.
LimiterInv == CallsInv /\ PrunedInv /\ CleanInv /\ WindowBounded

\* The events a call finds for its key.
Kept(c) == Fresh(Cleaned(call[c].at)[call[c].key], call[c].at)

\* What every charge does, of either class of limiter, evicting or not.
ChargeStep(c) ==
  \E forgotten \in SUBSET (Keys \ {call[c].key}) :
    /\ Cardinality(Kept(c)) < Limit
    /\ table' = [k \in Keys |-> IF k = call[c].key THEN Kept(c) \cup {c}
                                ELSE IF k \in forgotten THEN {}
                                ELSE Cleaned(call[c].at)[k]]
    /\ Charge(c, Kept(c), forgotten)

\* What every other call does.
PruneStep(c) ==
  /\ table' = [Cleaned(call[c].at) EXCEPT ![call[c].key] = Kept(c)]
  /\ Settle(c, "free") \/ Settle(c, "refused")

\* A cleanup only drops events that are too old for the call.
LEMMA CleanedTable ==
  ASSUME LimiterTypeOK, NEW now \in Nat, NEW k \in Keys
  PROVE  /\ Cleaned(now) \in [Keys -> SUBSET Calls]
         /\ Cleaned(now)[k] \subseteq table[k]
         /\ \A e \in table[k] : call[e].at >= now - Window => e \in Cleaned(now)[k]
         /\ \A e \in Cleaned(now)[k] :
              now - lastCleanup >= CleanupEvery => call[e].at >= now - Window
  BY DEF Cleaned, Fresh, LimiterTypeOK

\* Every decided call is one of the two.
LEMMA Forms ==
  ASSUME CallsInv, NEW c \in Calls, RecordFailure(c) \/ IsLimited(c) \/ RecordDistinct(c)
  PROVE  call[c].verdict = "clocked" /\ (ChargeStep(c) \/ PruneStep(c))
<1> DEFINE k == call[c].key
           now == call[c].at
<1>1. call[c].verdict = "clocked" /\ k \in Keys /\ now \in Nat
  BY DEF RecordFailure, IsLimited, RecordDistinct, CallsInv, LimiterTypeOK
<1>2. /\ Cleaned(now) \in [Keys -> SUBSET Calls]
      /\ Kept(c) = Fresh(Cleaned(now)[k], now)
  BY <1>1, CleanedTable DEF CallsInv, Kept
<1>3. CASE IsLimited(c)
  BY <1>1, <1>3 DEF IsLimited, PruneStep, Kept
<1>4. CASE RecordFailure(c)
  <2> DEFINE t == [Cleaned(now) EXCEPT ![k] = Kept(c)]
  <2>1. CASE table' = t /\ Settle(c, "refused")
    BY <1>1, <2>1 DEF PruneStep
  <2>2. CASE /\ Cardinality(Kept(c)) < Limit
             /\ table' = [t EXCEPT ![k] = Kept(c) \cup {c}] /\ Charge(c, Kept(c), {})
    <3>1. table' = [j \in Keys |-> IF j = k THEN Kept(c) \cup {c}
                                   ELSE IF j \in {} THEN {} ELSE Cleaned(now)[j]]
      BY <1>1, <1>2, <2>2
    <3> QED
      BY <1>1, <2>2, <3>1 DEF ChargeStep
  <2>3. ASSUME Kept(c) = {}, Cardinality(Kept(c)) < Limit, NEW oldest \in Oldest(t),
               table' = [t EXCEPT ![oldest] = {}, ![k] = {c}], Charge(c, {}, {oldest})
        PROVE  ChargeStep(c)
    <3>1. oldest \in Keys \ {k}
      BY <1>1, <1>2, <2>3 DEF Oldest, Stored
    <3>2. table' = [j \in Keys |-> IF j = k THEN Kept(c) \cup {c}
                                   ELSE IF j \in {oldest} THEN {} ELSE Cleaned(now)[j]]
      BY <1>1, <1>2, <2>3, <3>1
    <3> QED
      BY <1>1, <2>3, <3>1, <3>2 DEF ChargeStep
  <2> QED
    BY <1>1, <1>4, <2>1, <2>2, <2>3 DEF RecordFailure, Kept
<1>5. CASE RecordDistinct(c)
  <2> DEFINE before == Cleaned(now)
             t == [before EXCEPT ![k] = Kept(c)]
  <2>1. CASE table' = t /\ (Settle(c, "refused") \/ Settle(c, "free"))
    BY <1>1, <2>1 DEF PruneStep
  <2>2. CASE /\ Cardinality(Kept(c)) < Limit
             /\ table' = [t EXCEPT ![k] = Kept(c) \cup {c}] /\ Charge(c, Kept(c), {})
    <3>1. table' = [j \in Keys |-> IF j = k THEN Kept(c) \cup {c}
                                   ELSE IF j \in {} THEN {} ELSE Cleaned(now)[j]]
      BY <1>1, <1>2, <2>2
    <3> QED
      BY <1>1, <2>2, <3>1 DEF ChargeStep
  <2>3. ASSUME before[k] = {}, Cardinality(Kept(c)) < Limit, NEW oldest \in Oldest(before),
               table' = [before EXCEPT ![oldest] = {}, ![k] = {c}], Charge(c, {}, {oldest})
        PROVE  ChargeStep(c)
    <3>1. oldest \in Keys \ {k}
      BY <1>1, <1>2, <2>3 DEF Oldest, Stored
    <3>2. Kept(c) = {}
      BY <1>2, <2>3 DEF Fresh
    <3>3. table' = [j \in Keys |-> IF j = k THEN Kept(c) \cup {c}
                                   ELSE IF j \in {oldest} THEN {} ELSE Cleaned(now)[j]]
      BY <1>1, <1>2, <2>3, <3>1, <3>2
    <3> QED
      BY <1>1, <2>3, <3>1, <3>2, <3>3 DEF ChargeStep
  <2> QED
    BY <1>1, <1>5, <2>1, <2>2, <2>3 DEF RecordDistinct, Kept
<1> QED
  BY <1>1, <1>3, <1>4, <1>5

\* What a decided call leaves of the others.
LEMMA Others ==
  ASSUME CallsInv, NEW c \in Calls, call[c].verdict = "clocked",
         NEW outcome \in Outcomes, NEW forgotten \in SUBSET Keys, Decided(c, outcome, forgotten)
  PROVE  /\ call' \in [Calls -> Outcomes] /\ call'[c] = outcome
         /\ \A d \in Calls \ {c} :
              \/ call'[d] = call[d] /\ ~(Charged(d) /\ call[d].key \in forgotten)
              \/ call'[d] = Blank("free") /\ Charged(d) /\ call[d].key \in forgotten
         /\ latest \in Nat /\ latest' \in Nat /\ latest' >= latest /\ latest' >= call[c].at
         /\ latest' \in {latest, call[c].at}
         /\ call[c].at \in Nat /\ call[c].key \in Keys
         /\ lastCleanup \in Nat
         /\ lastCleanup' = (IF call[c].at - lastCleanup >= CleanupEvery
                            THEN call[c].at ELSE lastCleanup)
         /\ UNCHANGED <<kind, clock>>
<1>1. Blank("free") \in Outcomes
  BY DEF Blank, Outcomes, Verdicts, None
<1>2. call \in [Calls -> Outcomes] /\ latest \in Nat /\ lastCleanup \in Nat
  BY DEF CallsInv, LimiterTypeOK, Outcomes
<1>3. call[c].at \in Nat /\ call[c].key \in Keys
  BY <1>2 DEF CallsInv, Outcomes
<1>4. /\ call' \in [Calls -> Outcomes] /\ call'[c] = outcome
      /\ \A d \in Calls \ {c} :
           \/ call'[d] = call[d] /\ ~(Charged(d) /\ call[d].key \in forgotten)
           \/ call'[d] = Blank("free") /\ Charged(d) /\ call[d].key \in forgotten
  BY <1>1, <1>2 DEF Decided, Charged
<1> QED
  BY <1>2, <1>3, <1>4 DEF Decided, Larger, CleanupNoted

\* The calls whose number WindowBounded bounds.
InWindow(k, t) == {c \in ChargedTo(k, t - Window) \ late : call[c].at <= t}

\* Counting needs finite sets.
LEMMA CallsFinite == IsFiniteSet(Calls)
  BY LimiterAssumption, FS_Interval DEF Calls

\* So are the calls of any window.
LEMMA WindowFinite == \A k, t : IsFiniteSet(InWindow(k, t))
<1> SUFFICES ASSUME NEW k, NEW t PROVE IsFiniteSet(InWindow(k, t))
  OBVIOUS
<1>1. InWindow(k, t) \subseteq Calls
  BY DEF InWindow, ChargedTo
<1> QED
  BY <1>1, CallsFinite, FS_Subset

\* A charge keeps all but the bound of the windows.
LEMMA ChargeKeeps ==
  ASSUME CallsInv, PrunedInv, CleanInv, NEW c \in Calls,
         call[c].verdict = "clocked", ChargeStep(c)
  PROVE  CallsInv' /\ PrunedInv' /\ CleanInv'
<1> DEFINE k == call[c].key
           now == call[c].at
           outcome == [call[c] EXCEPT !.verdict = "charged", !.behind = Kept(c)]
<1>1. PICK forgotten \in SUBSET (Keys \ {k}) :
        /\ table' = [j \in Keys |-> IF j = k THEN Kept(c) \cup {c}
                                    ELSE IF j \in forgotten THEN {} ELSE Cleaned(now)[j]]
        /\ Charge(c, Kept(c), forgotten)
  BY DEF ChargeStep
<1>2. call[c] \in Outcomes /\ k \in Keys /\ now \in Nat /\ Window \in Nat
  BY LimiterAssumption DEF CallsInv, LimiterTypeOK, Outcomes
<1>3. /\ \A j \in Keys : /\ Cleaned(now)[j] \subseteq table[j] /\ table[j] \subseteq Calls
                         /\ \A e \in table[j] :
                              call[e].at >= now - Window => e \in Cleaned(now)[j]
      /\ Kept(c) = {e \in Cleaned(now)[k] : call[e].at >= now - Window}
  BY <1>2, CleanedTable DEF CallsInv, Kept, Fresh, LimiterTypeOK
<1>4. outcome \in Outcomes
  BY <1>2, <1>3 DEF Outcomes, Verdicts
<1>5. Decided(c, outcome, forgotten)
  BY <1>1 DEF Charge
<1>6. /\ call' \in [Calls -> Outcomes] /\ call'[c] = outcome
      /\ \A d \in Calls \ {c} :
           \/ call'[d] = call[d] /\ ~(Charged(d) /\ call[d].key \in forgotten)
           \/ call'[d] = Blank("free") /\ Charged(d) /\ call[d].key \in forgotten
      /\ latest \in Nat /\ latest' \in Nat /\ latest' >= latest /\ latest' >= now
      /\ latest' \in {latest, now}
      /\ lastCleanup \in Nat
      /\ lastCleanup' = IF now - lastCleanup >= CleanupEvery THEN now ELSE lastCleanup
      /\ UNCHANGED <<kind, clock>>
  BY <1>4, <1>5, Others
<1>7. call'[c].verdict = "charged" /\ call'[c].key = k /\ call'[c].at = now
  BY <1>2, <1>6 DEF Outcomes
<1>8. late' = (IF now < latest THEN late \cup {c} ELSE late) /\ late \subseteq Calls
  BY <1>1 DEF Charge, CallsInv, LimiterTypeOK
\* What stays in the table is what was there and was not forgotten.
<1>9. ASSUME NEW j \in Keys, NEW e \in table'[j], e # c
      PROVE  /\ e \in Calls /\ e \in table[j] /\ e \in Cleaned(now)[j] /\ call'[e] = call[e]
             /\ Charged(e) /\ call[e].key = j
  <2>1. e \in Cleaned(now)[j] /\ j \notin forgotten
    BY <1>1, <1>3, <1>9
  <2> QED
    BY <1>3, <1>6, <1>9, <2>1 DEF CallsInv
<1>10. \A j \in Keys : c \in table'[j] => j = k
  <2>1. \A j \in Keys : c \notin table[j]
    BY DEF CallsInv, Charged
  <2> QED
    BY <1>1, <1>3, <2>1
<1>11. CallsInv'
  <2>1. table' \in [Keys -> SUBSET Calls]
    BY <1>1, <1>3
  <2>2. LimiterTypeOK'
    BY <1>2, <1>6, <1>8, <2>1 DEF CallsInv, LimiterTypeOK, Outcomes
  <2>3. ASSUME NEW d \in Calls, call'[d].verdict \in {"clocked", "charged"}
        PROVE  call'[d].key \in Keys
    <3>1. CASE d = c
      BY <1>2, <1>7, <3>1
    <3>2. CASE d # c
      <4>1. call'[d] # Blank("free")
        BY <2>3 DEF Blank
      <4>2. call'[d] = call[d]
        BY <1>6, <3>2, <4>1
      <4> QED
        BY <2>3, <4>2 DEF CallsInv
    <3> QED
      BY <3>1, <3>2
  <2>4. \A j \in Keys : \A e \in table'[j] : call'[e].verdict = "charged" /\ call'[e].key = j
    BY <1>7, <1>9, <1>10 DEF Charged
  <2> QED
    BY <2>2, <2>3, <2>4 DEF CallsInv, Charged
<1>12. PrunedInv'
  <2> SUFFICES ASSUME NEW d \in Calls, call'[d].verdict = "charged"
               PROVE  d \in table'[call'[d].key] \/ call'[d].at < latest' - Window
    BY DEF PrunedInv, Charged
  <2>1. CASE d = c
    BY <1>1, <1>2, <1>7, <2>1
  <2>2. CASE d # c
    <3>1. call'[d] = call[d] /\ Charged(d) /\ call[d].key \in Keys \ forgotten
      BY <1>6, <2>2 DEF Blank, Charged, CallsInv
    <3>2. d \in table[call[d].key] \/ call[d].at < latest - Window
      BY <3>1 DEF PrunedInv
    <3>3. d \in Cleaned(now)[call[d].key] \/ call[d].at < latest - Window
             \/ call[d].at < now - Window
      <4>1. call[d].at \in Nat
        BY DEF CallsInv, LimiterTypeOK
      <4> QED
        BY <1>2, <1>3, <3>1, <3>2, <4>1
    <3>4. d \in table'[call[d].key] \/ call[d].at < latest - Window
             \/ call[d].at < now - Window
      <4>1. call[d].at \in Nat
        BY DEF CallsInv, LimiterTypeOK
      <4> QED
        BY <1>1, <1>2, <1>3, <3>1, <3>3, <4>1
    <3>5. call[d].at \in Nat
      BY DEF CallsInv, LimiterTypeOK
    <3> QED
      BY <1>2, <1>6, <3>1, <3>4, <3>5
  <2> QED
    BY <2>1, <2>2
<1>13. CleanInv'
  <2>1. lastCleanup' <= latest'
    BY <1>2, <1>6 DEF CleanInv
  <2>2. ASSUME NEW j \in Keys, NEW e \in table'[j]
        PROVE  e \in late' \/ call'[e].at >= lastCleanup' - Window
    <3>1. CASE e = c
      <4>1. c \in late' \/ now >= latest
        BY <1>2, <1>6, <1>8
      <4>2. lastCleanup' \in {now, lastCleanup} /\ lastCleanup <= latest
        BY <1>6 DEF CleanInv
      <4>3. now >= latest => now >= lastCleanup' - Window
        BY <1>2, <1>6, <4>2
      <4> QED
        BY <1>7, <3>1, <4>1, <4>3
    <3>2. CASE e # c
      <4>1. e \in table[j] /\ e \in Cleaned(now)[j] /\ call'[e] = call[e]
        BY <1>9, <3>2
      <4>2. now - lastCleanup >= CleanupEvery => call[e].at >= now - Window
        BY <1>2, <4>1, CleanedTable DEF CallsInv
      <4> QED
        BY <1>2, <1>6, <1>8, <4>1, <4>2 DEF CleanInv
    <3> QED
      BY <3>1, <3>2
  <2> QED
    BY <2>1, <2>2 DEF CleanInv
<1> QED
  BY <1>11, <1>12, <1>13

\* A charge is the last of Limit in every window it is part of.
LEMMA ChargeFits ==
  ASSUME CallsInv, PrunedInv, WindowBounded, NEW c \in Calls,
         call[c].verdict = "clocked", ChargeStep(c)
  PROVE  WindowBounded'
<1> SUFFICES ASSUME NEW k \in Keys, NEW t \in 0 .. (CleanupEvery + MaxClock)
             PROVE  Cardinality(InWindow(k, t)') <= Limit
  BY DEF WindowBounded, InWindow
<1> DEFINE now == call[c].at
           outcome == [call[c] EXCEPT !.verdict = "charged", !.behind = Kept(c)]
<1>1. PICK forgotten \in SUBSET (Keys \ {call[c].key}) : Charge(c, Kept(c), forgotten)
  BY DEF ChargeStep
<1>2. /\ call[c] \in Outcomes /\ now \in Nat /\ Window \in Nat /\ Limit \in Nat
      /\ call[c].key \in Keys /\ late \subseteq Calls
      /\ CleanupEvery \in Nat /\ MaxClock \in Nat /\ t \in Nat /\ latest \in Nat
  BY LimiterAssumption DEF CallsInv, LimiterTypeOK, Outcomes
<1>3. Kept(c) \subseteq Calls /\ outcome \in Outcomes
  <2>1. Kept(c) \subseteq Calls
    BY <1>2, CleanedTable DEF CallsInv, Kept, Fresh
  <2> QED
    BY <1>2, <2>1 DEF Outcomes, Verdicts
<1>4. /\ call'[c] = outcome
      /\ \A d \in Calls \ {c} : call'[d] = call[d] \/ call'[d] = Blank("free")
  BY <1>1, <1>2, <1>3, Others DEF Charge
<1>5. late' = IF now < latest THEN late \cup {c} ELSE late
  BY <1>1 DEF Charge
<1>6. InWindow(k, t)' \ {c} \subseteq InWindow(k, t)
  BY <1>4, <1>5 DEF InWindow, ChargedTo, Blank
<1>7. CASE c \notin InWindow(k, t)'
  <2>1. InWindow(k, t)' \subseteq InWindow(k, t)
    BY <1>6, <1>7
  <2>2. Cardinality(InWindow(k, t)') <= Cardinality(InWindow(k, t))
    BY <2>1, WindowFinite, FS_Subset
  <2>3. Cardinality(InWindow(k, t)') \in Nat /\ Cardinality(InWindow(k, t)) \in Nat
    BY <2>1, WindowFinite, FS_Subset, FS_CardinalityType
  <2>4. Cardinality(InWindow(k, t)) <= Limit
    BY DEF WindowBounded, InWindow
  <2> QED
    BY <1>2, <2>2, <2>3, <2>4
<1>8. CASE c \in InWindow(k, t)'
  <2>1. /\ call'[c].key = k /\ call'[c].at >= t - Window /\ call'[c].at <= t /\ c \notin late'
    BY <1>8 DEF InWindow, ChargedTo
  <2>2. call[c].key = k /\ now >= t - Window /\ now <= t
    BY <1>2, <1>4, <2>1 DEF Outcomes
  <2>3. now >= latest
    BY <1>2, <1>5, <2>1
  <2>4. ASSUME NEW d \in InWindow(k, t)' \ {c} PROVE d \in Kept(c)
    <3>1. d \in Calls /\ Charged(d) /\ call[d].key = k /\ call[d].at >= t - Window
      BY <1>6, <2>4 DEF InWindow, ChargedTo, Charged
    <3>2. call[d].at \in Nat
      BY <3>1 DEF CallsInv, LimiterTypeOK
    <3>3. call[d].at >= now - Window /\ ~(call[d].at < latest - Window)
      BY <1>2, <2>2, <2>3, <3>1, <3>2
    <3>4. d \in table[k]
      BY <3>1, <3>3 DEF PrunedInv
    <3> QED
      BY <1>2, <2>2, <3>3, <3>4, CleanedTable DEF CallsInv, Kept, Fresh
  <2>5. InWindow(k, t)' \subseteq Kept(c) \cup {c}
    BY <2>4
  <2>6. IsFiniteSet(Kept(c)) /\ Cardinality(Kept(c)) \in Nat
    BY <1>3, CallsFinite, FS_Subset, FS_CardinalityType
  <2>7. /\ IsFiniteSet(Kept(c) \cup {c})
        /\ \/ Cardinality(Kept(c) \cup {c}) = Cardinality(Kept(c)) + 1
           \/ Cardinality(Kept(c) \cup {c}) = Cardinality(Kept(c))
    BY <2>6, FS_AddElement
  <2>8. Cardinality(InWindow(k, t)') <= Cardinality(Kept(c) \cup {c})
    BY <2>5, <2>7, FS_Subset
  <2>9. Cardinality(InWindow(k, t)') \in Nat
    BY <2>5, <2>7, FS_Subset, FS_CardinalityType
  <2>10. Cardinality(Kept(c)) < Limit
    BY DEF ChargeStep
  <2> QED
    BY <1>2, <2>6, <2>7, <2>8, <2>9, <2>10
<1> QED
  BY <1>7, <1>8

\* A call that charges nothing keeps everything.
LEMMA PruneKeeps ==
  ASSUME CallsInv, PrunedInv, CleanInv, NEW c \in Calls,
         call[c].verdict = "clocked", PruneStep(c)
  PROVE  /\ CallsInv' /\ PrunedInv' /\ CleanInv'
         /\ \A d \in Calls : Charged(d)' => call'[d] = call[d]
         /\ late' = late
<1> DEFINE k == call[c].key
           now == call[c].at
<1>1. PICK verdict \in {"free", "refused"} :
        Decided(c, Blank(verdict), {}) /\ table' = [Cleaned(now) EXCEPT ![k] = Kept(c)]
  BY DEF PruneStep, Settle
<1>2. call[c] \in Outcomes /\ k \in Keys /\ now \in Nat /\ Window \in Nat
  BY LimiterAssumption DEF CallsInv, LimiterTypeOK, Outcomes
<1>3. /\ Cleaned(now) \in [Keys -> SUBSET Calls]
      /\ \A j \in Keys : /\ Cleaned(now)[j] \subseteq table[j] /\ table[j] \subseteq Calls
                         /\ \A e \in table[j] :
                              call[e].at >= now - Window => e \in Cleaned(now)[j]
      /\ Kept(c) = {e \in Cleaned(now)[k] : call[e].at >= now - Window}
  BY <1>2, CleanedTable DEF CallsInv, Kept, Fresh, LimiterTypeOK
<1>4. Blank(verdict) \in Outcomes /\ Blank(verdict).verdict \notin {"clocked", "charged"}
  BY DEF Blank, Outcomes, Verdicts, None
<1>5. /\ call' \in [Calls -> Outcomes] /\ call'[c] = Blank(verdict)
      /\ \A d \in Calls \ {c} : call'[d] = call[d]
      /\ latest \in Nat /\ latest' \in Nat /\ latest' >= latest /\ latest' >= now
      /\ latest' \in {latest, now}
      /\ lastCleanup \in Nat
      /\ lastCleanup' = IF now - lastCleanup >= CleanupEvery THEN now ELSE lastCleanup
      /\ UNCHANGED <<kind, clock>>
  BY <1>1, <1>2, <1>4, Others
<1>6. late' = late
  BY DEF PruneStep, Settle
<1>7. ASSUME NEW d \in Calls, call'[d].verdict = "charged" PROVE call'[d] = call[d]
  BY <1>4, <1>5, <1>7
<1>8. /\ table' \in [Keys -> SUBSET Calls]
      /\ \A j \in Keys : table'[j] \subseteq Cleaned(now)[j]
      /\ \A j \in Keys : \A e \in Cleaned(now)[j] :
           call[e].at >= now - Window => e \in table'[j]
  BY <1>1, <1>2, <1>3
<1>9. ASSUME NEW j \in Keys, NEW e \in table'[j]
      PROVE  e \in table[j] /\ e \in Calls /\ Charged(e) /\ call[e].key = j /\ call'[e] = call[e]
  <2>1. e \in table[j] /\ e \in Calls /\ Charged(e) /\ call[e].key = j
    BY <1>3, <1>8 DEF CallsInv
  <2>2. e # c
    BY <2>1 DEF Charged
  <2> QED
    BY <1>5, <2>1, <2>2
<1>10. CallsInv'
  <2>1. LimiterTypeOK'
    BY <1>2, <1>5, <1>6, <1>8 DEF CallsInv, LimiterTypeOK, Outcomes
  <2>2. \A d \in Calls : call'[d].verdict \in {"clocked", "charged"} => call'[d].key \in Keys
    BY <1>4, <1>5 DEF CallsInv
  <2>3. \A j \in Keys : \A e \in table'[j] : call'[e].verdict = "charged" /\ call'[e].key = j
    BY <1>9 DEF Charged
  <2> QED
    BY <2>1, <2>2, <2>3 DEF CallsInv, Charged
<1>11. PrunedInv'
  <2> SUFFICES ASSUME NEW d \in Calls, call'[d].verdict = "charged"
               PROVE  d \in table'[call'[d].key] \/ call'[d].at < latest' - Window
    BY DEF PrunedInv, Charged
  <2>1. call'[d] = call[d] /\ Charged(d) /\ call[d].key \in Keys /\ call[d].at \in Nat
    BY <1>7 DEF Charged, CallsInv, LimiterTypeOK
  <2>2. d \in table[call[d].key] \/ call[d].at < latest - Window
    BY <2>1 DEF PrunedInv
  <2>3. d \in table'[call[d].key] \/ call[d].at < latest - Window \/ call[d].at < now - Window
    BY <1>2, <1>3, <1>8, <2>1, <2>2
  <2> QED
    BY <1>2, <1>5, <2>1, <2>3
<1>12. CleanInv'
  <2>1. lastCleanup' <= latest'
    BY <1>2, <1>5 DEF CleanInv
  <2>2. ASSUME NEW j \in Keys, NEW e \in table'[j]
        PROVE  e \in late' \/ call'[e].at >= lastCleanup' - Window
    <3>1. e \in table[j] /\ e \in Cleaned(now)[j] /\ call'[e] = call[e]
      BY <1>8, <1>9
    <3>2. now - lastCleanup >= CleanupEvery => call[e].at >= now - Window
      BY <1>2, <3>1, CleanedTable DEF CallsInv
    <3> QED
      BY <1>5, <1>6, <3>1, <3>2 DEF CleanInv
  <2> QED
    BY <2>1, <2>2 DEF CleanInv
<1> QED
  BY <1>6, <1>7, <1>10, <1>11, <1>12 DEF Charged

\* Calls that count no longer only make room.
LEMMA FewerFit ==
  ASSUME WindowBounded, late' = late,
         \A d \in Calls : Charged(d)' => call'[d] = call[d]
  PROVE  WindowBounded'
<1> SUFFICES ASSUME NEW k \in Keys, NEW t \in 0 .. (CleanupEvery + MaxClock)
             PROVE  Cardinality(InWindow(k, t)') <= Limit
  BY DEF WindowBounded, InWindow
<1>1. InWindow(k, t)' \subseteq InWindow(k, t)
  BY DEF InWindow, ChargedTo, Charged
<1>2. Cardinality(InWindow(k, t)') <= Cardinality(InWindow(k, t))
  BY <1>1, WindowFinite, FS_Subset
<1>3. Cardinality(InWindow(k, t)') \in Nat /\ Cardinality(InWindow(k, t)) \in Nat
  BY <1>1, WindowFinite, FS_Subset, FS_CardinalityType
<1>4. Cardinality(InWindow(k, t)) <= Limit /\ Limit \in Nat
  BY LimiterAssumption DEF WindowBounded, InWindow
<1> QED
  BY <1>2, <1>3, <1>4

\* Every step of the limiter keeps its invariant.
LEMMA LimiterStep == LimiterInv /\ [LimiterNext]_limiterVars => LimiterInv'
<1> SUFFICES ASSUME LimiterInv, [LimiterNext]_limiterVars PROVE LimiterInv'
  OBVIOUS
<1> USE DEF LimiterInv
<1>1. ASSUME NEW c \in Calls, RecordFailure(c) \/ IsLimited(c) \/ RecordDistinct(c)
      PROVE  LimiterInv'
  <2>1. CASE ChargeStep(c)
    BY <1>1, <2>1, Forms, ChargeKeeps, ChargeFits
  <2>2. CASE PruneStep(c)
    BY <1>1, <2>2, Forms, PruneKeeps, FewerFit
  <2> QED
    BY <1>1, <2>1, <2>2, Forms
<1>2. ASSUME NEW c \in Calls, ReadClock(c) PROVE LimiterInv'
  <2>1. PICK k \in Keys, v \in Values \cup {None} :
          call' = [call EXCEPT ![c] = [key |-> k, value |-> v, at |-> clock,
                                       verdict |-> "clocked", behind |-> {}]]
    BY <1>2 DEF ReadClock
  <2>2. call[c].verdict = "idle" /\ UNCHANGED <<kind, clock, late, latest, table, lastCleanup>>
    BY <1>2 DEF ReadClock
  <2>3. /\ call'[c] = [key |-> k, value |-> v, at |-> clock,
                       verdict |-> "clocked", behind |-> {}]
        /\ \A d \in Calls \ {c} : call'[d] = call[d]
    BY <2>1 DEF CallsInv, LimiterTypeOK
  <2>4. clock \in Nat
    BY LimiterAssumption DEF CallsInv, LimiterTypeOK
  <2>5. LimiterTypeOK'
    <3>1. call'[c] \in Outcomes
      BY <2>3, <2>4 DEF Outcomes, Verdicts
    <3> QED
      BY <2>1, <2>2, <2>3, <3>1 DEF CallsInv, LimiterTypeOK, Outcomes
  <2>6. \A j \in Keys : c \notin table[j]
    BY <2>2 DEF CallsInv, Charged
  <2>7. CallsInv'
    <3>1. \A d \in Calls : call'[d].verdict \in {"clocked", "charged"} => call'[d].key \in Keys
      BY <2>3 DEF CallsInv
    <3>2. ASSUME NEW j \in Keys, NEW e \in table'[j]
          PROVE  call'[e].verdict = "charged" /\ call'[e].key = j
      <4>1. e \in table[j] /\ e \in Calls /\ e # c
        BY <2>2, <2>6 DEF CallsInv, LimiterTypeOK
      <4> QED
        BY <2>3, <4>1 DEF CallsInv, Charged
    <3> QED
      BY <2>5, <3>1, <3>2 DEF CallsInv, Charged
  <2>8. \A d \in Calls : Charged(d)' => call'[d] = call[d]
    BY <2>3 DEF Charged
  <2>9. PrunedInv'
    BY <2>2, <2>8 DEF PrunedInv, Charged
  <2>10. CleanInv'
    BY <2>2, <2>3, <2>6 DEF CleanInv, CallsInv, LimiterTypeOK
  <2> QED
    BY <2>2, <2>7, <2>8, <2>9, <2>10, FewerFit
<1>3. ASSUME NEW k \in Keys, Clear(k) PROVE LimiterInv'
  <2>1. /\ table' = [table EXCEPT ![k] = {}]
        /\ \A d \in Calls : call'[d] = IF Charged(d) /\ call[d].key = k
                                       THEN Blank("free") ELSE call[d]
        /\ UNCHANGED <<kind, clock, late, latest, lastCleanup>>
    BY <1>3 DEF Clear, Charged
  <2>2. Blank("free") \in Outcomes /\ Blank("free").verdict = "free"
    BY DEF Blank, Outcomes, Verdicts, None
  <2>3. LimiterTypeOK'
    BY <1>3, <2>1, <2>2 DEF Clear, CallsInv, LimiterTypeOK, Outcomes
  <2>4. ASSUME NEW j \in Keys, NEW e \in table'[j]
        PROVE  j # k /\ e \in table[j] /\ e \in Calls /\ call'[e] = call[e]
    <3>1. j # k /\ e \in table[j]
      BY <2>1 DEF CallsInv, LimiterTypeOK
    <3> QED
      BY <2>1, <3>1 DEF CallsInv, LimiterTypeOK
  <2>5. \A d \in Calls : Charged(d)' => call'[d] = call[d] /\ call[d].key # k
    BY <2>1, <2>2 DEF Charged
  <2>6. CallsInv'
    <3>1. \A d \in Calls : call'[d].verdict \in {"clocked", "charged"} => call'[d].key \in Keys
      BY <2>1, <2>2 DEF CallsInv
    <3>2. \A j \in Keys : \A e \in table'[j] : call'[e].verdict = "charged" /\ call'[e].key = j
      BY <2>4 DEF CallsInv, Charged
    <3> QED
      BY <2>3, <3>1, <3>2 DEF CallsInv, Charged
  <2>7. PrunedInv'
    BY <2>1, <2>5 DEF PrunedInv, Charged, CallsInv, LimiterTypeOK
  <2>8. CleanInv'
    BY <2>1, <2>4 DEF CleanInv
  <2> QED
    BY <2>1, <2>5, <2>6, <2>7, <2>8, FewerFit
<1>4. CASE Time
  <2>1. /\ clock' = clock + 1 /\ clock < CleanupEvery + MaxClock
        /\ UNCHANGED <<kind, call, late, latest, table, lastCleanup>>
    BY <1>4 DEF Time
  <2>2. LimiterTypeOK'
    BY <2>1, LimiterAssumption DEF CallsInv, LimiterTypeOK
  <2> QED
    BY <2>1, <2>2, FewerFit DEF CallsInv, PrunedInv, CleanInv, Charged
<1>5. CASE UNCHANGED limiterVars
  BY <1>5, FewerFit DEF limiterVars, CallsInv, LimiterTypeOK, PrunedInv, CleanInv, Charged
<1> QED
  BY <1>1, <1>2, <1>3, <1>4, <1>5 DEF LimiterNext

\* The invariant holds throughout; the gate's steps leave the limiter alone.
LEMMA LimiterInvariant == FrontSpec => []LimiterInv
<1>1. FrontInit => LimiterInv
  <2> SUFFICES ASSUME FrontInit PROVE LimiterInv
    OBVIOUS
  <2>1. Blank("idle") \in Outcomes /\ Blank("idle").verdict = "idle"
    BY DEF Blank, Outcomes, Verdicts, None
  <2>2. CallsInv
    BY <2>1, LimiterAssumption
    DEF FrontInit, LimiterInit, CallsInv, LimiterTypeOK, Outcomes, Charged
  <2>3. PrunedInv /\ CleanInv
    BY <2>1 DEF FrontInit, LimiterInit, PrunedInv, CleanInv, Charged
  <2>4. WindowBounded
    <3>1. \A k, t : InWindow(k, t) = {}
      BY <2>1 DEF FrontInit, LimiterInit, InWindow, ChargedTo
    <3> QED
      BY <3>1, FS_EmptySet, LimiterAssumption DEF WindowBounded, InWindow
  <2> QED
    BY <2>2, <2>3, <2>4 DEF LimiterInv
<1>2. [FrontNext]_frontVars => [LimiterNext]_limiterVars
  BY DEF FrontNext, frontVars
<1> QED
  BY <1>1, <1>2, LimiterStep, PTL DEF FrontSpec

\* No window holds more than Limit calls of a key, evictions, cleanups, clocks
\* that overtake each other and any numbers of keys and values notwithstanding.
THEOREM WindowBoundedTheorem == FrontSpec => []WindowBounded
<1>1. LimiterInv => WindowBounded
  BY DEF LimiterInv
<1> QED
  BY <1>1, LimiterInvariant, PTL

-----------------------------------------------------------------------------
(* Refusals. *)

\* The charges RefusesForCause counts as recent for a call.
Recent(c) == ChargedTo(call[c].key, call[c].at - Window)

\* The keys whose charges may still fill the table.
Pressing(c) ==
  {k \in Keys \ {call[c].key} :
     \/ ChargedTo(k, call[c].at - Window - CleanupEvery + 1) # {}
     \/ ChargedTo(k, 0) \cap late # {}}

\* What is found for the key was charged to it, in the window.
LEMMA KeptAreRecent ==
  ASSUME CallsInv, NEW c \in Calls, call[c].verdict = "clocked"
  PROVE  Kept(c) \subseteq Recent(c)
<1>1. call[c].key \in Keys /\ call[c].at \in Nat
  BY DEF CallsInv, LimiterTypeOK
<1>2. Kept(c) \subseteq {e \in table[call[c].key] : call[e].at >= call[c].at - Window}
  BY <1>1, CleanedTable DEF CallsInv, Kept, Fresh
<1> QED
  BY <1>1, <1>2 DEF CallsInv, Charged, Recent, ChargedTo, LimiterTypeOK

\* A key that is full was charged Limit times.
LEMMA FullKey ==
  ASSUME CallsInv, NEW c \in Calls, call[c].verdict = "clocked",
         Cardinality(Kept(c)) >= Limit
  PROVE  Cardinality(Recent(c)) >= Limit
<1>1. IsFiniteSet(Recent(c))
  <2>1. Recent(c) \subseteq Calls
    BY DEF Recent, ChargedTo
  <2> QED
    BY <2>1, CallsFinite, FS_Subset
<1>2. /\ Cardinality(Kept(c)) <= Cardinality(Recent(c))
      /\ Cardinality(Kept(c)) \in Nat /\ Cardinality(Recent(c)) \in Nat
  BY <1>1, KeptAreRecent, FS_Subset, FS_CardinalityType
<1> QED
  BY <1>2, LimiterAssumption

\* A table that is full without the key is filled by charges that still press.
LEMMA FullTable ==
  ASSUME CallsInv, CleanInv, NEW c \in Calls, call[c].verdict = "clocked", Kept(c) = {},
         Full([Cleaned(call[c].at) EXCEPT ![call[c].key] = Kept(c)])
  PROVE  Cardinality(Pressing(c)) >= MaxKeys
<1> DEFINE k == call[c].key
           now == call[c].at
           t == [Cleaned(now) EXCEPT ![k] = Kept(c)]
<1>1. k \in Keys /\ now \in Nat /\ lastCleanup \in Nat
  BY DEF CallsInv, LimiterTypeOK
<1>2. Window \in Nat /\ CleanupEvery \in Nat \ {0} /\ MaxKeys \in Nat
  BY LimiterAssumption
<1>3. ASSUME NEW j \in Stored(t) PROVE j \in Pressing(c)
  <2>1. j \in Keys \ {k} /\ Cleaned(now)[j] # {}
    BY <1>1, <1>3, CleanedTable DEF Stored, CallsInv
  <2>2. PICK e \in Cleaned(now)[j] : TRUE
    BY <2>1
  <2>3. e \in table[j] /\ e \in Calls /\ Charged(e) /\ call[e].key = j /\ call[e].at \in Nat
    BY <1>1, <2>1, CleanedTable DEF CallsInv, LimiterTypeOK
  <2>4. e \in late \/ call[e].at >= lastCleanup - Window
    BY <2>1, <2>3 DEF CleanInv
  <2>5. now - lastCleanup >= CleanupEvery => call[e].at >= now - Window
    BY <1>1, <2>1, CleanedTable DEF CallsInv
  <2>6. e \in late \/ call[e].at >= now - Window - CleanupEvery + 1
    BY <1>1, <1>2, <2>3, <2>4, <2>5
  <2> QED
    BY <2>1, <2>3, <2>6 DEF Pressing, ChargedTo, Charged
<1>4. IsFiniteSet(Pressing(c))
  <2>1. Pressing(c) \subseteq Keys /\ IsFiniteSet(Keys)
    BY LimiterAssumption DEF Pressing
  <2> QED
    BY <2>1, FS_Subset
<1>5. Stored(t) \subseteq Pressing(c)
  BY <1>3
<1>6. /\ Cardinality(Stored(t)) <= Cardinality(Pressing(c))
      /\ Cardinality(Stored(t)) \in Nat /\ Cardinality(Pressing(c)) \in Nat
  BY <1>4, <1>5, FS_Subset, FS_CardinalityType
<1> QED
  BY <1>2, <1>6 DEF Full

\* A value that is not known is not among the recent ones, for a call in time.
LEMMA UnknownIsNew ==
  ASSUME CallsInv, PrunedInv, NEW c \in Calls, call[c].verdict = "clocked",
         call[c].at >= latest, ~\E e \in Kept(c) : call[e].value = call[c].value
  PROVE  \A d \in Recent(c) : call[d].value # call[c].value
<1> SUFFICES ASSUME NEW d \in Recent(c) PROVE d \in Kept(c)
  OBVIOUS
<1>1. /\ d \in Calls /\ Charged(d) /\ call[d].key = call[c].key /\ call[d].at \in Nat
      /\ call[d].at >= call[c].at - Window
      /\ call[c].key \in Keys /\ call[c].at \in Nat /\ latest \in Nat
  BY DEF Recent, ChargedTo, Charged, CallsInv, LimiterTypeOK
<1>2. d \in table[call[c].key]
  BY <1>1, LimiterAssumption DEF PrunedInv
<1> QED
  BY <1>1, <1>2, CleanedTable DEF CallsInv, Kept, Fresh

\* A refusal has its cause: the limit of its key, or a table filled by others.
LEMMA RefusalStep ==
  ASSUME LimiterInv, [LimiterNext]_limiterVars, NEW c \in Calls,
         call[c].verdict = "clocked", call'[c].verdict = "refused"
  PROVE  \/ /\ Cardinality(Recent(c)) >= Limit
            /\ kind = "distinct" /\ call[c].at >= latest
                 => \A d \in Recent(c) : call[d].value # call[c].value
         \/ kind = "refusing" /\ Cardinality(Pressing(c)) >= MaxKeys
<1> USE DEF LimiterInv
<1>1. RecordFailure(c) \/ IsLimited(c) \/ RecordDistinct(c)
  <2>1. ASSUME NEW d \in Calls, RecordFailure(d) \/ IsLimited(d) \/ RecordDistinct(d), d # c
        PROVE  FALSE
    <3>1. \/ call'[c] = call[c]
          \/ call'[c] = Blank("free")
      <4>1. \E outcome, forgotten : Decided(d, outcome, forgotten)
        BY <2>1, Forms DEF ChargeStep, PruneStep, Charge, Settle
      <4> QED
        BY <2>1, <4>1 DEF Decided
    <3> QED
      BY <3>1 DEF Blank
  <2>2. ASSUME NEW d \in Calls, ReadClock(d) PROVE FALSE
    <3>1. call'[c] = call[c] \/ call'[c].verdict = "clocked"
      BY <2>2 DEF ReadClock, CallsInv, LimiterTypeOK
    <3> QED
      BY <3>1
  <2>3. ASSUME NEW k \in Keys, Clear(k) PROVE FALSE
    <3>1. call'[c] = call[c] \/ call'[c] = Blank("free")
      BY <2>3 DEF Clear
    <3> QED
      BY <3>1 DEF Blank
  <2>4. ~Time /\ ~UNCHANGED limiterVars
    BY DEF Time, limiterVars
  <2> QED
    BY <2>1, <2>2, <2>3, <2>4 DEF LimiterNext
<1>2. ~\E events, forgotten : Charge(c, events, forgotten)
  <2> SUFFICES ASSUME NEW events, NEW forgotten, Charge(c, events, forgotten) PROVE FALSE
    OBVIOUS
  <2>1. call'[c] = [call[c] EXCEPT !.verdict = "charged", !.behind = events]
    BY DEF Charge, Decided
  <2>2. call[c] \in Outcomes
    BY DEF CallsInv, LimiterTypeOK, Outcomes
  <2> QED
    BY <2>1, <2>2 DEF Outcomes
<1>3. ~Settle(c, "free")
  BY DEF Settle, Decided, Blank
<1>4. call[c].at \in Nat /\ call[c].key \in Keys
  BY DEF CallsInv, LimiterTypeOK
<1>5. CASE RecordFailure(c)
  <2>1. /\ kind # "distinct"
        /\ \/ Cardinality(Kept(c)) >= Limit
           \/ /\ Kept(c) = {} /\ kind = "refusing"
              /\ Full([Cleaned(call[c].at) EXCEPT ![call[c].key] = Kept(c)])
    BY <1>2, <1>5 DEF RecordFailure, Kept
  <2> QED
    BY <2>1, FullKey, FullTable
<1>6. CASE IsLimited(c)
  <2>1. /\ kind # "distinct"
        /\ \/ Cardinality(Kept(c)) >= Limit
           \/ /\ Kept(c) = {} /\ kind = "refusing"
              /\ Full([Cleaned(call[c].at) EXCEPT ![call[c].key] = Kept(c)])
    BY <1>3, <1>6 DEF IsLimited, Kept
  <2> QED
    BY <2>1, FullKey, FullTable
<1>7. CASE RecordDistinct(c)
  <2>1. /\ Cardinality(Kept(c)) >= Limit
        /\ ~\E e \in Kept(c) : call[e].value = call[c].value
    BY <1>2, <1>3, <1>7 DEF RecordDistinct, Kept
  <2>2. Cardinality(Recent(c)) >= Limit
    BY <2>1, FullKey
  <2>3. call[c].at >= latest => \A d \in Recent(c) : call[d].value # call[c].value
    BY <2>1, UnknownIsNew
  <2> QED
    BY <2>2, <2>3
<1> QED
  BY <1>1, <1>5, <1>6, <1>7

\* A call is refused for the charges of its own key or, where nothing may be
\* evicted, for those of other keys that a cleanup could not have dropped yet.
THEOREM RefusesForCauseTheorem == FrontSpec => RefusesForCause
<1>1. LimiterInv /\ [LimiterNext]_limiterVars =>
        \A c \in Calls : call[c].verdict = "clocked" /\ call'[c].verdict = "refused" =>
          \/ /\ Cardinality(Recent(c)) >= Limit
             /\ kind = "distinct" /\ call[c].at >= latest
                  => \A d \in Recent(c) : call[d].value # call[c].value
          \/ kind = "refusing" /\ Cardinality(Pressing(c)) >= MaxKeys
  BY RefusalStep
<1>2. [FrontNext]_frontVars => [LimiterNext]_limiterVars
  BY DEF FrontNext, frontVars
<1>3. LimiterInv /\ [FrontNext]_frontVars =>
        [\A c \in Calls : call[c].verdict = "clocked" /\ call'[c].verdict = "refused" =>
           LET recent == ChargedTo(call[c].key, call[c].at - Window)
           IN \/ /\ Cardinality(recent) >= Limit
                 /\ kind = "distinct" /\ call[c].at >= latest
                      => \A d \in recent : call[d].value # call[c].value
              \/ /\ kind = "refusing"
                 /\ Cardinality({k \in Keys \ {call[c].key} :
                      \/ ChargedTo(k, call[c].at - Window - CleanupEvery + 1) # {}
                      \/ ChargedTo(k, 0) \cap late # {}}) >= MaxKeys]_limiterVars
  BY <1>1, <1>2 DEF Recent, Pressing
<1> QED
  BY <1>3, LimiterInvariant, PTL DEF FrontSpec, RefusesForCause
=============================================================================
