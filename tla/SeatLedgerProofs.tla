--------------------------- MODULE SeatLedgerProofs ---------------------------
(***************************************************************************)
(* Proofs about SeatLedger, for every roster, structure and capacity.      *)
(***************************************************************************)
EXTENDS SeatLedger, FiniteSetTheorems, TLAPS

-----------------------------------------------------------------------------
(* Counting selections. *)

\* The selections of a group, and of a major in it, are finitely many.
LEMMA HeldFinite ==
  ASSUME IsFiniteSet(live)
  PROVE  \A g, m :
           /\ IsFiniteSet(HeldIn(g)) /\ Cardinality(HeldIn(g)) \in Nat
           /\ IsFiniteSet(Held(m, g)) /\ Cardinality(Held(m, g)) \in Nat
<1> SUFFICES ASSUME NEW g, NEW m
             PROVE  /\ IsFiniteSet(HeldIn(g)) /\ Cardinality(HeldIn(g)) \in Nat
                    /\ IsFiniteSet(Held(m, g)) /\ Cardinality(Held(m, g)) \in Nat
  OBVIOUS
<1>1. HeldIn(g) \in SUBSET live /\ Held(m, g) \in SUBSET live
  BY DEF HeldIn, Held
<1>2. IsFiniteSet(HeldIn(g)) /\ IsFiniteSet(Held(m, g))
  BY <1>1, FS_Subset
<1> QED
  BY <1>2, FS_CardinalityType

\* A share of n seats gives every major a number of seats.
LEMMA ShareIsNatural ==
  ASSUME NEW n \in Nat, NEW weight, NEW share \in Shares(n, weight)
  PROVE  share \in [Majors -> Nat]
<1> DEFINE total == SumFunctionOnSet(weight, majors)
<1>1. CASE total = 0
  BY <1>1 DEF Shares
<1>2. CASE total # 0
  <2>1. share \in [Majors -> 0..n]
    BY <1>2 DEF Shares
  <2> QED
    BY <2>1
<1> QED
  BY <1>1, <1>2

-----------------------------------------------------------------------------
(* Types and referential integrity. *)

TypeInv == TypeOK /\ IsFiniteSet(live)

LEMMA RebalanceType ==
  ASSUME TypeInv, NEW g \in groups, NEW c \in Nat, c >= Cardinality(HeldIn(g)),
         Rebalance(g, c)
  PROVE  /\ quota' \in [Majors -> [Groups -> Nat \cup {NoRow}]]
         /\ capacity' \in [Groups -> Nat]
         /\ \A m \in Majors : quota'[m][g] = NoRow <=> m \notin majors
         /\ \A m \in majors : quota'[m][g] >= Cardinality(Held(m, g))
         /\ \A m \in Majors, h \in Groups \ {g} : quota'[m][h] = quota[m][h]
<1> DEFINE free == c - Cardinality(HeldIn(g))
<1>1. free \in Nat
  BY HeldFinite DEF TypeInv
<1>2. PICK share \in Shares(free, Weights(g)) :
        quota' = [m \in Majors |->
                    [quota[m] EXCEPT ![g] = IF m \in majors
                                            THEN Cardinality(Held(m, g)) + share[m]
                                            ELSE NoRow]]
  BY DEF Rebalance
<1>3. share \in [Majors -> Nat]
  BY <1>1, <1>2, ShareIsNatural
<1>4. \A m \in Majors : Cardinality(Held(m, g)) \in Nat
  BY HeldFinite DEF TypeInv
<1>5. capacity' \in [Groups -> Nat]
  BY DEF Rebalance, TypeInv, TypeOK
<1>6. quota \in [Majors -> [Groups -> Nat \cup {NoRow}]] /\ majors \subseteq Majors /\ g \in Groups
  BY DEF TypeInv, TypeOK
<1> HIDE DEF free
<1>7. \A m \in Majors : quota'[m] \in [Groups -> Nat \cup {NoRow}]
  BY <1>2, <1>3, <1>4, <1>6
<1>8. quota' \in [Majors -> [Groups -> Nat \cup {NoRow}]]
  BY <1>2, <1>7
<1>9. \A m \in Majors :
        quota'[m][g] = IF m \in majors THEN Cardinality(Held(m, g)) + share[m] ELSE NoRow
  BY <1>2, <1>6
<1>10. \A m \in Majors, h \in Groups \ {g} : quota'[m][h] = quota[m][h]
  BY <1>2, <1>6
<1> QED
  BY <1>3, <1>4, <1>5, <1>6, <1>8, <1>9, <1>10 DEF NoRow

LEMMA TypeInit == Init => TypeInv
<1> SUFFICES ASSUME Init PROVE TypeInv
  OBVIOUS
<1>1. PICK seeded \in BOOLEAN :
        /\ majors = IF seeded THEN Majors ELSE {}
        /\ activeMajors = majors
        /\ groups = IF seeded THEN Groups ELSE {}
        /\ activeGroups = groups
        /\ capacity = [g \in Groups |-> IF seeded THEN SeedCapacity ELSE 0]
        /\ quota = [m \in Majors |-> [g \in Groups |->
                      IF seeded THEN SeedQuota[m][g] ELSE NoRow]]
  BY DEF Init
<1>2. capacity \in [Groups -> Nat]
  BY <1>1, LedgerAssumption
<1>3. \A m \in Majors, g \in Groups : SeedQuota[m][g] \in Nat
  BY LedgerAssumption
<1>4. quota \in [Majors -> [Groups -> Nat \cup {NoRow}]]
  BY <1>1, <1>3
<1>5. IsFiniteSet(live)
  BY FS_EmptySet DEF Init
<1> QED
  BY <1>1, <1>2, <1>4, <1>5, LedgerAssumption DEF Init, TypeInv, TypeOK, NoTime

LEMMA TypeStep == TypeInv /\ [Next]_vars => TypeInv'
<1> SUFFICES ASSUME TypeInv, [Next]_vars PROVE TypeInv'
  OBVIOUS
<1> USE DEF TypeInv, TypeOK
<1>1. ASSUME NEW m \in Majors, CreateMajor(m) PROVE TypeInv'
  <2>1. quota' \in [Majors -> [Groups -> Nat \cup {NoRow}]]
    BY <1>1 DEF CreateMajor, ZeroRow
  <2> QED
    BY <1>1, <2>1 DEF CreateMajor, roster, ledger, activity
<1>2. ASSUME NEW m \in Majors, EnableMajor(m) \/ DisableMajor(m) PROVE TypeInv'
  BY <1>2 DEF EnableMajor, DisableMajor, roster, ledger, activity
<1>3. ASSUME NEW m \in Majors, DeleteMajor(m) PROVE TypeInv'
  <2>1. quota' \in [Majors -> [Groups -> Nat \cup {NoRow}]]
    BY <1>3 DEF DeleteMajor
  <2> QED
    BY <1>3, <2>1 DEF DeleteMajor, roster, ledger, activity
<1>4. ASSUME NEW g \in Groups, NEW c \in 0..MaxCapacity, CreateGroup(g, c) PROVE TypeInv'
  <2>1. c \in Nat
    BY LedgerAssumption
  <2>2. \A m \in Majors : quota'[m] \in [Groups -> Nat \cup {NoRow}]
    BY <1>4 DEF CreateGroup
  <2>3. quota' \in [Majors -> [Groups -> Nat \cup {NoRow}]]
    BY <1>4, <2>2 DEF CreateGroup
  <2> QED
    BY <1>4, <2>1, <2>3 DEF CreateGroup, roster, ledger, activity
<1>5. ASSUME NEW g \in Groups, NEW c \in 0..MaxCapacity, NEW active \in BOOLEAN,
             UpdateGroup(g, c, active)
      PROVE TypeInv'
  <2>1. /\ quota' \in [Majors -> [Groups -> Nat \cup {NoRow}]]
        /\ capacity' \in [Groups -> Nat]
    <3>1. CASE c = capacity[g]
      BY <1>5, <3>1 DEF UpdateGroup
    <3>2. CASE c # capacity[g]
      BY <1>5, <3>2, RebalanceType, LedgerAssumption DEF UpdateGroup
    <3> QED
      BY <3>1, <3>2
  <2> QED
    BY <1>5, <2>1 DEF UpdateGroup, roster, ledger, activity
<1>6. ASSUME NEW g \in Groups, DeleteGroup(g) PROVE TypeInv'
  <2>1. \A m \in Majors : quota'[m] \in [Groups -> Nat \cup {NoRow}]
    BY <1>6 DEF DeleteGroup
  <2>2. quota' \in [Majors -> [Groups -> Nat \cup {NoRow}]]
    BY <1>6, <2>1 DEF DeleteGroup
  <2>3. capacity' \in [Groups -> Nat]
    BY <1>6 DEF DeleteGroup
  <2>4. \A p \in live \cup revoked : p[2] \in groups \ {g}
    BY <1>6 DEF DeleteGroup, InUse
  <2>5. /\ live \subseteq {s \in Students : majorOf[s] # NoMajor} \X (groups \ {g})
        /\ revoked \subseteq {s \in Students : majorOf[s] # NoMajor} \X (groups \ {g})
    BY <2>4
  <2> QED
    BY <1>6, <2>2, <2>3, <2>5 DEF DeleteGroup, roster, ledger, activity
<1>7. ASSUME NEW desired \in QuotaRequests, UpdateQuotas(desired) PROVE TypeInv'
  <2>1. \A cell \in DOMAIN desired : desired[cell] \in Nat
    BY LedgerAssumption DEF QuotaRequests
  <2>2. \A m \in Majors : quota'[m] \in [Groups -> Nat \cup {NoRow}]
    BY <1>7, <2>1 DEF UpdateQuotas, QuotasAllowed
  <2>3. quota' \in [Majors -> [Groups -> Nat \cup {NoRow}]]
    BY <1>7, <2>2 DEF UpdateQuotas, QuotasAllowed
  <2> QED
    BY <1>7, <2>3 DEF UpdateQuotas, roster, ledger, activity
<1>8. ASSUME NEW file \in [Students -> Majors \cup {NoMajor}], NEW mode \in {"merge", "sync"},
             ImportStudents(file, mode)
      PROVE TypeInv'
  <2> DEFINE listed == {s \in Students : file[s] # NoMajor}
  <2> DEFINE named == {file[s] : s \in listed}
  <2>1. named \subseteq Majors
    BY LedgerAssumption
  <2>2. \A m \in Majors : quota'[m] \in [Groups -> Nat \cup {NoRow}]
    BY <1>8 DEF ImportStudents, ZeroRow
  <2>3. quota' \in [Majors -> [Groups -> Nat \cup {NoRow}]]
    BY <1>8, <2>2 DEF ImportStudents
  <2>4. majorOf' \in [Students -> majors' \cup {NoMajor}]
    BY <1>8 DEF ImportStudents
  <2>5. \A s \in Students : majorOf[s] # NoMajor => majorOf'[s] # NoMajor
    BY <1>8, LedgerAssumption DEF ImportStudents
  <2>6. activeStudents' \subseteq {s \in Students : majorOf'[s] # NoMajor}
    BY <1>8, <2>5 DEF ImportStudents
  <2>7. /\ live \subseteq {s \in Students : majorOf'[s] # NoMajor} \X groups
        /\ revoked \subseteq {s \in Students : majorOf'[s] # NoMajor} \X groups
    BY <2>5
  <2> QED
    BY <1>8, <2>1, <2>3, <2>4, <2>6, <2>7 DEF ImportStudents, ledger, activity
<1>9. CASE StartCountdown \/ Close
  BY <1>9, LedgerAssumption DEF StartCountdown, Close, structure, roster, ledger, NoTime
<1>10. CASE Tick
  BY <1>10 DEF Tick, structure, roster, ledger, NoTime
<1>11. ASSUME NEW copy \in BOOLEAN, CreateActivity(copy) PROVE TypeInv'
  <2>1. /\ majors' \subseteq Majors /\ activeMajors' \subseteq majors'
        /\ groups' \subseteq Groups /\ activeGroups' \subseteq groups'
        /\ capacity' \in [Groups -> Nat]
        /\ quota' \in [Majors -> [Groups -> Nat \cup {NoRow}]]
    BY <1>11 DEF CreateActivity, structure
  <2> QED
    BY <1>11, <2>1, FS_EmptySet DEF CreateActivity
<1>12. ASSUME NEW set \in BOOLEAN, SetOrigin(set) PROVE TypeInv'
  BY <1>12 DEF SetOrigin, structure, roster, ledger, activity
<1>13. ASSUME NEW s \in Students, NEW g \in Groups, Select(s, g) \/ AdminAssign(s, g)
       PROVE TypeInv'
  <2>1. ClaimSeat(s, g)
    BY <1>13 DEF Select, AdminAssign
  <2>2. IsFiniteSet(live')
    BY <2>1, FS_AddElement DEF ClaimSeat
  <2> QED
    BY <2>1, <2>2 DEF ClaimSeat, structure, roster, activity
<1>14. ASSUME NEW p \in live, RevokeSelection(p) PROVE TypeInv'
  <2>1. IsFiniteSet(live')
    BY <1>14, FS_RemoveElement DEF RevokeSelection
  <2> QED
    BY <1>14, <2>1 DEF RevokeSelection, structure, roster, activity
<1>15. CASE UNCHANGED vars
  BY <1>15 DEF vars, structure, roster, ledger, activity
<1> QED
  BY <1>1, <1>2, <1>3, <1>4, <1>5, <1>6, <1>7, <1>8, <1>9, <1>10, <1>11, <1>12, <1>13,
     <1>14, <1>15
  DEF Next, EditStructure, EditRoster, RunActivity, ChangeLedger

\* Types and referential integrity hold in every reachable state: flags,
\* selections and students only ever name rows that exist.
THEOREM TypeCorrect == Spec => []TypeOK
<1>1. Spec => []TypeInv
  BY TypeInit, TypeStep, PTL DEF Spec
<1> QED
  BY <1>1, PTL DEF TypeInv

-----------------------------------------------------------------------------
(* The quota matrix has exactly the cells of the rows there are. *)

LEMMA QuotaRowsInit == Init => QuotaRows
<1> SUFFICES ASSUME Init PROVE QuotaRows
  OBVIOUS
<1>1. PICK seeded \in BOOLEAN :
        /\ majors = IF seeded THEN Majors ELSE {}
        /\ groups = IF seeded THEN Groups ELSE {}
        /\ quota = [m \in Majors |-> [g \in Groups |->
                      IF seeded THEN SeedQuota[m][g] ELSE NoRow]]
  BY DEF Init
<1>2. \A m \in Majors, g \in Groups : SeedQuota[m][g] \in Nat
  BY LedgerAssumption
<1> QED
  BY <1>1, <1>2 DEF QuotaRows, NoRow

LEMMA QuotaRowsStep == TypeInv /\ QuotaRows /\ [Next]_vars => QuotaRows'
<1> SUFFICES ASSUME TypeInv, QuotaRows, [Next]_vars PROVE QuotaRows'
  OBVIOUS
<1> USE DEF TypeInv, TypeOK, QuotaRows
<1>1. ASSUME NEW m \in Majors, CreateMajor(m) PROVE QuotaRows'
  BY <1>1 DEF CreateMajor, ZeroRow, NoRow
<1>2. ASSUME NEW m \in Majors, EnableMajor(m) \/ DisableMajor(m) PROVE QuotaRows'
  BY <1>2 DEF EnableMajor, DisableMajor
<1>3. ASSUME NEW m \in Majors, DeleteMajor(m) PROVE QuotaRows'
  BY <1>3 DEF DeleteMajor
<1>4. ASSUME NEW g \in Groups, NEW c \in 0..MaxCapacity, CreateGroup(g, c) PROVE QuotaRows'
  BY <1>4 DEF CreateGroup, NoRow
<1>5. ASSUME NEW g \in Groups, NEW c \in 0..MaxCapacity, NEW active \in BOOLEAN,
             UpdateGroup(g, c, active)
      PROVE QuotaRows'
  <2>1. majors' = majors /\ groups' = groups /\ g \in groups
    BY <1>5 DEF UpdateGroup
  <2>2. CASE c = capacity[g]
    BY <1>5, <2>1, <2>2 DEF UpdateGroup
  <2>3. CASE c # capacity[g]
    <3>1. /\ \A m \in Majors : quota'[m][g] = NoRow <=> m \notin majors
          /\ \A m \in Majors, h \in Groups \ {g} : quota'[m][h] = quota[m][h]
      BY <1>5, <2>3, RebalanceType, LedgerAssumption DEF UpdateGroup
    <3> QED
      BY <2>1, <3>1
  <2> QED
    BY <2>2, <2>3
<1>6. ASSUME NEW g \in Groups, DeleteGroup(g) PROVE QuotaRows'
  BY <1>6 DEF DeleteGroup
<1>7. ASSUME NEW desired \in QuotaRequests, UpdateQuotas(desired) PROVE QuotaRows'
  <2>1. \A cell \in DOMAIN desired : desired[cell] \in Nat
    BY LedgerAssumption DEF QuotaRequests
  <2>2. ASSUME NEW m \in Majors, NEW g \in Groups
        PROVE  quota'[m][g] = NoRow <=> quota[m][g] = NoRow
    <3>1. CASE <<m, g>> \in DOMAIN desired
      <4>1. quota[m][g] # NoRow
        BY <1>7, <3>1 DEF UpdateQuotas, QuotasAllowed
      <4>2. quota'[m][g] = desired[<<m, g>>]
        BY <1>7, <3>1 DEF UpdateQuotas, QuotasAllowed
      <4> QED
        BY <2>1, <3>1, <4>1, <4>2 DEF NoRow
    <3>2. CASE <<m, g>> \notin DOMAIN desired
      BY <1>7, <3>2 DEF UpdateQuotas, QuotasAllowed
    <3> QED
      BY <3>1, <3>2
  <2> QED
    BY <1>7, <2>2 DEF UpdateQuotas, QuotasAllowed
<1>8. ASSUME NEW file \in [Students -> Majors \cup {NoMajor}], NEW mode \in {"merge", "sync"},
             ImportStudents(file, mode)
      PROVE QuotaRows'
  BY <1>8 DEF ImportStudents, ZeroRow, NoRow
<1>9. CASE StartCountdown \/ Close \/ Tick
  BY <1>9 DEF StartCountdown, Close, Tick, structure
<1>10. ASSUME NEW copy \in BOOLEAN, CreateActivity(copy) PROVE QuotaRows'
  BY <1>10 DEF CreateActivity, structure
<1>11. ASSUME NEW set \in BOOLEAN, SetOrigin(set) PROVE QuotaRows'
  BY <1>11 DEF SetOrigin, structure
<1>12. ASSUME NEW s \in Students, NEW g \in Groups, Select(s, g) \/ AdminAssign(s, g)
       PROVE QuotaRows'
  BY <1>12 DEF Select, AdminAssign, ClaimSeat, structure
<1>13. ASSUME NEW p \in live, RevokeSelection(p) PROVE QuotaRows'
  BY <1>13 DEF RevokeSelection, structure
<1>14. CASE UNCHANGED vars
  BY <1>14 DEF vars, structure
<1> QED
  BY <1>1, <1>2, <1>3, <1>4, <1>5, <1>6, <1>7, <1>8, <1>9, <1>10, <1>11, <1>12, <1>13, <1>14
  DEF Next, EditStructure, EditRoster, RunActivity, ChangeLedger

-----------------------------------------------------------------------------
(* One active selection for each student. *)

LEMMA OneSelectionStep == OneSelectionEach /\ [Next]_vars => OneSelectionEach'
<1> SUFFICES ASSUME OneSelectionEach, [Next]_vars PROVE OneSelectionEach'
  OBVIOUS
<1> USE DEF OneSelectionEach
<1>1. ASSUME live' \subseteq live PROVE OneSelectionEach'
  BY <1>1
<1>2. CASE EditStructure
  <2>1. UNCHANGED live
    BY <1>2 DEF EditStructure, CreateMajor, EnableMajor, DisableMajor, DeleteMajor,
                CreateGroup, UpdateGroup, DeleteGroup, UpdateQuotas, ledger
  <2> QED
    BY <1>1, <2>1
<1>3. CASE EditRoster
  <2>1. UNCHANGED live
    BY <1>3 DEF EditRoster, ImportStudents, ledger
  <2> QED
    BY <1>1, <2>1
<1>4. CASE RunActivity
  <2>1. live' \subseteq live
    BY <1>4 DEF RunActivity, StartCountdown, Close, Tick, CreateActivity, SetOrigin, ledger
  <2> QED
    BY <1>1, <2>1
<1>5. ASSUME NEW s \in Students, NEW g \in Groups, Select(s, g) \/ AdminAssign(s, g)
      PROVE OneSelectionEach'
  BY <1>5 DEF Select, AdminAssign, ClaimSeat, HasSelection
<1>6. ASSUME NEW p \in live, RevokeSelection(p) PROVE OneSelectionEach'
  BY <1>1, <1>6 DEF RevokeSelection
<1>7. CASE UNCHANGED vars
  BY <1>1, <1>7 DEF vars, ledger
<1> QED
  BY <1>2, <1>3, <1>4, <1>5, <1>6, <1>7 DEF Next, ChangeLedger

\* No student ever holds two active selections, whatever mixture of claims,
\* back-fills, revocations and imports came before.
THEOREM OneSelectionTheorem == Spec => []OneSelectionEach
<1>1. Init => OneSelectionEach
  BY DEF Init, OneSelectionEach
<1> QED
  BY <1>1, OneSelectionStep, PTL DEF Spec

-----------------------------------------------------------------------------
(* Active selections keep everything they refer to. *)

LEMMA SelectionsStandStep ==
  TypeInv /\ QuotaRows /\ QuotaRows' /\ SelectionsStand /\ [Next]_vars => SelectionsStand'
<1> SUFFICES ASSUME TypeInv, QuotaRows, QuotaRows', SelectionsStand, [Next]_vars
             PROVE SelectionsStand'
  OBVIOUS
<1>1. \A p \in live : /\ p[1] \in Students /\ p[2] \in groups
                      /\ majorOf[p[1]] \in majors /\ majorOf[p[1]] # NoMajor
  BY DEF TypeInv, TypeOK
<1> DEFINE Stands(p) == /\ p[1] \in activeStudents'
                        /\ majorOf'[p[1]] \in activeMajors'
                        /\ p[2] \in activeGroups'
                        /\ majorOf'[p[1]] \in majors' /\ p[2] \in groups'
\* The quota cell follows from the rows.
<1>2. ASSUME \A p \in live' : Stands(p) PROVE SelectionsStand'
  <2>1. majors' \subseteq Majors /\ groups' \subseteq Groups
    BY TypeStep DEF TypeInv, TypeOK
  <2>2. \A m \in majors', g \in groups' : quota'[m][g] # NoRow
    BY <2>1 DEF QuotaRows
  <2>3. \A p \in revoked' : majorOf'[p[1]] # NoMajor /\ p[2] \in groups'
    BY TypeStep DEF TypeInv, TypeOK
  <2> QED
    BY <1>2, <2>2, <2>3 DEF SelectionsStand
<1> USE DEF SelectionsStand
<1>3. ASSUME NEW m \in Majors, CreateMajor(m) PROVE \A p \in live' : Stands(p)
  BY <1>1, <1>3 DEF CreateMajor, roster, ledger
<1>4. ASSUME NEW m \in Majors, EnableMajor(m) PROVE \A p \in live' : Stands(p)
  BY <1>1, <1>4 DEF EnableMajor, roster, ledger
<1>5. ASSUME NEW m \in Majors, DisableMajor(m) PROVE \A p \in live' : Stands(p)
  BY <1>1, <1>5 DEF DisableMajor, roster, ledger
<1>6. ASSUME NEW m \in Majors, DeleteMajor(m) PROVE \A p \in live' : Stands(p)
  BY <1>1, <1>6 DEF DeleteMajor, roster, ledger
<1>7. ASSUME NEW g \in Groups, NEW c \in 0..MaxCapacity, CreateGroup(g, c)
      PROVE \A p \in live' : Stands(p)
  BY <1>1, <1>7 DEF CreateGroup, roster, ledger
<1>8. ASSUME NEW g \in Groups, NEW c \in 0..MaxCapacity, NEW active \in BOOLEAN,
             UpdateGroup(g, c, active)
      PROVE \A p \in live' : Stands(p)
  <2>1. \A p \in live : p[2] \in activeGroups'
    BY <1>8 DEF UpdateGroup, HeldIn
  <2> QED
    BY <1>1, <1>8, <2>1 DEF UpdateGroup, roster, ledger
<1>9. ASSUME NEW g \in Groups, DeleteGroup(g) PROVE \A p \in live' : Stands(p)
  BY <1>1, <1>9 DEF DeleteGroup, InUse, roster, ledger
<1>10. ASSUME NEW desired \in QuotaRequests, UpdateQuotas(desired)
       PROVE \A p \in live' : Stands(p)
  BY <1>1, <1>10 DEF UpdateQuotas, roster, ledger
<1>11. ASSUME NEW file \in [Students -> Majors \cup {NoMajor}], NEW mode \in {"merge", "sync"},
              ImportStudents(file, mode)
       PROVE \A p \in live' : Stands(p)
  <2>1. \A p \in live : majorOf'[p[1]] = majorOf[p[1]]
    BY <1>1, <1>11 DEF ImportStudents, ImportAllowed, HasSelection
  <2>2. \A p \in live : p[1] \in activeStudents'
    BY <1>1, <1>11 DEF ImportStudents, ImportAllowed, HasSelection
  <2> QED
    BY <1>1, <1>11, <2>1, <2>2 DEF ImportStudents, ledger
<1>12. CASE StartCountdown \/ Close \/ Tick
  BY <1>1, <1>12 DEF StartCountdown, Close, Tick, structure, roster, ledger
<1>13. ASSUME NEW copy \in BOOLEAN, CreateActivity(copy) PROVE \A p \in live' : Stands(p)
  BY <1>13 DEF CreateActivity
<1>14. ASSUME NEW set \in BOOLEAN, SetOrigin(set) PROVE \A p \in live' : Stands(p)
  BY <1>1, <1>14 DEF SetOrigin, structure, roster, ledger
<1>15. ASSUME NEW s \in Students, NEW g \in Groups, Select(s, g) \/ AdminAssign(s, g)
       PROVE \A p \in live' : Stands(p)
  <2>1. ClaimSeat(s, g)
    BY <1>15 DEF Select, AdminAssign
  <2>2. activeMajors \subseteq majors /\ activeGroups \subseteq groups
    BY DEF TypeInv, TypeOK
  <2> QED
    BY <1>1, <2>1, <2>2 DEF ClaimSeat, structure, roster
<1>16. ASSUME NEW p \in live, RevokeSelection(p) PROVE \A q \in live' : Stands(q)
  BY <1>1, <1>16 DEF RevokeSelection, structure, roster
<1>17. CASE UNCHANGED vars
  BY <1>1, <1>17 DEF vars, structure, roster, ledger
<1> QED
  BY <1>2, <1>3, <1>4, <1>5, <1>6, <1>7, <1>8, <1>9, <1>10, <1>11, <1>12, <1>13, <1>14,
     <1>15, <1>16, <1>17
  DEF Next, EditStructure, EditRoster, RunActivity, ChangeLedger

\* No edit of the structure, the roster or the matrix retires anything that an
\* active selection refers to, or deletes what a revoked one does.
THEOREM SelectionsStandTheorem == Spec => []SelectionsStand
<1>1. Init => SelectionsStand
  BY DEF Init, SelectionsStand
<1> QED
  BY <1>1, TypeInit, TypeStep, QuotaRowsInit, QuotaRowsStep, SelectionsStandStep, PTL DEF Spec

-----------------------------------------------------------------------------
(* No group and no quota is oversold. *)

OversellInv == TypeInv /\ SelectionsStand /\ NoOversell

LEMMA NoOversellStep ==
  OversellInv /\ [Next]_vars => NoOversell'
<1> SUFFICES ASSUME OversellInv, [Next]_vars PROVE NoOversell'
  OBVIOUS
<1> USE DEF OversellInv
<1>1. /\ majors \subseteq Majors /\ groups \subseteq Groups
      /\ \A p \in live : /\ p[1] \in Students /\ p[2] \in groups
                         /\ majorOf[p[1]] \in majors
                         /\ p = <<p[1], p[2]>>
  BY DEF TypeInv, TypeOK, SelectionsStand
<1>2. \A g, m : /\ Cardinality(HeldIn(g)) \in Nat
                /\ Cardinality(Held(m, g)) \in Nat
                /\ IsFiniteSet(HeldIn(g)) /\ IsFiniteSet(Held(m, g))
  BY HeldFinite DEF TypeInv
<1>3. /\ \A g \in Groups \ groups : HeldIn(g) = {} /\ \A m : Held(m, g) = {}
      /\ \A m, g : m \notin majors => Held(m, g) = {}
  BY <1>1 DEF HeldIn, Held
<1>4. /\ \A g \in groups : /\ Cardinality(HeldIn(g)) <= capacity[g]
                           /\ \A m \in majors :
                                Held(m, g) # {} => Cardinality(Held(m, g)) <= quota[m][g]
      /\ capacity \in [Groups -> Nat]
      /\ quota \in [Majors -> [Groups -> Nat \cup {NoRow}]]
  BY DEF NoOversell, TypeInv, TypeOK
<1>5. Cardinality({}) = 0
  BY FS_EmptySet
\* Steps that neither move a selection nor a student.
<1>6. ASSUME UNCHANGED <<live, majorOf>>,
             \A g \in groups' :
               /\ Cardinality(HeldIn(g)) <= capacity'[g]
               /\ \A m \in majors' :
                    Held(m, g) # {} => Cardinality(Held(m, g)) <= quota'[m][g]
      PROVE NoOversell'
  <2>1. \A g : HeldIn(g)' = HeldIn(g) /\ \A m : Held(m, g)' = Held(m, g)
    BY <1>6 DEF HeldIn, Held
  <2> QED
    BY <1>6, <2>1 DEF NoOversell
<1>7. ASSUME NEW m \in Majors, CreateMajor(m) PROVE NoOversell'
  BY <1>1, <1>3, <1>4, <1>6, <1>7 DEF CreateMajor, roster, ledger
<1>8. ASSUME NEW m \in Majors, EnableMajor(m) \/ DisableMajor(m) PROVE NoOversell'
  BY <1>4, <1>6, <1>8 DEF EnableMajor, DisableMajor, roster, ledger
<1>9. ASSUME NEW m \in Majors, DeleteMajor(m) PROVE NoOversell'
  BY <1>1, <1>4, <1>6, <1>9 DEF DeleteMajor, roster, ledger
<1>10. ASSUME NEW g \in Groups, NEW c \in 0..MaxCapacity, CreateGroup(g, c) PROVE NoOversell'
  <2>1. /\ UNCHANGED <<live, majorOf, majors>>
        /\ groups' = groups \cup {g} /\ g \notin groups
        /\ capacity'[g] = c /\ c >= 0
        /\ \A h \in groups : capacity'[h] = capacity[h]
        /\ \A m \in majors, h \in groups : quota'[m][h] = quota[m][h]
    BY <1>1, <1>4, <1>10 DEF CreateGroup, roster, ledger
  <2>2. HeldIn(g) = {} /\ \A m : Held(m, g) = {}
    BY <1>3, <2>1
  <2> QED
    BY <1>4, <1>5, <1>6, <2>1, <2>2
<1>11. ASSUME NEW g \in Groups, NEW c \in 0..MaxCapacity, NEW active \in BOOLEAN,
              UpdateGroup(g, c, active)
       PROVE NoOversell'
  <2>1. UNCHANGED <<live, majorOf, majors, groups>> /\ g \in groups
    BY <1>11 DEF UpdateGroup, roster, ledger
  <2>2. CASE c = capacity[g]
    BY <1>4, <1>6, <1>11, <2>1, <2>2 DEF UpdateGroup
  <2>3. CASE c # capacity[g]
    <3>1. c \in Nat /\ c >= Cardinality(HeldIn(g)) /\ Rebalance(g, c)
      BY <1>11, <2>3, LedgerAssumption DEF UpdateGroup
    <3>2. /\ \A m \in majors : quota'[m][g] >= Cardinality(Held(m, g))
          /\ \A m \in Majors, h \in Groups \ {g} : quota'[m][h] = quota[m][h]
          /\ quota' \in [Majors -> [Groups -> Nat \cup {NoRow}]]
      BY <2>1, <3>1, RebalanceType
    <3>3. \A m \in majors : Cardinality(Held(m, g)) <= quota'[m][g]
      <4>1. \A m \in majors : quota'[m][g] \in Int
        BY <1>1, <2>1, <3>2 DEF NoRow
      <4> QED
        BY <1>2, <3>2, <4>1
    <3>4. capacity' = [capacity EXCEPT ![g] = c]
      BY <3>1 DEF Rebalance
    <3>5. \A h \in groups : Cardinality(HeldIn(h)) <= capacity'[h]
      BY <1>1, <1>2, <1>4, <3>1, <3>4
    <3>6. \A h \in groups, m \in majors :
            Held(m, h) # {} => Cardinality(Held(m, h)) <= quota'[m][h]
      BY <1>1, <1>4, <3>2, <3>3
    <3> QED
      BY <1>6, <2>1, <3>5, <3>6
  <2> QED
    BY <2>2, <2>3
<1>12. ASSUME NEW g \in Groups, DeleteGroup(g) PROVE NoOversell'
  <2>1. /\ UNCHANGED <<live, majorOf, majors>>
        /\ groups' = groups \ {g}
        /\ \A h \in groups' : capacity'[h] = capacity[h]
        /\ \A m \in majors, h \in groups' : quota'[m][h] = quota[m][h]
    BY <1>1, <1>4, <1>12 DEF DeleteGroup, roster, ledger
  <2> QED
    BY <1>4, <1>6, <2>1
<1>13. ASSUME NEW desired \in QuotaRequests, UpdateQuotas(desired) PROVE NoOversell'
  <2>1. UNCHANGED <<live, majorOf, majors, groups, capacity>>
    BY <1>13 DEF UpdateQuotas, roster, ledger
  <2>2. \A cell \in DOMAIN desired : desired[cell] \in Nat
    BY LedgerAssumption DEF QuotaRequests
  <2>3. ASSUME NEW m \in majors, NEW g \in groups, Held(m, g) # {}
        PROVE  Cardinality(Held(m, g)) <= quota'[m][g]
    <3>1. CASE <<m, g>> \in DOMAIN desired
      <4>1. quota'[m][g] = desired[<<m, g>>]
        BY <1>1, <1>13, <3>1 DEF UpdateQuotas, QuotasAllowed
      <4>2. desired[<<m, g>>] >= Cardinality(Held(m, g))
        BY <1>13, <3>1 DEF UpdateQuotas, QuotasAllowed
      <4> QED
        BY <1>2, <2>2, <3>1, <4>1, <4>2
    <3>2. CASE <<m, g>> \notin DOMAIN desired
      <4>1. quota'[m][g] = quota[m][g]
        BY <1>1, <1>13, <3>2 DEF UpdateQuotas, QuotasAllowed
      <4> QED
        BY <1>4, <2>3, <4>1
    <3> QED
      BY <3>1, <3>2
  <2> QED
    BY <1>4, <1>6, <2>1, <2>3
<1>14. ASSUME NEW file \in [Students -> Majors \cup {NoMajor}], NEW mode \in {"merge", "sync"},
              ImportStudents(file, mode)
       PROVE NoOversell'
  <2> DEFINE listed == {s \in Students : file[s] # NoMajor}
  <2> DEFINE named == {file[s] : s \in listed}
  <2>1. UNCHANGED <<live, groups, capacity>> /\ majors' = majors \cup named
    BY <1>14 DEF ImportStudents, ledger
  <2>2. \A p \in live : majorOf'[p[1]] = majorOf[p[1]]
    BY <1>1, <1>14 DEF ImportStudents, ImportAllowed, HasSelection
  <2>3. \A g : HeldIn(g)' = HeldIn(g) /\ \A m : Held(m, g)' = Held(m, g)
    BY <2>1, <2>2 DEF HeldIn, Held
  <2>4. \A m \in majors : quota'[m] = quota[m]
    BY <1>1, <1>14 DEF ImportStudents
  <2> HIDE DEF named
  <2>5. \A g \in groups', m \in majors' :
          Held(m, g)' # {} => Cardinality(Held(m, g)') <= quota'[m][g]
    BY <1>3, <1>4, <2>1, <2>3, <2>4
  <2> QED
    BY <1>4, <2>1, <2>3, <2>5 DEF NoOversell
<1>15. CASE StartCountdown \/ Close \/ Tick
  BY <1>4, <1>6, <1>15 DEF StartCountdown, Close, Tick, structure, roster, ledger
<1>16. ASSUME NEW copy \in BOOLEAN, CreateActivity(copy) PROVE NoOversell'
  <2>1. \A g : HeldIn(g)' = {} /\ \A m : Held(m, g)' = {}
    BY <1>16 DEF CreateActivity, HeldIn, Held
  <2>2. \A g \in groups' : capacity'[g] >= 0
    BY <1>1, <1>4, <1>16 DEF CreateActivity, structure
  <2> QED
    BY <1>5, <2>1, <2>2 DEF NoOversell
<1>17. ASSUME NEW set \in BOOLEAN, SetOrigin(set) PROVE NoOversell'
  BY <1>4, <1>6, <1>17 DEF SetOrigin, structure, roster, ledger
<1>18. ASSUME NEW s \in Students, NEW g \in Groups, Select(s, g) \/ AdminAssign(s, g)
       PROVE NoOversell'
  <2>1. ClaimSeat(s, g)
    BY <1>18 DEF Select, AdminAssign
  <2>2. /\ UNCHANGED <<majors, groups, capacity, quota, majorOf>>
        /\ live' = live \cup {<<s, g>>}
        /\ CapacityGuard(s, g)
    BY <2>1 DEF ClaimSeat, structure, roster
  <2>3. majorOf[s] \in majors /\ g \in groups
    BY <2>1 DEF ClaimSeat, TypeInv, TypeOK
  <2>4. \A h \in groups : HeldIn(h)' = IF h = g THEN HeldIn(h) \cup {<<s, g>>} ELSE HeldIn(h)
    BY <2>2 DEF HeldIn
  <2>5. \A h \in groups, m \in majors :
          Held(m, h)' = IF h = g /\ m = majorOf[s] THEN Held(m, h) \cup {<<s, g>>}
                        ELSE Held(m, h)
    BY <2>2 DEF Held
  <2>6. ASSUME NEW S, IsFiniteSet(S)
        PROVE  /\ Cardinality(S \cup {<<s, g>>}) <= Cardinality(S) + 1
               /\ Cardinality(S \cup {<<s, g>>}) \in Nat
    <3>1. Cardinality(S) \in Nat
      BY <2>6, FS_CardinalityType
    <3>2. \/ Cardinality(S \cup {<<s, g>>}) = Cardinality(S)
          \/ Cardinality(S \cup {<<s, g>>}) = Cardinality(S) + 1
      BY <2>6, FS_AddElement
    <3> QED
      BY <3>1, <3>2
  <2>7. \A h \in groups : Cardinality(HeldIn(h)') <= capacity[h]
    <3>1. Cardinality(HeldIn(g)) + 1 <= capacity[g]
      BY <1>1, <1>2, <1>4, <2>2, <2>3 DEF CapacityGuard
    <3>2. Cardinality(HeldIn(g) \cup {<<s, g>>}) <= capacity[g]
      BY <1>1, <1>2, <1>4, <2>3, <2>6, <3>1
    <3> QED
      BY <1>4, <2>4, <3>2
  <2>8. \A h \in groups, m \in majors :
          Held(m, h)' # {} => Cardinality(Held(m, h)') <= quota[m][h]
    <3>1. quota[majorOf[s]][g] \in Nat
      BY <1>1, <1>4, <2>2, <2>3 DEF CapacityGuard
    <3>2. Cardinality(Held(majorOf[s], g)) + 1 <= quota[majorOf[s]][g]
      BY <1>2, <2>2, <3>1 DEF CapacityGuard
    <3>3. Cardinality(Held(majorOf[s], g) \cup {<<s, g>>}) <= quota[majorOf[s]][g]
      BY <1>2, <2>6, <3>1, <3>2
    <3> QED
      BY <1>4, <2>5, <3>3
  <2> QED
    BY <2>2, <2>7, <2>8 DEF NoOversell
<1>19. ASSUME NEW p \in live, RevokeSelection(p) PROVE NoOversell'
  <2>1. UNCHANGED <<majors, groups, capacity, quota, majorOf>> /\ live' \subseteq live
    BY <1>19 DEF RevokeSelection, structure, roster
  <2>2. \A g, m : /\ HeldIn(g)' \in SUBSET HeldIn(g)
                  /\ Held(m, g)' \in SUBSET Held(m, g)
    BY <2>1 DEF HeldIn, Held
  <2>3. \A g, m : /\ Cardinality(HeldIn(g)') <= Cardinality(HeldIn(g))
                  /\ Cardinality(Held(m, g)') <= Cardinality(Held(m, g))
                  /\ Cardinality(HeldIn(g)') \in Nat
                  /\ Cardinality(Held(m, g)') \in Nat
    BY <1>2, <2>2, FS_Subset, FS_CardinalityType
  <2>4. \A g \in groups : Cardinality(HeldIn(g)') <= capacity[g]
    BY <1>1, <1>2, <1>4, <2>3
  <2>5. \A g \in groups, m \in majors :
          Held(m, g)' # {} => Cardinality(Held(m, g)') <= quota[m][g]
    <3>1. \A g \in groups, m \in majors : quota[m][g] \in Int
      BY <1>1, <1>4 DEF NoRow
    <3>2. \A g \in groups, m \in majors : Held(m, g)' # {} => Held(m, g) # {}
      BY <2>2
    <3> QED
      BY <1>2, <1>4, <2>3, <3>1, <3>2
  <2> QED
    BY <2>1, <2>4, <2>5 DEF NoOversell
<1>20. CASE UNCHANGED vars
  BY <1>4, <1>6, <1>20 DEF vars, structure, roster, ledger
<1> QED
  BY <1>7, <1>8, <1>9, <1>10, <1>11, <1>12, <1>13, <1>14, <1>15, <1>16, <1>17, <1>18, <1>19,
     <1>20
  DEF Next, EditStructure, EditRoster, RunActivity, ChangeLedger

\* No overselling, for any number of students, majors, groups and seats.
THEOREM NoOversellTheorem == Spec => []NoOversell
<1>1. Init => NoOversell
  <2> SUFFICES ASSUME Init PROVE NoOversell
    OBVIOUS
  <2>1. \A g : HeldIn(g) = {} /\ \A m : Held(m, g) = {}
    BY DEF Init, HeldIn, Held
  <2>2. \A g \in groups : capacity[g] >= 0
    BY TypeInit DEF TypeInv, TypeOK
  <2> QED
    BY <2>1, <2>2, FS_EmptySet DEF NoOversell
<1>2. Init => OversellInv
  BY <1>1, TypeInit DEF OversellInv, Init, SelectionsStand
<1>3. OversellInv /\ QuotaRows /\ [Next]_vars => OversellInv' /\ QuotaRows'
  BY NoOversellStep, TypeStep, QuotaRowsStep, SelectionsStandStep DEF OversellInv
<1>4. OversellInv => NoOversell
  BY DEF OversellInv
<1> QED
  BY <1>2, <1>3, <1>4, QuotaRowsInit, PTL DEF Spec

-----------------------------------------------------------------------------
(* The activity and its rounds. *)

LEMMA StartupValidStep == TypeInv /\ StartupValid /\ [Next]_vars => StartupValid'
<1> SUFFICES ASSUME TypeInv, StartupValid, [Next]_vars PROVE StartupValid'
  OBVIOUS
<1> USE DEF StartupValid, NoTime
<1>1. CASE EditStructure
  BY <1>1 DEF EditStructure, CreateMajor, EnableMajor, DisableMajor, DeleteMajor,
              CreateGroup, UpdateGroup, DeleteGroup, UpdateQuotas, activity
<1>2. CASE EditRoster
  BY <1>2 DEF EditRoster, ImportStudents, activity
<1>3. CASE RunActivity
  <2>1. CASE StartCountdown
    BY <2>1, LedgerAssumption DEF StartCountdown
  <2>2. CASE Close
    BY <2>2 DEF Close
  <2>3. CASE Tick
    BY <2>3 DEF Tick, TypeInv, TypeOK
  <2>4. CASE \E copy \in BOOLEAN : CreateActivity(copy)
    BY <2>4 DEF CreateActivity
  <2>5. CASE \E set \in BOOLEAN : SetOrigin(set)
    BY <2>5 DEF SetOrigin, activity
  <2> QED
    BY <1>3, <2>1, <2>2, <2>3, <2>4, <2>5 DEF RunActivity
<1>4. CASE ChangeLedger
  BY <1>4 DEF ChangeLedger, Select, AdminAssign, ClaimSeat, RevokeSelection, activity
<1>5. CASE UNCHANGED vars
  BY <1>5 DEF vars, activity
<1> QED
  BY <1>1, <1>2, <1>3, <1>4, <1>5 DEF Next

\* A restart at any point finds an activity that the start-up checks accept.
THEOREM StartupValidTheorem == Spec => []StartupValid
<1>1. Init => StartupValid
  BY DEF Init, StartupValid
<1> QED
  BY <1>1, TypeInit, TypeStep, StartupValidStep, PTL DEF Spec

\* What one step may do to an open round.
LEMMA RoundStep ==
  ASSUME TypeInv, [Next]_vars, status = "open", status' = "open"
  PROVE  /\ UNCHANGED <<structure, roster>>
         /\ opensIn' \in {opensIn, opensIn - 1}
         /\ Phase = "countdown" => UNCHANGED ledger
<1>1. CASE EditStructure
  BY <1>1 DEF EditStructure, CreateMajor, EnableMajor, DisableMajor, DeleteMajor,
              CreateGroup, UpdateGroup, DeleteGroup, UpdateQuotas, EnsureClosed
<1>2. CASE EditRoster
  BY <1>2 DEF EditRoster, ImportStudents, EnsureClosed
<1>3. CASE RunActivity
  BY <1>3 DEF RunActivity, StartCountdown, Close, Tick, CreateActivity, SetOrigin,
              activity, TypeInv, TypeOK, NoTime
<1>4. CASE ChangeLedger
  BY <1>4 DEF ChangeLedger, Select, AdminAssign, ClaimSeat, RevokeSelection, activity
<1>5. CASE UNCHANGED vars
  BY <1>5 DEF vars, activity
<1> QED
  BY <1>1, <1>2, <1>3, <1>4, <1>5 DEF Next

\* Structure, quotas, roster and the announced instant are fixed while a round
\* is open, and the ledger too until the countdown has run out.
THEOREM RoundTermsTheorem == Spec => RoundTermsFixed
<1>1. TypeInv /\ [Next]_vars =>
        [status = "open" /\ status' = "open" =>
           /\ UNCHANGED <<structure, roster>>
           /\ opensIn' \in {opensIn, opensIn - 1}
           /\ Phase = "countdown" => UNCHANGED ledger]_vars
  BY RoundStep
<1> QED
  BY <1>1, TypeInit, TypeStep, PTL DEF Spec, RoundTermsFixed

-----------------------------------------------------------------------------
(* The ledger implements SeatAllocation. *)

LedgerInv == OversellInv /\ QuotaRows

\* The instance brings its own copy of the cardinality of a set.
LEMMA SameCardinality == \A S : Allocation!Cardinality(S) = Cardinality(S)
BY DEF Allocation!Cardinality, Cardinality

\* The facts about the ledger that its steps preserve together.
LEMMA LedgerInvariant == Spec => []LedgerInv
<1>1. Init => LedgerInv
  <2> SUFFICES ASSUME Init PROVE LedgerInv
    OBVIOUS
  <2>1. TypeInv /\ QuotaRows
    BY TypeInit, QuotaRowsInit
  <2>2. SelectionsStand
    BY DEF Init, SelectionsStand
  <2>3. \A g : HeldIn(g) = {} /\ \A m : Held(m, g) = {}
    BY DEF Init, HeldIn, Held
  <2>4. \A g \in groups : capacity[g] >= 0
    BY <2>1 DEF TypeInv, TypeOK
  <2>5. NoOversell
    BY <2>3, <2>4, FS_EmptySet DEF NoOversell
  <2> QED
    BY <2>1, <2>2, <2>5 DEF LedgerInv, OversellInv
<1>2. LedgerInv /\ [Next]_vars => LedgerInv'
  BY NoOversellStep, TypeStep, QuotaRowsStep, SelectionsStandStep DEF LedgerInv, OversellInv
<1> QED
  BY <1>1, <1>2, PTL DEF Spec

\* A step that moves no seat and no student who has one is a Reshape: what the
\* ledger's invariants say of the next state is what Reshape asks for.
LEMMA QuietStepReshapes ==
  ASSUME LedgerInv, LedgerInv', UNCHANGED <<live, revoked>>,
         \A p \in live : majorOf'[p[1]] = majorOf[p[1]]
  PROVE  Allocation!Reshape
<1> SUFFICES ASSUME NEW p \in live
             PROVE  /\ Cardinality(Allocation!Seats(p[2])) <= capacity'[p[2]]
                    /\ Cardinality(Allocation!SeatsOf(majorOf[p[1]], p[2]))
                         <= quota'[majorOf[p[1]]][p[2]]
  BY SameCardinality DEF Allocation!Reshape
<1>1. p \in live' /\ p[1] \in Students /\ p[2] \in groups' /\ majorOf'[p[1]] \in majors'
  BY DEF LedgerInv, OversellInv, TypeInv, TypeOK, SelectionsStand
<1>2. Allocation!Seats(p[2]) = HeldIn(p[2])'
  BY DEF Allocation!Seats, HeldIn
<1>3. Allocation!SeatsOf(majorOf[p[1]], p[2]) = Held(majorOf[p[1]], p[2])'
  BY DEF Allocation!SeatsOf, Held
<1>4. p \in Held(majorOf[p[1]], p[2])'
  BY <1>1 DEF Held
<1> QED
  BY <1>1, <1>2, <1>3, <1>4 DEF LedgerInv, OversellInv, NoOversell

\* Every handler of the ledger, for every roster, structure and capacity, does to
\* the seats what SeatAllocation allows, or nothing.
LEMMA AllocationStep ==
  ASSUME LedgerInv, LedgerInv', OneSelectionEach, [Next]_vars
  PROVE  [Allocation!Next]_(Allocation!vars)
<1> USE DEF Allocation!Next, Allocation!vars
<1>1. CASE EditStructure
  <2>1. UNCHANGED <<live, revoked, majorOf>>
    BY <1>1 DEF EditStructure, CreateMajor, EnableMajor, DisableMajor, DeleteMajor,
                CreateGroup, UpdateGroup, DeleteGroup, UpdateQuotas, ledger, roster
  <2> QED
    BY <2>1, QuietStepReshapes
<1>2. CASE EditRoster
  <2>1. PICK file \in [Students -> Majors \cup {NoMajor}], mode \in {"merge", "sync"} :
          ImportStudents(file, mode)
    BY <1>2 DEF EditRoster
  <2>2. \A p \in live : p[1] \in Students
    BY DEF LedgerInv, OversellInv, TypeInv, TypeOK
  <2>3. \A p \in live : majorOf'[p[1]] = majorOf[p[1]]
    BY <2>1, <2>2 DEF ImportStudents, ImportAllowed, HasSelection
  <2>4. UNCHANGED <<live, revoked>>
    BY <2>1 DEF ImportStudents, ledger
  <2> QED
    BY <2>3, <2>4, QuietStepReshapes
<1>3. CASE StartCountdown \/ Close \/ Tick \/ \E set \in BOOLEAN : SetOrigin(set)
  <2>1. UNCHANGED <<live, revoked, majorOf>>
    BY <1>3 DEF StartCountdown, Close, Tick, SetOrigin, ledger, roster
  <2> QED
    BY <2>1, QuietStepReshapes
<1>4. ASSUME NEW copy \in BOOLEAN, CreateActivity(copy)
      PROVE  [Allocation!Next]_(Allocation!vars)
  <2>1. Allocation!StartAfresh
    BY <1>4 DEF CreateActivity, Allocation!StartAfresh
  <2> QED
    BY <2>1
<1>5. ASSUME NEW s \in Students, NEW g \in Groups, Select(s, g) \/ AdminAssign(s, g)
      PROVE  [Allocation!Next]_(Allocation!vars)
  <2>1. ClaimSeat(s, g)
    BY <1>5 DEF Select, AdminAssign
  <2>2. /\ UNCHANGED <<revoked, capacity, quota, majorOf>>
        /\ live' = live \cup {<<s, g>>}
    BY <2>1 DEF ClaimSeat, structure, roster
  <2>3. majorOf[s] # NoMajor /\ \A p \in live : p[1] # s
    BY <2>1 DEF ClaimSeat, HasSelection, LedgerInv, OversellInv, TypeInv, TypeOK
  <2>4. /\ Cardinality(Allocation!Seats(g)) < capacity[g]
        /\ Cardinality(Allocation!SeatsOf(majorOf[s], g)) < quota[majorOf[s]][g]
    BY <2>1 DEF ClaimSeat, CapacityGuard, HeldIn, Held, Allocation!Seats, Allocation!SeatsOf
  <2>5. Allocation!Take(s, g)
    BY <2>2, <2>3, <2>4, SameCardinality DEF Allocation!Take
  <2> QED
    BY <2>5
<1>6. ASSUME NEW p \in live, RevokeSelection(p)
      PROVE  [Allocation!Next]_(Allocation!vars)
  <2>1. Allocation!Withdraw(p)
    BY <1>6 DEF RevokeSelection, Allocation!Withdraw, structure, roster
  <2> QED
    BY <2>1
<1>7. CASE UNCHANGED vars
  BY <1>7 DEF vars, structure, roster, ledger
<1> QED
  BY <1>1, <1>2, <1>3, <1>4, <1>5, <1>6, <1>7 DEF Next, RunActivity, ChangeLedger

\* The seat ledger implements the abstract allocation of seats.
THEOREM ImplementsAllocationTheorem == Spec => ImplementsAllocation
<1>1. Init => Allocation!Init /\ OneSelectionEach
  BY DEF Init, Allocation!Init, OneSelectionEach
<1>2. LedgerInv /\ LedgerInv' /\ OneSelectionEach /\ [Next]_vars
        => [Allocation!Next]_(Allocation!vars)
  BY AllocationStep
<1> QED
  BY <1>1, <1>2, LedgerInvariant, OneSelectionTheorem, PTL
  DEF Spec, ImplementsAllocation, Allocation!Spec

-----------------------------------------------------------------------------
(* Sums over a finite set. *)

\* Induction over the subsets of a finite set: were some subset not Good, a
\* smallest such subset would have only Good subsets below it.
LEMMA SubsetInduction ==
  ASSUME NEW S, IsFiniteSet(S), NEW Good \in SUBSET (SUBSET S),
         \A T \in SUBSET S : (\A x \in T : T \ {x} \in Good) => T \in Good
  PROVE  \A T \in SUBSET S : T \in Good
<1> DEFINE Bad == (SUBSET S) \ Good
<1>1. IsWellFoundedOn(StrictSubsetOrdering(S), SUBSET S)
  BY FS_FiniteSubsetsOfFinite, FS_StrictSubsetOrderingWellFounded
<1>2. ASSUME Bad # {} PROVE FALSE
  <2>1. PICK T \in Bad : \A U \in Bad : ~(<<U, T>> \in StrictSubsetOrdering(S))
    <3>1. Bad \subseteq SUBSET S
      OBVIOUS
    <3> HIDE DEF Bad
    <3> QED
      BY <1>1, <1>2, <3>1, WFMin
  <2>2. PICK x \in T : T \ {x} \notin Good
    OBVIOUS
  <2>3. T \ {x} \in Bad /\ <<T \ {x}, T>> \in StrictSubsetOrdering(S)
    BY <2>2 DEF StrictSubsetOrdering
  <2> QED
    BY <2>1, <2>3
<1> QED
  BY <1>2

\* The element a fold takes first.
First(S) == CHOOSE x \in S : TRUE

\* What the recursive function behind a sum is at every subset.
Partial(f, T, g) ==
  [U \in SUBSET T |-> IF U = {} THEN 0 ELSE f[First(U)] + g[U \ {First(U)}]]

\* SumFunctionOnSet, unfolded to the recursive function it chooses.
LEMMA SumDefinition ==
  ASSUME NEW f, NEW S
  PROVE  SumFunctionOnSet(f, S) = (CHOOSE g : g = Partial(f, S, g))[S]
BY Zenon DEF SumFunctionOnSet, FoldFunctionOnSet, MapThenFoldSet, Partial, First

\* The first element is one of the set.
LEMMA FirstIn == \A S : S # {} => First(S) \in S
BY DEF First

\* The recursive functions of two sets agree on what both sets contain.
LEMMA PartialsAgree ==
  ASSUME NEW f, NEW S, NEW T, NEW g, NEW h,
         g = Partial(f, S, g), h = Partial(f, T, h),
         NEW V \in SUBSET (S \cap T), IsFiniteSet(V)
  PROVE  g[V] = h[V]
<1> DEFINE Good == {U \in SUBSET V : g[U] = h[U]}
<1>1. ASSUME NEW U \in SUBSET V, \A x \in U : U \ {x} \in Good
      PROVE  U \in Good
  <2>1. /\ g[U] = IF U = {} THEN 0 ELSE f[First(U)] + g[U \ {First(U)}]
        /\ h[U] = IF U = {} THEN 0 ELSE f[First(U)] + h[U \ {First(U)}]
    <3>1. U \in SUBSET S /\ U \in SUBSET T
      OBVIOUS
    <3> QED
      BY <3>1, Zenon DEF Partial
  <2>2. CASE U = {}
    BY <2>1, <2>2
  <2>3. CASE U # {}
    <3>1. g[U \ {First(U)}] = h[U \ {First(U)}]
      BY <1>1, <2>3, FirstIn
    <3> QED
      BY <2>1, <2>3, <3>1
  <2> QED
    BY <2>2, <2>3
<1>2. \A U \in SUBSET V : U \in Good
  <2>1. Good \in SUBSET (SUBSET V)
    OBVIOUS
  <2>2. \A U \in SUBSET V : (\A x \in U : U \ {x} \in Good) => U \in Good
    BY <1>1
  <2> HIDE DEF Good
  <2> QED
    BY <2>1, <2>2, SubsetInduction
<1> QED
  BY <1>2

\* There is such a function on every finite set.
LEMMA PartialExists ==
  ASSUME NEW f, NEW S, IsFiniteSet(S)
  PROVE  \A T \in SUBSET S : \E g : g = Partial(f, T, g)
<1> DEFINE Good == {T \in SUBSET S : \E g : g = Partial(f, T, g)}
<1>1. ASSUME NEW T \in SUBSET S, \A x \in T : T \ {x} \in Good
      PROVE  T \in Good
  <2> DEFINE G(x) == CHOOSE g : g = Partial(f, T \ {x}, g)
  <2>1. \A x \in T : G(x) = Partial(f, T \ {x}, G(x))
    BY <1>1, Zenon
  <2> DEFINE h == [U \in SUBSET T |->
                     IF U = {} THEN 0 ELSE f[First(U)] + G(First(U))[U \ {First(U)}]]
  <2>2. ASSUME NEW U \in SUBSET T, U # {}
        PROVE  h[U \ {First(U)}] = G(First(U))[U \ {First(U)}]
    <3> DEFINE c == First(U)
               V == U \ {c}
               d == First(V)
    <3>1. c \in T /\ V \in SUBSET (T \ {c}) /\ V \in SUBSET T
      BY <2>2, FirstIn
    <3>2. G(c)[V] = IF V = {} THEN 0 ELSE f[d] + G(c)[V \ {d}]
      <4> HIDE DEF G, c, V
      <4> QED
        BY <2>1, <3>1, Zenon DEF Partial, d
    <3>3. h[V] = IF V = {} THEN 0 ELSE f[d] + G(d)[V \ {d}]
      <4> HIDE DEF G, c, V
      <4> QED
        BY <3>1, Zenon DEF d
    <3>4. CASE V = {}
      BY <3>2, <3>3, <3>4, Zenon
    <3>5. CASE V # {}
      <4>1. d \in V /\ d \in T /\ IsFiniteSet(V \ {d})
        <5>1. d \in V
          BY <3>5, FirstIn
        <5>2. V \ {d} \in SUBSET S
          BY <3>1
        <5> QED
          BY <3>1, <5>1, <5>2, FS_Subset
      <4>2. V \ {d} \in SUBSET ((T \ {c}) \cap (T \ {d}))
        BY <3>1
      <4>3. G(c)[V \ {d}] = G(d)[V \ {d}]
        <5>1. G(c) = Partial(f, T \ {c}, G(c)) /\ G(d) = Partial(f, T \ {d}, G(d))
          BY <2>1, <3>1, <4>1
        <5> HIDE DEF G, c, V, d
        <5> QED
          BY <4>1, <4>2, <5>1, PartialsAgree
      <4>4. h[V] = G(c)[V]
        <5> HIDE DEF G, h, c, V, d
        <5> QED
          BY <3>2, <3>3, <3>5, <4>3
      <4> QED
        BY <4>4
    <3> QED
      BY <3>4, <3>5
  <2>3. h = Partial(f, T, h)
    <3> HIDE DEF G
    <3>1. \A U \in SUBSET T :
            (IF U = {} THEN 0 ELSE f[First(U)] + G(First(U))[U \ {First(U)}])
              = IF U = {} THEN 0 ELSE f[First(U)] + h[U \ {First(U)}]
      <4> HIDE DEF h
      <4> QED
        BY <2>2
    <3>2. h = [U \in SUBSET T |->
                     IF U = {} THEN 0 ELSE f[First(U)] + G(First(U))[U \ {First(U)}]]
      BY Zenon
    <3> HIDE DEF h
    <3> QED
      BY <3>1, <3>2, Zenon DEF Partial
  <2> QED
    BY <2>3, Zenon
<1>2. Good \in SUBSET (SUBSET S)
  OBVIOUS
<1>3. \A T \in SUBSET S : T \in Good
  <2> HIDE DEF Good
  <2>1. \A T \in SUBSET S : (\A x \in T : T \ {x} \in Good) => T \in Good
    BY <1>1
  <2> QED
    BY <1>2, <2>1, SubsetInduction
<1> QED
  BY <1>3

\* A sum adds the value of the first element to the sum over the others.
LEMMA SumFirst ==
  ASSUME NEW f, NEW S, IsFiniteSet(S)
  PROVE  SumFunctionOnSet(f, S) =
           IF S = {} THEN 0
           ELSE f[First(S)] + SumFunctionOnSet(f, S \ {First(S)})
<1> DEFINE Of(T) == CHOOSE g : g = Partial(f, T, g)
           c == First(S)
           T == S \ {c}
<1>1. Of(S) = Partial(f, S, Of(S)) /\ Of(T) = Partial(f, T, Of(T))
  <2>1. S \in SUBSET S /\ T \in SUBSET S
    OBVIOUS
  <2>2. (\E g : g = Partial(f, S, g)) /\ (\E g : g = Partial(f, T, g))
    <3> HIDE DEF T
    <3> QED
      BY <2>1, PartialExists
  <2> HIDE DEF T
  <2> QED
    BY <2>2, Zenon
<1>2. Of(S)[S] = IF S = {} THEN 0 ELSE f[c] + Of(S)[T]
  <2>1. S \in SUBSET S
    OBVIOUS
  <2> HIDE DEF Of
  <2> QED
    BY <1>1, <2>1, Zenon DEF Partial
<1>3. Of(S)[T] = Of(T)[T]
  <2>1. T \in SUBSET (S \cap T) /\ IsFiniteSet(T)
    BY FS_RemoveElement
  <2> HIDE DEF Of, T
  <2> QED
    BY <1>1, <2>1, PartialsAgree
<1>4. SumFunctionOnSet(f, S) = Of(S)[S] /\ SumFunctionOnSet(f, T) = Of(T)[T]
  BY SumDefinition, Zenon
<1> HIDE DEF Of
<1> QED
  BY <1>2, <1>3, <1>4

\* The sum over no elements.
LEMMA SumOfNone == ASSUME NEW f PROVE SumFunctionOnSet(f, {}) = 0
BY SumFirst, FS_EmptySet

\* A sum of integers is one.
LEMMA SumType ==
  ASSUME NEW S, IsFiniteSet(S), NEW f, \A x \in S : f[x] \in Int
  PROVE  SumFunctionOnSet(f, S) \in Int
<1> DEFINE Good == {T \in SUBSET S : SumFunctionOnSet(f, T) \in Int}
<1>1. ASSUME NEW T \in SUBSET S, \A x \in T : T \ {x} \in Good
      PROVE  T \in Good
  <2>1. IsFiniteSet(T)
    BY FS_Subset
  <2>2. CASE T = {}
    BY <2>2, SumOfNone
  <2>3. CASE T # {}
    <3>1. First(T) \in T
      BY <2>3, FirstIn
    <3>2. SumFunctionOnSet(f, T) = f[First(T)] + SumFunctionOnSet(f, T \ {First(T)})
      BY <2>1, <2>3, SumFirst
    <3>3. f[First(T)] \in Int /\ SumFunctionOnSet(f, T \ {First(T)}) \in Int
      BY <1>1, <3>1
    <3>4. \A a, b \in Int : a + b \in Int
      OBVIOUS
    <3> QED
      BY <3>2, <3>3, <3>4
  <2> QED
    BY <2>2, <2>3
<1>2. \A T \in SUBSET S : (\A x \in T : T \ {x} \in Good) => T \in Good
  BY <1>1
<1>3. Good \in SUBSET (SUBSET S)
  OBVIOUS
<1>4. \A T \in SUBSET S : T \in Good
  <2> HIDE DEF Good
  <2> QED
    BY <1>2, <1>3, SubsetInduction
<1> QED
  BY <1>4

\* Any element can be taken out of a sum, not only the first.
LEMMA SumRemove ==
  ASSUME NEW S, IsFiniteSet(S), NEW f, \A x \in S : f[x] \in Int
  PROVE  \A x \in S : SumFunctionOnSet(f, S) = f[x] + SumFunctionOnSet(f, S \ {x})
<1> DEFINE Sum(T) == SumFunctionOnSet(f, T)
           Good == {T \in SUBSET S : \A x \in T : Sum(T) = f[x] + Sum(T \ {x})}
<1>1. ASSUME NEW T \in SUBSET S, \A x \in T : T \ {x} \in Good
      PROVE  T \in Good
  <2> SUFFICES ASSUME NEW x \in T PROVE Sum(T) = f[x] + Sum(T \ {x})
    OBVIOUS
  <2> DEFINE c == First(T)
  <2>1. c \in T /\ Sum(T) = f[c] + Sum(T \ {c})
    BY SumFirst, FirstIn, FS_Subset
  <2>2. CASE x = c
    BY <2>1, <2>2
  <2>3. CASE x # c
    <3>1. /\ Sum(T \ {c}) = f[x] + Sum((T \ {c}) \ {x})
          /\ Sum(T \ {x}) = f[c] + Sum((T \ {x}) \ {c})
      BY <1>1, <2>1, <2>3
    <3>2. Sum((T \ {c}) \ {x}) = Sum((T \ {x}) \ {c})
      <4>1. (T \ {c}) \ {x} = (T \ {x}) \ {c}
        OBVIOUS
      <4> QED
        BY <4>1, Zenon
    <3>3. Sum((T \ {c}) \ {x}) \in Int
      <4>1. IsFiniteSet((T \ {c}) \ {x}) /\ (T \ {c}) \ {x} \subseteq S
        <5>1. (T \ {c}) \ {x} \in SUBSET S
          OBVIOUS
        <5> QED
          BY <5>1, FS_Subset
      <4> QED
        BY <4>1, SumType
    <3>4. f[x] \in Int /\ f[c] \in Int
      BY <2>1
    <3>5. \A a, b, r \in Int : a + (b + r) = b + (a + r)
      OBVIOUS
    <3> HIDE DEF Sum, c
    <3> QED
      BY <2>1, <3>1, <3>2, <3>3, <3>4, <3>5
  <2> QED
    BY <2>2, <2>3
<1>2. \A T \in SUBSET S : (\A x \in T : T \ {x} \in Good) => T \in Good
  BY <1>1
<1>3. Good \in SUBSET (SUBSET S)
  OBVIOUS
<1>4. \A T \in SUBSET S : T \in Good
  <2> HIDE DEF Good
  <2> QED
    BY <1>2, <1>3, SubsetInduction
<1>5. S \in Good
  BY <1>4
<1> QED
  BY <1>5

\* A sum depends on the values over its set only.
LEMMA SumEqual ==
  ASSUME NEW S, IsFiniteSet(S), NEW f, NEW h, \A x \in S : f[x] = h[x]
  PROVE  SumFunctionOnSet(f, S) = SumFunctionOnSet(h, S)
<1> DEFINE Good == {T \in SUBSET S : SumFunctionOnSet(f, T) = SumFunctionOnSet(h, T)}
<1>1. ASSUME NEW T \in SUBSET S, \A x \in T : T \ {x} \in Good
      PROVE  T \in Good
  <2>1. IsFiniteSet(T)
    BY FS_Subset
  <2>2. CASE T = {}
    BY <2>2, SumOfNone
  <2>3. CASE T # {}
    <3>1. First(T) \in T /\ f[First(T)] = h[First(T)]
      BY <2>3, FirstIn
    <3>2. SumFunctionOnSet(f, T \ {First(T)}) = SumFunctionOnSet(h, T \ {First(T)})
      BY <1>1, <3>1
    <3> QED
      BY <2>1, <2>3, <3>1, <3>2, SumFirst
  <2> QED
    BY <2>2, <2>3
<1>2. \A T \in SUBSET S : (\A x \in T : T \ {x} \in Good) => T \in Good
  BY <1>1
<1>3. Good \in SUBSET (SUBSET S)
  OBVIOUS
<1>4. \A T \in SUBSET S : T \in Good
  <2> HIDE DEF Good
  <2> QED
    BY <1>2, <1>3, SubsetInduction
<1> QED
  BY <1>4

\* The sum of two functions, value by value.
LEMMA SumPlus ==
  ASSUME NEW S, IsFiniteSet(S), NEW f, NEW h, NEW k,
         \A x \in S : f[x] \in Int /\ h[x] \in Int /\ k[x] = f[x] + h[x]
  PROVE  SumFunctionOnSet(k, S) = SumFunctionOnSet(f, S) + SumFunctionOnSet(h, S)
<1> DEFINE Good == {T \in SUBSET S :
             SumFunctionOnSet(k, T) = SumFunctionOnSet(f, T) + SumFunctionOnSet(h, T)}
<1>1. ASSUME NEW T \in SUBSET S, \A x \in T : T \ {x} \in Good
      PROVE  T \in Good
  <2>1. IsFiniteSet(T)
    BY FS_Subset
  <2>2. CASE T = {}
    BY <2>2, SumOfNone
  <2>3. CASE T # {}
    <3> DEFINE c == First(T)
    <3>1. c \in T /\ f[c] \in Int /\ h[c] \in Int /\ k[c] = f[c] + h[c]
      BY <2>3, FirstIn
    <3>2. SumFunctionOnSet(k, T \ {c}) =
            SumFunctionOnSet(f, T \ {c}) + SumFunctionOnSet(h, T \ {c})
      BY <1>1, <3>1
    <3>3. SumFunctionOnSet(f, T \ {c}) \in Int /\ SumFunctionOnSet(h, T \ {c}) \in Int
      BY <2>1, FS_RemoveElement, SumType
    <3>4. /\ SumFunctionOnSet(k, T) = k[c] + SumFunctionOnSet(k, T \ {c})
          /\ SumFunctionOnSet(f, T) = f[c] + SumFunctionOnSet(f, T \ {c})
          /\ SumFunctionOnSet(h, T) = h[c] + SumFunctionOnSet(h, T \ {c})
      BY <2>1, <2>3, SumFirst
    <3> HIDE DEF c
    <3> QED
      BY <3>1, <3>2, <3>3, <3>4
  <2> QED
    BY <2>2, <2>3
<1>2. \A T \in SUBSET S : (\A x \in T : T \ {x} \in Good) => T \in Good
  BY <1>1
<1>3. Good \in SUBSET (SUBSET S)
  OBVIOUS
<1>4. \A T \in SUBSET S : T \in Good
  <2> HIDE DEF Good
  <2> QED
    BY <1>2, <1>3, SubsetInduction
<1> QED
  BY <1>4

\* A sum of naturals is one.
LEMMA SumNat ==
  ASSUME NEW S, IsFiniteSet(S), NEW f, \A x \in S : f[x] \in Nat
  PROVE  SumFunctionOnSet(f, S) \in Nat
<1> DEFINE Good == {T \in SUBSET S : SumFunctionOnSet(f, T) \in Nat}
<1>1. ASSUME NEW T \in SUBSET S, \A x \in T : T \ {x} \in Good
      PROVE  T \in Good
  <2>1. IsFiniteSet(T)
    BY FS_Subset
  <2>2. CASE T = {}
    BY <2>2, SumOfNone
  <2>3. CASE T # {}
    <3>1. First(T) \in T
      BY <2>3, FirstIn
    <3>2. SumFunctionOnSet(f, T) = f[First(T)] + SumFunctionOnSet(f, T \ {First(T)})
      BY <2>1, <2>3, SumFirst
    <3>3. f[First(T)] \in Nat /\ SumFunctionOnSet(f, T \ {First(T)}) \in Nat
      BY <1>1, <3>1
    <3>4. \A a, b \in Nat : a + b \in Nat
      OBVIOUS
    <3> QED
      BY <3>2, <3>3, <3>4
  <2> QED
    BY <2>2, <2>3
<1>2. \A T \in SUBSET S : (\A x \in T : T \ {x} \in Good) => T \in Good
  BY <1>1
<1>3. Good \in SUBSET (SUBSET S)
  OBVIOUS
<1>4. \A T \in SUBSET S : T \in Good
  <2> HIDE DEF Good
  <2> QED
    BY <1>2, <1>3, SubsetInduction
<1> QED
  BY <1>4

\* Values at most as large have a sum at most as large.
LEMMA SumAtMost ==
  ASSUME NEW S, IsFiniteSet(S), NEW f, NEW h,
         \A x \in S : f[x] \in Int /\ h[x] \in Int /\ f[x] <= h[x]
  PROVE  SumFunctionOnSet(f, S) <= SumFunctionOnSet(h, S)
<1> DEFINE d == [x \in S |-> h[x] - f[x]]
<1>1. \A x \in S : d[x] \in Nat /\ h[x] = f[x] + d[x]
  OBVIOUS
<1>2. SumFunctionOnSet(d, S) \in Nat
  <2> HIDE DEF d
  <2> QED
    BY <1>1, SumNat
<1>3. SumFunctionOnSet(h, S) = SumFunctionOnSet(f, S) + SumFunctionOnSet(d, S)
  <2> HIDE DEF d
  <2> QED
    BY <1>1, SumPlus
<1>4. SumFunctionOnSet(f, S) \in Int
  BY SumType
<1> HIDE DEF d
<1> QED
  BY <1>2, <1>3, <1>4

\* A sum of zeros.
LEMMA SumZero ==
  ASSUME NEW S, IsFiniteSet(S), NEW f, \A x \in S : f[x] = 0
  PROVE  SumFunctionOnSet(f, S) = 0
<1>1. \A x \in S : f[x] \in Int /\ f[x] = f[x] + f[x]
  OBVIOUS
<1>2. SumFunctionOnSet(f, S) = SumFunctionOnSet(f, S) + SumFunctionOnSet(f, S)
  BY <1>1, SumPlus
<1>3. SumFunctionOnSet(f, S) \in Int
  BY <1>1, SumType
<1>4. \A a \in Int : a = a + a => a = 0
  OBVIOUS
<1> QED
  BY <1>2, <1>3, <1>4

\* A sum over a set is the sum over a part of it and the sum over the rest.
LEMMA SumSplit ==
  ASSUME NEW S, IsFiniteSet(S), NEW R, NEW f, \A x \in S : f[x] \in Int
  PROVE  SumFunctionOnSet(f, S) =
           SumFunctionOnSet(f, S \cap R) + SumFunctionOnSet(f, S \ R)
<1> DEFINE Good == {T \in SUBSET S :
             SumFunctionOnSet(f, T) =
               SumFunctionOnSet(f, T \cap R) + SumFunctionOnSet(f, T \ R)}
<1>1. ASSUME NEW T \in SUBSET S, \A x \in T : T \ {x} \in Good
      PROVE  T \in Good
  <2>1. IsFiniteSet(T)
    BY FS_Subset
  <2>2. CASE T = {}
    <3>1. T \cap R = {} /\ T \ R = {}
      BY <2>2
    <3> QED
      BY <2>2, <3>1, SumOfNone
  <2>3. CASE T # {}
    <3>1. PICK c : c \in T
      BY <2>3
    <3> DEFINE U == T \ {c}
    <3>2. SumFunctionOnSet(f, T) = f[c] + SumFunctionOnSet(f, U)
      BY <2>1, <3>1, SumRemove
    <3>3. SumFunctionOnSet(f, U) = SumFunctionOnSet(f, U \cap R) + SumFunctionOnSet(f, U \ R)
      BY <1>1, <3>1
    <3>4. /\ IsFiniteSet(T \cap R) /\ IsFiniteSet(T \ R)
          /\ IsFiniteSet(U \cap R) /\ IsFiniteSet(U \ R)
      <4>1. /\ T \cap R \in SUBSET T /\ T \ R \in SUBSET T
            /\ U \cap R \in SUBSET T /\ U \ R \in SUBSET T
        OBVIOUS
      <4> QED
        BY <2>1, <4>1, FS_Subset
    <3>5. /\ SumFunctionOnSet(f, U \cap R) \in Int
          /\ SumFunctionOnSet(f, U \ R) \in Int
          /\ f[c] \in Int
      BY <3>1, <3>4, SumType
    <3>6. CASE c \in R
      <4>1. U \cap R = (T \cap R) \ {c} /\ U \ R = T \ R /\ c \in T \cap R
        BY <3>1, <3>6
      <4>2. \A x \in T \cap R : f[x] \in Int
        OBVIOUS
      <4>3. SumFunctionOnSet(f, T \cap R) = f[c] + SumFunctionOnSet(f, (T \cap R) \ {c})
        BY <3>4, <4>1, <4>2, SumRemove
      <4>4. \A a, b, e \in Int : a + (b + e) = (a + b) + e
        OBVIOUS
      <4>6. SumFunctionOnSet(f, T \cap R) = f[c] + SumFunctionOnSet(f, U \cap R)
        BY <4>1, <4>3, Zenon
      <4>7. SumFunctionOnSet(f, T \ R) = SumFunctionOnSet(f, U \ R)
        BY <4>1, Zenon
      <4>5. SumFunctionOnSet(f, T) = SumFunctionOnSet(f, T \cap R) + SumFunctionOnSet(f, T \ R)
        <5> HIDE DEF U
        <5> QED
          BY <3>2, <3>3, <3>5, <4>4, <4>6, <4>7
      <4> QED
        BY <4>5
    <3>7. CASE c \notin R
      <4>1. U \cap R = T \cap R /\ U \ R = (T \ R) \ {c} /\ c \in T \ R
        BY <3>1, <3>7
      <4>2. \A x \in T \ R : f[x] \in Int
        OBVIOUS
      <4>3. SumFunctionOnSet(f, T \ R) = f[c] + SumFunctionOnSet(f, (T \ R) \ {c})
        BY <3>4, <4>1, <4>2, SumRemove
      <4>4. \A a, b, e \in Int : a + (b + e) = b + (a + e)
        OBVIOUS
      <4>6. SumFunctionOnSet(f, T \ R) = f[c] + SumFunctionOnSet(f, U \ R)
        BY <4>1, <4>3, Zenon
      <4>7. SumFunctionOnSet(f, T \cap R) = SumFunctionOnSet(f, U \cap R)
        BY <4>1, Zenon
      <4>5. SumFunctionOnSet(f, T) = SumFunctionOnSet(f, T \cap R) + SumFunctionOnSet(f, T \ R)
        <5> HIDE DEF U
        <5> QED
          BY <3>2, <3>3, <3>5, <4>4, <4>6, <4>7
      <4> QED
        BY <4>5
    <3> QED
      BY <3>6, <3>7
  <2> QED
    BY <2>2, <2>3
<1>2. \A T \in SUBSET S : (\A x \in T : T \ {x} \in Good) => T \in Good
  BY <1>1
<1>3. Good \in SUBSET (SUBSET S)
  OBVIOUS
<1>4. \A T \in SUBSET S : T \in Good
  <2> HIDE DEF Good
  <2> QED
    BY <1>2, <1>3, SubsetInduction
<1> QED
  BY <1>4

\* Adding a one per element counts the elements.
LEMMA SumOfOnes ==
  ASSUME NEW S, IsFiniteSet(S), NEW f, \A x \in S : f[x] = 1
  PROVE  SumFunctionOnSet(f, S) = Cardinality(S)
<1> DEFINE Good == {T \in SUBSET S : SumFunctionOnSet(f, T) = Cardinality(T)}
<1>1. ASSUME NEW T \in SUBSET S, \A x \in T : T \ {x} \in Good
      PROVE  T \in Good
  <2>1. IsFiniteSet(T)
    BY FS_Subset
  <2>2. CASE T = {}
    BY <2>2, SumOfNone, FS_EmptySet
  <2>3. CASE T # {}
    <3>1. PICK c : c \in T
      BY <2>3
    <3>2. SumFunctionOnSet(f, T) = f[c] + SumFunctionOnSet(f, T \ {c})
      BY <2>1, <3>1, SumRemove
    <3>3. Cardinality(T \ {c}) = Cardinality(T) - 1 /\ Cardinality(T) \in Nat
      BY <2>1, <3>1, FS_RemoveElement, FS_CardinalityType
    <3> QED
      BY <1>1, <3>1, <3>2, <3>3
  <2> QED
    BY <2>2, <2>3
<1>2. \A T \in SUBSET S : (\A x \in T : T \ {x} \in Good) => T \in Good
  BY <1>1
<1>3. Good \in SUBSET (SUBSET S)
  OBVIOUS
<1>4. \A T \in SUBSET S : T \in Good
  <2> HIDE DEF Good
  <2> QED
    BY <1>2, <1>3, SubsetInduction
<1> QED
  BY <1>4

\* Adding a one per element of a subset counts the subset.
LEMMA SumIndicator ==
  ASSUME NEW S, IsFiniteSet(S), NEW R \in SUBSET S, NEW f,
         \A x \in S : f[x] = IF x \in R THEN 1 ELSE 0
  PROVE  SumFunctionOnSet(f, S) = Cardinality(R)
<1>1. SumFunctionOnSet(f, S) = SumFunctionOnSet(f, S \cap R) + SumFunctionOnSet(f, S \ R)
  <2>1. \A x \in S : f[x] \in Int
    OBVIOUS
  <2> QED
    BY <2>1, SumSplit
<1>2. S \cap R = R /\ IsFiniteSet(R) /\ IsFiniteSet(S \ R) /\ Cardinality(R) \in Nat
  BY FS_Subset, FS_Difference, FS_CardinalityType
<1>3. SumFunctionOnSet(f, R) = Cardinality(R)
  BY <1>2, SumOfOnes
<1>4. SumFunctionOnSet(f, S \ R) = 0
  BY <1>2, SumZero
<1> QED
  BY <1>1, <1>2, <1>3, <1>4

\* The sizes of the classes of a partition add up to the whole.
LEMMA SumOfCounts ==
  ASSUME NEW K, IsFiniteSet(K), NEW X, IsFiniteSet(X), NEW key, \A x \in X : key[x] \in K
  PROVE  SumFunctionOnSet([k \in K |-> Cardinality({x \in X : key[x] = k})], K)
           = Cardinality(X)
<1> DEFINE At(Y, k) == {x \in Y : key[x] = k}
           Count(Y) == [k \in K |-> Cardinality(At(Y, k))]
           Good == {Y \in SUBSET X : SumFunctionOnSet(Count(Y), K) = Cardinality(Y)}
<1>0. \A Y \in SUBSET X :
        IsFiniteSet(Y) /\ \A k : IsFiniteSet(At(Y, k)) /\ Cardinality(At(Y, k)) \in Nat
  <2> SUFFICES ASSUME NEW Y \in SUBSET X, NEW k
               PROVE  IsFiniteSet(Y) /\ IsFiniteSet(At(Y, k)) /\ Cardinality(At(Y, k)) \in Nat
    OBVIOUS
  <2>1. At(Y, k) \in SUBSET X
    OBVIOUS
  <2> HIDE DEF At
  <2> QED
    BY <2>1, FS_Subset, FS_CardinalityType
<1>1. ASSUME NEW Y \in SUBSET X, \A x \in Y : Y \ {x} \in Good
      PROVE  Y \in Good
  <2>2. CASE Y = {}
    <3>1. \A k \in K : Count(Y)[k] = 0
      <4>1. \A k \in K : At(Y, k) = {}
        BY <2>2
      <4> HIDE DEF At
      <4> QED
        BY <4>1, FS_EmptySet
    <3>2. SumFunctionOnSet(Count(Y), K) = 0
      <4> HIDE DEF Count
      <4> QED
        BY <3>1, SumZero
    <3> QED
      BY <2>2, <3>2, FS_EmptySet
  <2>3. CASE Y # {}
    <3>1. PICK c : c \in Y
      BY <2>3
    <3> DEFINE Z == Y \ {c}
               one == [k \in K |-> IF k \in {key[c]} THEN 1 ELSE 0]
    <3>2. SumFunctionOnSet(one, K) = 1
      <4>1. {key[c]} \in SUBSET K
        BY <3>1
      <4>2. SumFunctionOnSet(one, K) = Cardinality({key[c]})
        BY <4>1, SumIndicator
      <4> QED
        BY <4>2, FS_Singleton
    <3>3. \A k \in K : /\ Count(Z)[k] \in Int /\ one[k] \in Int
                       /\ Count(Y)[k] = Count(Z)[k] + one[k]
      <4> SUFFICES ASSUME NEW k \in K
                   PROVE  /\ Cardinality(At(Z, k)) \in Int
                          /\ Cardinality(At(Y, k)) = Cardinality(At(Z, k)) + one[k]
        OBVIOUS
      <4>1. At(Z, k) = At(Y, k) \ {c} /\ (c \in At(Y, k) <=> k = key[c])
        BY <3>1
      <4>2. IsFiniteSet(At(Y, k)) /\ Cardinality(At(Y, k)) \in Nat
        BY <1>0
      <4>3. Cardinality(At(Y, k) \ {c}) = IF c \in At(Y, k) THEN Cardinality(At(Y, k)) - 1
                                          ELSE Cardinality(At(Y, k))
        <5> HIDE DEF At
        <5> QED
          BY <4>2, FS_RemoveElement
      <4>4. one[k] = IF k = key[c] THEN 1 ELSE 0
        OBVIOUS
      <4> HIDE DEF At, Z, one
      <4> QED
        BY <4>1, <4>2, <4>3, <4>4
    <3>4. SumFunctionOnSet(Count(Y), K) =
            SumFunctionOnSet(Count(Z), K) + SumFunctionOnSet(one, K)
      <4> HIDE DEF Count, one, Z
      <4> QED
        BY <3>3, SumPlus
    <3>5. SumFunctionOnSet(Count(Z), K) = Cardinality(Z)
      BY <1>1, <3>1
    <3>6. Cardinality(Z) = Cardinality(Y) - 1 /\ Cardinality(Y) \in Nat
      BY <1>0, <3>1, FS_RemoveElement, FS_CardinalityType
    <3> HIDE DEF Count, one, Z
    <3> QED
      BY <3>2, <3>4, <3>5, <3>6
  <2> QED
    BY <2>2, <2>3
<1>2. \A Y \in SUBSET X : (\A x \in Y : Y \ {x} \in Good) => Y \in Good
  BY <1>1
<1>3. Good \in SUBSET (SUBSET X)
  OBVIOUS
<1>4. \A Y \in SUBSET X : Y \in Good
  <2> HIDE DEF Good
  <2> QED
    BY <1>2, <1>3, SubsetInduction
<1> QED
  BY <1>4

-----------------------------------------------------------------------------
(* The quotas of a group and its total. *)

\* One value that is smaller makes the sum smaller.
LEMMA SumBelow ==
  ASSUME NEW S, IsFiniteSet(S), NEW f, NEW h,
         \A x \in S : f[x] \in Int /\ h[x] \in Int /\ f[x] <= h[x],
         NEW c \in S, f[c] < h[c]
  PROVE  SumFunctionOnSet(f, S) < SumFunctionOnSet(h, S)
<1>1. /\ SumFunctionOnSet(f, S) = f[c] + SumFunctionOnSet(f, S \ {c})
      /\ SumFunctionOnSet(h, S) = h[c] + SumFunctionOnSet(h, S \ {c})
  BY SumRemove
<1>2. IsFiniteSet(S \ {c})
  BY FS_RemoveElement
<1>3. SumFunctionOnSet(f, S \ {c}) \in Int /\ SumFunctionOnSet(h, S \ {c}) \in Int
  BY <1>2, SumType
<1>4. SumFunctionOnSet(f, S \ {c}) <= SumFunctionOnSet(h, S \ {c})
  BY <1>2, SumAtMost
<1>5. \A a, b, u, v \in Int : a < b /\ u <= v => a + u < b + v
  OBVIOUS
<1>6. f[c] \in Int /\ h[c] \in Int
  OBVIOUS
<1> QED
  BY <1>1, <1>3, <1>4, <1>5, <1>6

\* Rows that come with a zero and rows that go leave a sum no larger.
LEMMA SumKept ==
  ASSUME NEW S, IsFiniteSet(S), NEW T, IsFiniteSet(T), NEW f, NEW h,
         \A x \in S : f[x] \in Nat,
         \A x \in S \cap T : h[x] = f[x],
         \A x \in T \ S : h[x] = 0
  PROVE  SumFunctionOnSet(h, T) <= SumFunctionOnSet(f, S)
<1>1. \A x \in T : h[x] \in Int
  OBVIOUS
<1>2. SumFunctionOnSet(h, T) = SumFunctionOnSet(h, T \cap S) + SumFunctionOnSet(h, T \ S)
  BY <1>1, SumSplit
<1>3. SumFunctionOnSet(f, S) = SumFunctionOnSet(f, S \cap T) + SumFunctionOnSet(f, S \ T)
  <2>1. \A x \in S : f[x] \in Int
    OBVIOUS
  <2> QED
    BY <2>1, SumSplit
<1>4. IsFiniteSet(S \cap T) /\ IsFiniteSet(S \ T) /\ IsFiniteSet(T \ S)
  BY FS_Difference, FS_Intersection
<1>5. SumFunctionOnSet(h, T \ S) = 0
  BY <1>4, SumZero
<1>6. SumFunctionOnSet(h, T \cap S) = SumFunctionOnSet(f, S \cap T)
  <2>1. T \cap S = S \cap T
    OBVIOUS
  <2>2. SumFunctionOnSet(h, S \cap T) = SumFunctionOnSet(f, S \cap T)
    BY <1>4, SumEqual
  <2> QED
    BY <2>1, <2>2, Zenon
<1>7. SumFunctionOnSet(f, S \cap T) \in Int /\ SumFunctionOnSet(f, S \ T) \in Nat
  <2>1. \A x \in S \cap T : f[x] \in Int
    OBVIOUS
  <2>2. \A x \in S \ T : f[x] \in Nat
    OBVIOUS
  <2> QED
    BY <1>4, <2>1, <2>2, SumType, SumNat
<1>8. \A a \in Int, b \in Nat : a + 0 <= a + b
  OBVIOUS
<1> QED
  BY <1>2, <1>3, <1>5, <1>6, <1>7, <1>8

\* The rows of every table are finitely many.
LEMMA FiniteRows ==
  ASSUME TypeInv
  PROVE  /\ IsFiniteSet(majors) /\ IsFiniteSet(groups) /\ IsFiniteSet(activeGroups)
         /\ IsFiniteSet(activeStudents)
BY LedgerAssumption, FS_Subset DEF TypeInv, TypeOK

\* The seats the majors hold in a group add up to those the group has given.
LEMMA HeldByMajor ==
  ASSUME TypeInv, SelectionsStand, NEW g \in groups
  PROVE  SumFunctionOnSet([m \in Majors |-> Cardinality(Held(m, g))], majors)
           = Cardinality(HeldIn(g))
<1> DEFINE key == [p \in HeldIn(g) |-> majorOf[p[1]]]
<1>1. \A p \in HeldIn(g) : key[p] \in majors
  BY DEF HeldIn, SelectionsStand, TypeInv, TypeOK
<1>2. \A m \in majors : {p \in HeldIn(g) : key[p] = m} = Held(m, g)
  BY DEF HeldIn, Held
<1>3. IsFiniteSet(majors) /\ IsFiniteSet(HeldIn(g))
  BY FiniteRows, HeldFinite DEF TypeInv
<1>4. SumFunctionOnSet([m \in majors |-> Cardinality({p \in HeldIn(g) : key[p] = m})], majors)
        = Cardinality(HeldIn(g))
  <2> HIDE DEF key
  <2> QED
    BY <1>1, <1>3, SumOfCounts
<1>5. \A m \in majors : [n \in Majors |-> Cardinality(Held(n, g))][m] =
        [n \in majors |-> Cardinality({p \in HeldIn(g) : key[p] = n})][m]
  <2> HIDE DEF key
  <2> QED
    BY <1>2 DEF TypeInv, TypeOK
<1>6. SumFunctionOnSet([m \in Majors |-> Cardinality(Held(m, g))], majors) =
        SumFunctionOnSet([m \in majors |-> Cardinality({p \in HeldIn(g) : key[p] = m})], majors)
  <2> HIDE DEF key
  <2> QED
    BY <1>3, <1>5, SumEqual
<1> QED
  BY <1>4, <1>6

\* The largest-remainder shares add up to what is shared out, when a weight
\* is not zero.
LEMMA SharesSum ==
  ASSUME TypeInv, NEW n \in Nat, NEW weight \in [Majors -> Nat],
         NEW share \in Shares(n, weight)
  PROVE  SumFunctionOnSet(share, majors) =
           IF SumFunctionOnSet(weight, majors) = 0 THEN 0 ELSE n
<1> DEFINE total == SumFunctionOnSet(weight, majors)
           floor == [m \in Majors |-> (n * weight[m]) \div total]
           remainder == [m \in Majors |-> (n * weight[m]) % total]
           left == n - SumFunctionOnSet(floor, majors)
           eligible == {m \in majors : weight[m] > 0}
<1>1. IsFiniteSet(majors) /\ majors \subseteq Majors
  BY FiniteRows DEF TypeInv, TypeOK
<1>2. total \in Nat
  BY <1>1, SumNat
<1>3. CASE total = 0
  <2>1. \A m \in majors : share[m] = 0
    BY <1>1, <1>3 DEF Shares
  <2> QED
    BY <1>1, <1>3, <2>1, SumZero
<1>4. CASE total # 0
  <2>1. PICK bonus \in SUBSET eligible :
          /\ Cardinality(bonus) = left
          /\ share = [m \in Majors |-> IF m \in bonus THEN floor[m] + 1 ELSE floor[m]]
    BY <1>4 DEF Shares
  <2>2. \A m \in majors : floor[m] \in Int
    <3>1. \A a \in Nat, b \in Nat \ {0} : a \div b \in Int
      OBVIOUS
    <3>2. \A m \in majors : n * weight[m] \in Nat
      BY <1>1
    <3> HIDE DEF total
    <3> QED
      BY <1>1, <1>2, <1>4, <3>1, <3>2
  <2> DEFINE one == [m \in Majors |-> IF m \in bonus THEN 1 ELSE 0]
  <2>3. \A m \in majors : one[m] \in Int /\ share[m] = floor[m] + one[m]
    <3>1. \A m \in majors : /\ share[m] = IF m \in bonus THEN floor[m] + 1 ELSE floor[m]
                            /\ one[m] = IF m \in bonus THEN 1 ELSE 0
      <4> HIDE DEF floor
      <4> QED
        BY <1>1, <2>1
    <3> HIDE DEF floor, one
    <3> QED
      BY <2>2, <3>1
  <2>4. SumFunctionOnSet(share, majors) =
          SumFunctionOnSet(floor, majors) + SumFunctionOnSet(one, majors)
    <3> HIDE DEF floor, one
    <3> QED
      BY <1>1, <2>2, <2>3, SumPlus
  <2>5. SumFunctionOnSet(one, majors) = left
    <3>1. bonus \in SUBSET majors /\ \A m \in majors : one[m] = IF m \in bonus THEN 1 ELSE 0
      BY <1>1
    <3>2. SumFunctionOnSet(one, majors) = Cardinality(bonus)
      <4> HIDE DEF one
      <4> QED
        BY <1>1, <3>1, SumIndicator
    <3> QED
      BY <2>1, <3>2
  <2>6. SumFunctionOnSet(floor, majors) \in Int
    <3> HIDE DEF floor
    <3> QED
      BY <1>1, <2>2, SumType
  <2>7. \A a \in Int : a + (n - a) = n
    OBVIOUS
  <2>8. SumFunctionOnSet(share, majors) = n
    <3>1. SumFunctionOnSet(one, majors) = n - SumFunctionOnSet(floor, majors)
      BY <2>5
    <3> HIDE DEF floor, one
    <3> QED
      BY <2>4, <2>6, <2>7, <3>1
  <2> QED
    BY <1>4, <2>8
<1> QED
  BY <1>3, <1>4

\* A rebalance always finds a weight that is not zero, when a major is active.
LEMMA WeightsType ==
  ASSUME TypeInv, NEW g \in groups
  PROVE  /\ Weights(g) \in [Majors -> Nat]
         /\ activeMajors # {} => SumFunctionOnSet(Weights(g), majors) # 0
<1> DEFINE quotas == [m \in Majors |-> IF m \in activeMajors /\ quota[m][g] # NoRow
                                       THEN quota[m][g] ELSE 0]
           students == [m \in Majors |-> IF m \in activeMajors
                          THEN Cardinality({s \in activeStudents : majorOf[s] = m})
                          ELSE 0]
           equal == [m \in Majors |-> IF m \in activeMajors THEN 1 ELSE 0]
           some == \E m \in majors : quotas[m] > 0
           any == \A m \in majors : quotas[m] = 0 /\ \E k \in majors : students[k] > 0
<1>1. IsFiniteSet(majors) /\ majors \subseteq Majors /\ activeMajors \subseteq majors
  BY FiniteRows DEF TypeInv, TypeOK
<1>2. quotas \in [Majors -> Nat]
  BY DEF TypeInv, TypeOK
<1>3. students \in [Majors -> Nat]
  <2>1. \A m : IsFiniteSet({s \in activeStudents : majorOf[s] = m})
    <3> SUFFICES ASSUME NEW m PROVE IsFiniteSet({s \in activeStudents : majorOf[s] = m})
      OBVIOUS
    <3>1. {s \in activeStudents : majorOf[s] = m} \in SUBSET activeStudents
      OBVIOUS
    <3> QED
      BY <3>1, FiniteRows, FS_Subset
  <2>2. \A m : Cardinality({s \in activeStudents : majorOf[s] = m}) \in Nat
    BY <2>1, FS_CardinalityType
  <2> QED
    BY <2>2
<1>4. equal \in [Majors -> Nat]
  OBVIOUS
<1>5. Weights(g) = CASE \E m \in majors : quotas[m] > 0 -> quotas
                     [] \A m \in majors : quotas[m] = 0
                          /\ \E n \in majors : students[n] > 0 -> students
                     [] OTHER -> equal
  BY DEF Weights
<1>6. \/ Weights(g) = quotas /\ \E m \in majors : quotas[m] > 0
      \/ Weights(g) = students /\ (majors # {} => \E m \in majors : students[m] > 0)
      \/ Weights(g) = equal
  <2> HIDE DEF quotas, students, equal
  <2>1. \A m \in majors : ~(quotas[m] > 0) => quotas[m] = 0
    BY <1>1, <1>2
  <2> QED
    BY <1>5, <2>1, Zenon
<1>7. Weights(g) \in [Majors -> Nat]
  <2> HIDE DEF quotas, students, equal
  <2> QED
    BY <1>2, <1>3, <1>4, <1>6
<1>8. ASSUME activeMajors # {} PROVE SumFunctionOnSet(Weights(g), majors) # 0
  <2>1. PICK m \in majors : Weights(g)[m] > 0
    <3>1. \E m \in majors : equal[m] > 0
      BY <1>1, <1>8
    <3>2. majors # {}
      BY <1>1, <1>8
    <3> HIDE DEF quotas, students, equal
    <3> QED
      BY <1>6, <3>1, <3>2
  <2>2. SumFunctionOnSet(Weights(g), majors) =
          Weights(g)[m] + SumFunctionOnSet(Weights(g), majors \ {m})
    <3>1. \A n \in majors : Weights(g)[n] \in Int
      BY <1>1, <1>7
    <3> QED
      BY <1>1, <3>1, SumRemove
  <2>3. SumFunctionOnSet(Weights(g), majors \ {m}) \in Nat
    <3>1. IsFiniteSet(majors \ {m}) /\ \A n \in majors \ {m} : Weights(g)[n] \in Nat
      BY <1>1, <1>7, FS_RemoveElement
    <3> QED
      BY <3>1, SumNat
  <2>4. Weights(g)[m] \in Nat
    BY <1>1, <1>7
  <2>5. \A a, b \in Nat : a > 0 => a + b # 0
    OBVIOUS
  <2> QED
    BY <2>1, <2>2, <2>3, <2>4, <2>5
<1> QED
  BY <1>7, <1>8

\* What a rebalance does to the sum of a group's quotas: with an active major
\* there is, it becomes the new total.
LEMMA RebalanceSum ==
  ASSUME TypeInv, SelectionsStand, NEW g \in groups, NEW c \in Nat,
         c >= Cardinality(HeldIn(g)),
         NEW share \in Shares(c - Cardinality(HeldIn(g)), Weights(g))
  PROVE  LET target == [m \in Majors |-> Cardinality(Held(m, g)) + share[m]]
         IN  /\ share \in [Majors -> Nat]
             /\ SumFunctionOnSet(target, majors) <= c
             /\ activeMajors # {} => SumFunctionOnSet(target, majors) = c
<1> DEFINE free == c - Cardinality(HeldIn(g))
           held == [m \in Majors |-> Cardinality(Held(m, g))]
           target == [m \in Majors |-> Cardinality(Held(m, g)) + share[m]]
<1>1. /\ Cardinality(HeldIn(g)) \in Nat /\ free \in Nat
      /\ \A m : Cardinality(Held(m, g)) \in Nat
  BY HeldFinite DEF TypeInv
<1>2. IsFiniteSet(majors) /\ majors \subseteq Majors
  BY FiniteRows DEF TypeInv, TypeOK
<1>3. share \in [Majors -> Nat]
  <2> HIDE DEF free
  <2> QED
    BY <1>1, ShareIsNatural DEF free
<1>4. SumFunctionOnSet(share, majors) =
        IF SumFunctionOnSet(Weights(g), majors) = 0 THEN 0 ELSE free
  BY <1>1, WeightsType, SharesSum
<1>5. SumFunctionOnSet(held, majors) = Cardinality(HeldIn(g))
  BY HeldByMajor
<1>6. \A m \in majors : held[m] \in Int /\ share[m] \in Int /\ target[m] = held[m] + share[m]
  BY <1>1, <1>2, <1>3
<1>7. SumFunctionOnSet(target, majors) =
        SumFunctionOnSet(held, majors) + SumFunctionOnSet(share, majors)
  <2> HIDE DEF held, target
  <2> QED
    BY <1>2, <1>6, SumPlus
<1>8. SumFunctionOnSet(target, majors) = Cardinality(HeldIn(g)) +
        IF SumFunctionOnSet(Weights(g), majors) = 0 THEN 0 ELSE c - Cardinality(HeldIn(g))
  <2> HIDE DEF held, target
  <2> QED
    BY <1>4, <1>5, <1>7 DEF free
<1>9. \A a \in Nat : c >= a => a + 0 <= c /\ a + (c - a) = c
  OBVIOUS
<1>10. /\ SumFunctionOnSet(target, majors) <= c
       /\ activeMajors # {} => SumFunctionOnSet(target, majors) = c
  <2> HIDE DEF held, target
  <2>1. CASE SumFunctionOnSet(Weights(g), majors) = 0
    BY <1>1, <1>8, <1>9, <2>1, WeightsType
  <2>2. CASE SumFunctionOnSet(Weights(g), majors) # 0
    BY <1>1, <1>8, <1>9, <2>2
  <2> QED
    BY <2>1, <2>2
<1> QED
  BY <1>3, <1>10

\* After a rebalance the group's quotas fit into its new total, and with an
\* active major they fill it.
LEMMA RebalancedSum ==
  ASSUME TypeInv, SelectionsStand, NEW g \in groups, NEW c \in Nat,
         c >= Cardinality(HeldIn(g)), Rebalance(g, c), majors' = majors
  PROVE  /\ QuotaSum(g)' <= c
         /\ activeMajors # {} => QuotaSum(g)' = c
<1>1. PICK share \in Shares(c - Cardinality(HeldIn(g)), Weights(g)) :
        quota' = [m \in Majors |->
                    [quota[m] EXCEPT ![g] = IF m \in majors
                                            THEN Cardinality(Held(m, g)) + share[m]
                                            ELSE NoRow]]
  BY DEF Rebalance
<1> DEFINE target == [m \in Majors |-> Cardinality(Held(m, g)) + share[m]]
           after == [m \in Majors |-> quota'[m][g]]
<1>2. /\ SumFunctionOnSet(target, majors) <= c
      /\ activeMajors # {} => SumFunctionOnSet(target, majors) = c
  BY RebalanceSum
<1>3. \A m \in majors : after[m] = target[m]
  BY <1>1 DEF TypeInv, TypeOK
<1>4. SumFunctionOnSet(after, majors) = SumFunctionOnSet(target, majors)
  <2> HIDE DEF after, target
  <2> QED
    BY <1>3, FiniteRows, SumEqual
<1>5. QuotaSum(g)' = SumFunctionOnSet(after, majors)
  BY Zenon DEF QuotaSum
<1> HIDE DEF after, target
<1> QED
  BY <1>2, <1>4, <1>5

\* The quotas of a group never add up to more than its total.
QuotasFit == \A g \in groups : QuotaSum(g) <= capacity[g]

\* Every cell of the matrix holds a natural number.
LEMMA QuotaIsNatural ==
  ASSUME TypeInv, QuotaRows
  PROVE  \A m \in majors, g \in groups : m \in Majors /\ g \in Groups /\ quota[m][g] \in Nat
BY DEF TypeInv, TypeOK, QuotaRows

\* The matrix of a new database fits into its totals.
LEMMA QuotasFitInit == Init => QuotasFit
<1> SUFFICES ASSUME Init, NEW g \in groups PROVE QuotaSum(g) <= capacity[g]
  BY DEF QuotasFit
<1>1. /\ majors = Majors /\ g \in Groups
      /\ capacity[g] = SeedCapacity
      /\ \A m \in Majors : quota[m][g] = SeedQuota[m][g]
  BY DEF Init
<1> DEFINE seed == [m \in Majors |-> SeedQuota[m][g]]
           cells == [m \in Majors |-> quota[m][g]]
<1>2. SumFunctionOnSet(cells, Majors) = SumFunctionOnSet(seed, Majors)
  <2>1. \A m \in Majors : cells[m] = seed[m]
    BY <1>1
  <2> HIDE DEF cells, seed
  <2> QED
    BY <2>1, SumEqual, LedgerAssumption
<1>3. SumFunction(seed) <= SeedCapacity
  BY <1>1, LedgerAssumption
<1>4. SumFunction(seed) = SumFunctionOnSet(seed, Majors)
  BY Zenon DEF SumFunction
<1>5. QuotaSum(g) = SumFunctionOnSet(cells, Majors)
  BY <1>1, Zenon DEF QuotaSum
<1> QED
  BY <1>1, <1>2, <1>3, <1>4, <1>5

\* Rows that come with zeros and rows that go leave a group's quotas within its
\* total.
LEMMA ReshapedFit ==
  ASSUME TypeInv, TypeInv', QuotaRows, QuotasFit, NEW g \in groups,
         capacity'[g] = capacity[g],
         \A m \in majors \cap majors' : quota'[m][g] = quota[m][g],
         \A m \in majors' \ majors : quota'[m][g] = 0
  PROVE  QuotaSum(g)' <= capacity'[g]
<1> DEFINE before == [m \in Majors |-> quota[m][g]]
           after == [m \in Majors |-> quota'[m][g]]
<1>1. /\ IsFiniteSet(majors) /\ IsFiniteSet(majors')
      /\ majors \subseteq Majors /\ majors' \subseteq Majors
  BY LedgerAssumption, FS_Subset DEF TypeInv, TypeOK
<1>2. /\ \A m \in majors : before[m] \in Nat
      /\ \A m \in majors \cap majors' : after[m] = before[m]
      /\ \A m \in majors' \ majors : after[m] = 0
  BY <1>1, QuotaIsNatural
<1>3. SumFunctionOnSet(after, majors') <= SumFunctionOnSet(before, majors)
  <2> HIDE DEF before, after
  <2> QED
    BY <1>1, <1>2, SumKept
<1>4. SumFunctionOnSet(after, majors') \in Int /\ SumFunctionOnSet(before, majors) \in Int
  <2> HIDE DEF before, after
  <2>1. /\ \A m \in majors : before[m] \in Int
        /\ \A m \in majors' : after[m] \in Int
    BY <1>2
  <2> QED
    BY <1>1, <2>1, SumType
<1>5. /\ QuotaSum(g)' = SumFunctionOnSet(after, majors')
      /\ QuotaSum(g) = SumFunctionOnSet(before, majors)
  BY Zenon DEF QuotaSum
<1>6. QuotaSum(g) <= capacity[g] /\ capacity[g] \in Int
  BY DEF QuotasFit, TypeInv, TypeOK
<1>7. \A a, b, c \in Int : a <= b /\ b <= c => a <= c
  OBVIOUS
<1> HIDE DEF before, after
<1> QED
  BY <1>3, <1>4, <1>5, <1>6, <1>7

\* Every edit of the structure, the matrix and the roster keeps it fitting.
LEMMA QuotasFitStep ==
  TypeInv /\ QuotaRows /\ SelectionsStand /\ QuotasFit /\ [Next]_vars => QuotasFit'
<1> SUFFICES ASSUME TypeInv, QuotaRows, SelectionsStand, QuotasFit, [Next]_vars
             PROVE  QuotasFit'
  OBVIOUS
<1>0. TypeInv'
  BY TypeStep
<1>1. /\ majors \subseteq Majors /\ groups \subseteq Groups
      /\ capacity \in [Groups -> Nat]
      /\ quota \in [Majors -> [Groups -> Nat \cup {NoRow}]]
  BY DEF TypeInv, TypeOK
\* Steps that change no cell of a group that stays.
<1>2. ASSUME groups' \subseteq groups,
             \A g \in groups' :
               /\ capacity'[g] = capacity[g]
               /\ \A m \in majors \cap majors' : quota'[m][g] = quota[m][g]
               /\ \A m \in majors' \ majors : quota'[m][g] = 0
      PROVE  QuotasFit'
  <2> SUFFICES ASSUME NEW g \in groups' PROVE QuotaSum(g)' <= capacity'[g]
    BY DEF QuotasFit
  <2> QED
    BY <1>0, <1>2, ReshapedFit
<1>3. ASSUME NEW m \in Majors, CreateMajor(m) PROVE QuotasFit'
  BY <1>1, <1>2, <1>3 DEF CreateMajor, ZeroRow
<1>4. ASSUME NEW m \in Majors, EnableMajor(m) \/ DisableMajor(m) PROVE QuotasFit'
  BY <1>2, <1>4 DEF EnableMajor, DisableMajor
<1>5. ASSUME NEW m \in Majors, DeleteMajor(m) PROVE QuotasFit'
  BY <1>1, <1>2, <1>5 DEF DeleteMajor
<1>6. ASSUME NEW g \in Groups, NEW c \in 0..MaxCapacity, CreateGroup(g, c) PROVE QuotasFit'
  <2> SUFFICES ASSUME NEW h \in groups' PROVE QuotaSum(h)' <= capacity'[h]
    BY DEF QuotasFit
  <2>1. majors' = majors /\ groups' = groups \cup {g} /\ g \notin groups
    BY <1>6 DEF CreateGroup
  <2>2. CASE h \in groups
    <3>1. capacity'[h] = capacity[h] /\ \A m \in majors : quota'[m][h] = quota[m][h]
      BY <1>1, <1>6, <2>1, <2>2 DEF CreateGroup
    <3> QED
      BY <1>0, <2>1, <2>2, <3>1, ReshapedFit
  <2>3. CASE h = g
    <3> DEFINE after == [m \in Majors |-> quota'[m][g]]
    <3>1. \A m \in majors : after[m] = 0
      BY <1>1, <1>6 DEF CreateGroup
    <3>2. SumFunctionOnSet(after, majors) = 0
      <4> HIDE DEF after
      <4> QED
        BY <3>1, FiniteRows, SumZero
    <3>3. QuotaSum(g)' = SumFunctionOnSet(after, majors)
      BY <2>1, Zenon DEF QuotaSum
    <3>4. capacity'[g] >= 0
      BY <1>1, <1>6 DEF CreateGroup
    <3> QED
      BY <2>3, <3>2, <3>3, <3>4
  <2> QED
    BY <2>1, <2>2, <2>3
<1>7. ASSUME NEW g \in Groups, NEW c \in 0..MaxCapacity, NEW active \in BOOLEAN,
             UpdateGroup(g, c, active)
      PROVE QuotasFit'
  <2>1. majors' = majors /\ groups' = groups /\ g \in groups
    BY <1>7 DEF UpdateGroup
  <2>2. CASE c = capacity[g]
    BY <1>2, <1>7, <2>2 DEF UpdateGroup
  <2>3. CASE c # capacity[g]
    <3>1. c \in Nat /\ c >= Cardinality(HeldIn(g)) /\ Rebalance(g, c)
      BY <1>7, <2>3, LedgerAssumption DEF UpdateGroup
    <3>2. QuotaSum(g)' <= c
      BY <2>1, <3>1, RebalancedSum
    <3> SUFFICES ASSUME NEW h \in groups PROVE QuotaSum(h)' <= capacity'[h]
      BY <2>1 DEF QuotasFit
    <3>3. CASE h = g
      BY <1>1, <3>1, <3>2, <3>3 DEF Rebalance
    <3>4. CASE h # g
      <4>1. capacity'[h] = capacity[h] /\ \A m \in majors : quota'[m][h] = quota[m][h]
        <5>1. \A m \in Majors, k \in Groups \ {g} : quota'[m][k] = quota[m][k]
          BY <2>1, <3>1, RebalanceType
        <5> QED
          BY <1>1, <3>1, <3>4, <5>1 DEF Rebalance
      <4> QED
        BY <1>0, <2>1, <4>1, ReshapedFit
    <3> QED
      BY <3>3, <3>4
  <2> QED
    BY <2>2, <2>3
<1>8. ASSUME NEW g \in Groups, DeleteGroup(g) PROVE QuotasFit'
  BY <1>1, <1>2, <1>8 DEF DeleteGroup
<1>9. ASSUME NEW desired \in QuotaRequests, UpdateQuotas(desired) PROVE QuotasFit'
  <2> SUFFICES ASSUME NEW g \in groups PROVE QuotaSum(g)' <= capacity'[g]
    BY <1>9 DEF QuotasFit, UpdateQuotas
  <2>1. UNCHANGED <<majors, groups, capacity>> /\ QuotasAllowed(desired)
    BY <1>9 DEF UpdateQuotas
  <2>2. \A m \in Majors : quota'[m][g] = IF <<m, g>> \in DOMAIN desired
                                         THEN desired[<<m, g>>] ELSE quota[m][g]
    BY <1>1, <1>9 DEF UpdateQuotas
  <2>3. CASE \E m \in Majors : <<m, g>> \in DOMAIN desired
    <3>1. SumAfter(g, desired) <= capacity[g]
      BY <2>1, <2>3 DEF QuotasAllowed
    <3> DEFINE after == [m \in Majors |-> quota'[m][g]]
               asked == [m \in Majors |-> IF <<m, g>> \in DOMAIN desired
                                          THEN desired[<<m, g>>] ELSE quota[m][g]]
    <3>2. after = asked
      BY <2>2
    <3>3. QuotaSum(g)' = SumAfter(g, desired)
      BY <2>1, <3>2, Zenon DEF QuotaSum, SumAfter
    <3> QED
      BY <2>1, <3>1, <3>3
  <2>4. CASE ~ \E m \in Majors : <<m, g>> \in DOMAIN desired
    <3>1. \A m \in majors : quota'[m][g] = quota[m][g]
      BY <1>1, <2>2, <2>4
    <3> QED
      BY <1>0, <2>1, <3>1, ReshapedFit
  <2> QED
    BY <2>3, <2>4
<1>10. ASSUME NEW file \in [Students -> Majors \cup {NoMajor}], NEW mode \in {"merge", "sync"},
              ImportStudents(file, mode)
       PROVE QuotasFit'
  <2> DEFINE listed == {s \in Students : file[s] # NoMajor}
             named == {file[s] : s \in listed}
  <2>1. /\ UNCHANGED <<groups, capacity>> /\ majors' = majors \cup named
        /\ quota' = [m \in Majors |-> IF m \in named \ majors THEN ZeroRow ELSE quota[m]]
    BY <1>10 DEF ImportStudents
  <2>2. majors' \subseteq Majors
    BY <1>0 DEF TypeInv, TypeOK
  <2> HIDE DEF named
  <2> QED
    BY <1>1, <1>2, <2>1, <2>2 DEF ZeroRow
<1>11. CASE StartCountdown \/ Close \/ Tick
  BY <1>2, <1>11 DEF StartCountdown, Close, Tick, structure
<1>12. ASSUME NEW copy \in BOOLEAN, CreateActivity(copy) PROVE QuotasFit'
  BY <1>2, <1>12 DEF CreateActivity, structure
<1>13. ASSUME NEW set \in BOOLEAN, SetOrigin(set) PROVE QuotasFit'
  BY <1>2, <1>13 DEF SetOrigin, structure
<1>14. CASE ChangeLedger
  BY <1>2, <1>14 DEF ChangeLedger, Select, AdminAssign, ClaimSeat, RevokeSelection, structure
<1>15. CASE UNCHANGED vars
  BY <1>2, <1>15 DEF vars, structure
<1> QED
  BY <1>3, <1>4, <1>5, <1>6, <1>7, <1>8, <1>9, <1>10, <1>11, <1>12, <1>13, <1>14, <1>15
  DEF Next, EditStructure, EditRoster, RunActivity

\* The quotas of a group never add up to more than its total, whatever edits of
\* the structure, the matrix and the roster came before.
LEMMA QuotasFitInvariant == Spec => []QuotasFit
<1>1. Init => TypeInv /\ QuotaRows /\ SelectionsStand /\ QuotasFit
  BY TypeInit, QuotaRowsInit, QuotasFitInit DEF Init, SelectionsStand
<1>2. TypeInv /\ QuotaRows /\ SelectionsStand /\ QuotasFit /\ [Next]_vars
        => (TypeInv /\ QuotaRows /\ SelectionsStand /\ QuotasFit)'
  BY TypeStep, QuotaRowsStep, SelectionsStandStep, QuotasFitStep
<1> QED
  BY <1>1, <1>2, PTL DEF Spec

\* A group's total that an administrator changes is shared out to the last seat,
\* for every matrix, every weight and every choice among equal remainders.
THEOREM RebalanceSellsTheorem == Spec => RebalanceSellsEverySeat
<1> DEFINE Sold(g) == capacity'[g] # capacity[g] /\ activeMajors # {} /\ majorOf' = majorOf
                        => QuotaSum(g)' = capacity'[g]
<1>1. ASSUME TypeInv, SelectionsStand, [Next]_vars, NEW g \in groups \cap groups'
      PROVE  Sold(g)
  <2>1. g \in Groups /\ capacity \in [Groups -> Nat]
    BY <1>1 DEF TypeInv, TypeOK
  <2>2. ASSUME NEW m \in Majors, CreateMajor(m) \/ EnableMajor(m) \/ DisableMajor(m)
                                 \/ DeleteMajor(m)
        PROVE  Sold(g)
    BY <2>2 DEF CreateMajor, EnableMajor, DisableMajor, DeleteMajor
  <2>3. ASSUME NEW h \in Groups, NEW c \in 0..MaxCapacity, CreateGroup(h, c) PROVE Sold(g)
    BY <2>1, <2>3 DEF CreateGroup
  <2>4. ASSUME NEW h \in Groups, NEW c \in 0..MaxCapacity, NEW active \in BOOLEAN,
               UpdateGroup(h, c, active)
        PROVE  Sold(g)
    <3> SUFFICES ASSUME capacity'[g] # capacity[g], activeMajors # {}
                 PROVE  QuotaSum(g)' = capacity'[g]
      OBVIOUS
    <3>1. Rebalance(h, c) /\ c >= Cardinality(HeldIn(h)) /\ majors' = majors /\ c \in Nat
      BY <2>1, <2>4, LedgerAssumption DEF UpdateGroup
    <3>2. h = g /\ capacity'[g] = c
      BY <2>1, <2>4, <3>1 DEF Rebalance
    <3>3. QuotaSum(g)' = c
      BY <1>1, <3>1, <3>2, RebalancedSum
    <3> QED
      BY <3>2, <3>3
  <2>5. ASSUME NEW h \in Groups, DeleteGroup(h) PROVE Sold(g)
    BY <2>1, <2>5 DEF DeleteGroup
  <2>6. ASSUME NEW desired \in QuotaRequests, UpdateQuotas(desired) PROVE Sold(g)
    BY <2>6 DEF UpdateQuotas
  <2>7. CASE EditRoster
    BY <2>7 DEF EditRoster, ImportStudents
  <2>8. CASE RunActivity
    BY <2>8 DEF RunActivity, StartCountdown, Close, Tick, CreateActivity, SetOrigin, structure
  <2>9. CASE ChangeLedger
    BY <2>9 DEF ChangeLedger, Select, AdminAssign, ClaimSeat, RevokeSelection, structure
  <2>10. CASE UNCHANGED vars
    BY <2>10 DEF vars, structure
  <2> HIDE DEF Sold
  <2> QED
    BY <1>1, <2>2, <2>3, <2>4, <2>5, <2>6, <2>7, <2>8, <2>9, <2>10 DEF Next, EditStructure
<1>2. TypeInv /\ SelectionsStand /\ [Next]_vars =>
        [\A g \in groups \cap groups' :
           capacity'[g] # capacity[g] /\ activeMajors # {} /\ majorOf' = majorOf
             => QuotaSum(g)' = capacity'[g]]_vars
  BY <1>1
<1>3. Spec => [](TypeInv /\ SelectionsStand)
  BY TypeInit, TypeStep, SelectionsStandTheorem, PTL DEF Spec
<1> QED
  BY <1>2, <1>3, PTL DEF Spec, RebalanceSellsEverySeat

-----------------------------------------------------------------------------
(* The triggers behind the handlers. *)

\* Cells at most as large add up to at most as much.
LEMMA CellsAtMost ==
  ASSUME TypeInv, NEW f, NEW h, NEW c \in Int,
         \A m \in majors : f[m] \in Int /\ h[m] \in Int /\ f[m] <= h[m],
         SumFunctionOnSet(h, majors) <= c
  PROVE  SumFunctionOnSet(f, majors) <= c
<1>1. SumFunctionOnSet(f, majors) <= SumFunctionOnSet(h, majors)
  BY FiniteRows, SumAtMost
<1>2. SumFunctionOnSet(f, majors) \in Int /\ SumFunctionOnSet(h, majors) \in Int
  BY FiniteRows, SumType
<1>3. \A a, b \in Int : a <= b /\ b <= c => a <= c
  OBVIOUS
<1> QED
  BY <1>1, <1>2, <1>3

\* A major's quota covers what it holds, in every cell there is.
LEMMA HeldWithinQuota ==
  ASSUME TypeInv, QuotaRows, NoOversell
  PROVE  \A g \in groups, m \in majors :
           /\ Cardinality(Held(m, g)) \in Nat /\ quota[m][g] \in Nat
           /\ Cardinality(Held(m, g)) <= quota[m][g]
<1> SUFFICES ASSUME NEW g \in groups, NEW m \in majors
             PROVE  /\ Cardinality(Held(m, g)) \in Nat /\ quota[m][g] \in Nat
                    /\ Cardinality(Held(m, g)) <= quota[m][g]
  OBVIOUS
<1>1. Cardinality(Held(m, g)) \in Nat /\ quota[m][g] \in Nat
  BY QuotaIsNatural, HeldFinite DEF TypeInv
<1>2. CASE Held(m, g) = {}
  BY <1>1, <1>2, FS_EmptySet
<1>3. CASE Held(m, g) # {}
  BY <1>1, <1>3 DEF NoOversell
<1> QED
  BY <1>1, <1>2, <1>3

\* Every row of a rebalance passes the quota triggers.
LEMMA RebalanceAlwaysFits ==
  ASSUME TypeInv, QuotaRows, SelectionsStand, NoOversell, QuotasFit,
         NEW g \in groups, NEW c \in Nat, c >= Cardinality(HeldIn(g))
  PROVE  RebalanceFits(g, c)
<1> DEFINE held(m) == Cardinality(Held(m, g))
           cells == [m \in Majors |-> quota[m][g]]
<1>1. /\ majors \subseteq Majors /\ g \in Groups /\ capacity[g] \in Int
      /\ \A m \in majors : held(m) \in Nat /\ quota[m][g] \in Nat /\ held(m) <= quota[m][g]
  BY HeldWithinQuota DEF TypeInv, TypeOK
<1>2. SumFunctionOnSet(cells, majors) <= capacity[g]
  BY DEF QuotasFit, QuotaSum
<1>3. ASSUME NEW lowered \in SUBSET majors
      PROVE  SumFunctionOnSet([m \in Majors |-> IF m \in lowered THEN held(m)
                                                ELSE quota[m][g]], majors) <= capacity[g]
  <2> DEFINE some == [m \in Majors |-> IF m \in lowered THEN held(m) ELSE quota[m][g]]
  <2>1. \A m \in majors : some[m] \in Int /\ cells[m] \in Int /\ some[m] <= cells[m]
    <3>1. \A m \in majors : /\ some[m] = IF m \in lowered THEN held(m) ELSE quota[m][g]
                            /\ cells[m] = quota[m][g]
      BY <1>1
    <3> HIDE DEF some, cells, held
    <3> QED
      BY <1>1, <3>1
  <2> HIDE DEF some, cells
  <2>2. SumFunctionOnSet(some, majors) <= capacity[g]
    BY <1>1, <1>2, <2>1, CellsAtMost
  <2> QED
    BY <2>2 DEF some
<1>4. ASSUME NEW share \in Shares(c - Cardinality(HeldIn(g)), Weights(g)),
             NEW raised \in SUBSET majors
      PROVE  SumFunctionOnSet([m \in Majors |-> IF m \in raised THEN held(m) + share[m]
                                                ELSE held(m)], majors) <= c
  <2> DEFINE some == [m \in Majors |-> IF m \in raised THEN held(m) + share[m] ELSE held(m)]
             target == [m \in Majors |-> Cardinality(Held(m, g)) + share[m]]
  <2>1. share \in [Majors -> Nat] /\ SumFunctionOnSet(target, majors) <= c
    BY RebalanceSum
  <2>2. \A m \in majors : some[m] \in Int /\ target[m] \in Int /\ some[m] <= target[m]
    <3>1. \A m \in majors :
            /\ some[m] = IF m \in raised THEN held(m) + share[m] ELSE held(m)
            /\ target[m] = held(m) + share[m]
            /\ share[m] \in Nat
      BY <1>1, <2>1
    <3> HIDE DEF some, target, held
    <3> QED
      BY <1>1, <3>1
  <2> HIDE DEF some, target
  <2>3. SumFunctionOnSet(some, majors) <= c
    BY <2>1, <2>2, CellsAtMost
  <2> QED
    BY <2>3 DEF some
<1> QED
  BY <1>3, <1>4 DEF RebalanceFits

\* Every row of an accepted quota request passes the quota trigger, in every
\* order that writes the lowered cells before the raised ones.
LEMMA QuotaRowsAlwaysFit ==
  ASSUME TypeInv, QuotaRows, QuotasFit, NEW desired \in QuotaRequests,
         QuotasAllowed(desired)
  PROVE  QuotaRowsFit(desired)
<1> SUFFICES ASSUME NEW written \in SUBSET DOMAIN desired, ReleasesFirst(written, desired),
                    NEW g \in groups
             PROVE  SumAfter(g, Restrict(desired, written)) <= capacity[g]
  BY DEF QuotaRowsFit
<1> DEFINE part == [m \in Majors |-> IF <<m, g>> \in written
                                     THEN desired[<<m, g>>] ELSE quota[m][g]]
           full == [m \in Majors |-> IF <<m, g>> \in DOMAIN desired
                                     THEN desired[<<m, g>>] ELSE quota[m][g]]
           cells == [m \in Majors |-> quota[m][g]]
<1>1. /\ majors \subseteq Majors /\ g \in Groups /\ capacity[g] \in Int
      /\ \A m \in majors : quota[m][g] \in Nat
  BY QuotaIsNatural DEF TypeInv, TypeOK
<1>2. \A cell \in DOMAIN desired : desired[cell] \in Nat
  BY LedgerAssumption DEF QuotaRequests
<1>3. \A m \in majors :
        /\ part[m] = IF <<m, g>> \in written THEN desired[<<m, g>>] ELSE quota[m][g]
        /\ full[m] = IF <<m, g>> \in DOMAIN desired THEN desired[<<m, g>>] ELSE quota[m][g]
        /\ cells[m] = quota[m][g]
  BY <1>1
<1>4. SumAfter(g, Restrict(desired, written)) = SumFunctionOnSet(part, majors)
  <2> DEFINE kept == Restrict(desired, written)
             partly == [m \in Majors |-> IF <<m, g>> \in DOMAIN kept
                                         THEN kept[<<m, g>>] ELSE quota[m][g]]
  <2>1. \A m \in majors : partly[m] = part[m]
    BY <1>1 DEF Restrict
  <2>2. SumFunctionOnSet(partly, majors) = SumFunctionOnSet(part, majors)
    <3> HIDE DEF partly, part
    <3> QED
      BY <2>1, FiniteRows, SumEqual
  <2> QED
    BY <2>2 DEF SumAfter
<1>5. CASE \E n \in majors : <<n, g>> \in written /\ desired[<<n, g>>] > quota[n][g]
  <2>1. PICK n \in majors : <<n, g>> \in written /\ desired[<<n, g>>] > quota[n][g]
    BY <1>5
  <2>2. \A b \in DOMAIN desired \ written : desired[b] > quota[b[1]][b[2]]
    BY <2>1 DEF ReleasesFirst
  <2>3. SumFunctionOnSet(full, majors) <= capacity[g]
    <3>1. SumAfter(g, desired) <= capacity[g]
      BY <2>1 DEF QuotasAllowed
    <3> QED
      BY <3>1 DEF SumAfter
  <2>4. \A m \in majors : part[m] \in Int /\ full[m] \in Int /\ part[m] <= full[m]
    <3>1. \A m \in majors : <<m, g>> \in DOMAIN desired \ written
                              => desired[<<m, g>>] > quota[m][g]
      BY <2>2
    <3> HIDE DEF part, full, cells
    <3> SUFFICES ASSUME NEW m \in majors
                 PROVE  part[m] \in Int /\ full[m] \in Int /\ part[m] <= full[m]
      OBVIOUS
    <3>2. quota[m][g] \in Nat
      BY <1>1
    <3>3. CASE <<m, g>> \in written
      BY <1>2, <1>3, <3>3
    <3>4. CASE <<m, g>> \in DOMAIN desired \ written
      <4>1. desired[<<m, g>>] \in Nat /\ desired[<<m, g>>] > quota[m][g]
        BY <1>2, <3>1, <3>4
      <4>2. part[m] = quota[m][g] /\ full[m] = desired[<<m, g>>]
        BY <1>3, <3>4
      <4> QED
        BY <3>2, <4>1, <4>2
    <3>5. CASE <<m, g>> \notin DOMAIN desired
      <4>1. part[m] = quota[m][g] /\ full[m] = quota[m][g]
        BY <1>3, <3>5
      <4> QED
        BY <3>2, <4>1
    <3> QED
      BY <3>3, <3>4, <3>5
  <2> HIDE DEF part, full, cells
  <2> QED
    BY <1>1, <1>4, <2>3, <2>4, CellsAtMost
<1>6. CASE ~ \E n \in majors : <<n, g>> \in written /\ desired[<<n, g>>] > quota[n][g]
  <2>1. SumFunctionOnSet(cells, majors) <= capacity[g]
    BY DEF QuotasFit, QuotaSum
  <2>2. \A m \in majors : part[m] \in Int /\ cells[m] \in Int /\ part[m] <= cells[m]
    <3> HIDE DEF part, full, cells
    <3> QED
      BY <1>1, <1>2, <1>3, <1>6
  <2> HIDE DEF part, full, cells
  <2> QED
    BY <1>1, <1>4, <2>1, <2>2, CellsAtMost
<1> QED
  BY <1>5, <1>6

\* Whatever the handlers' checks accept, the quota triggers let every row of it
\* pass, for every structure, matrix and request.
THEOREM RowUpdatesFitTheorem == Spec => []RowUpdatesFit
<1>1. LedgerInv /\ QuotasFit => RowUpdatesFit
  <2> SUFFICES ASSUME LedgerInv, QuotasFit PROVE RowUpdatesFit
    OBVIOUS
  <2>1. \A g \in groups, c \in 0..MaxCapacity :
          c >= Cardinality(HeldIn(g)) => RebalanceFits(g, c)
    BY RebalanceAlwaysFits, LedgerAssumption DEF LedgerInv, OversellInv
  <2>2. \A desired \in QuotaRequests : QuotasAllowed(desired) => QuotaRowsFit(desired)
    BY QuotaRowsAlwaysFit DEF LedgerInv, OversellInv
  <2> QED
    BY <2>1, <2>2 DEF RowUpdatesFit, QuotasFit, LedgerInv
<1> QED
  BY <1>1, LedgerInvariant, QuotasFitInvariant, PTL

-----------------------------------------------------------------------------
(* An open round. *)

\* What the readiness check finds stays true until the round is closed.
RoundReady ==
  status = "open" =>
    /\ \A s \in activeStudents : majorOf[s] \in activeMajors
    /\ \A m \in activeMajors :
         SeatsFor(m) >= Cardinality({s \in activeStudents : majorOf[s] = m})

\* No step of an open round takes the readiness away.
LEMMA RoundReadyStep == TypeInv /\ RoundReady /\ [Next]_vars => RoundReady'
<1> SUFFICES ASSUME TypeInv, RoundReady, [Next]_vars, status' = "open" PROVE RoundReady'
  BY DEF RoundReady
<1>1. CASE status = "open"
  <2>1. UNCHANGED <<structure, roster>>
    BY <1>1, RoundStep
  <2>2. UNCHANGED <<quota, activeGroups, activeMajors, majorOf, activeStudents>>
    BY <2>1 DEF structure, roster
  <2>3. \A m : SeatsFor(m)' = SeatsFor(m)
    BY <2>2 DEF SeatsFor
  <2> QED
    BY <1>1, <2>2, <2>3 DEF RoundReady
<1>2. CASE StartCountdown
  <2>1. UNCHANGED <<quota, activeGroups, activeMajors, majorOf, activeStudents>> /\ Ready
    BY <1>2 DEF StartCountdown, structure, roster
  <2>2. \A m : SeatsFor(m)' = SeatsFor(m)
    BY <2>1 DEF SeatsFor
  <2> QED
    BY <2>1, <2>2 DEF RoundReady, Ready
<1>3. CASE ~StartCountdown /\ status # "open"
  <2>1. CASE EditStructure
    BY <1>3, <2>1 DEF EditStructure, CreateMajor, EnableMajor, DisableMajor, DeleteMajor,
                      CreateGroup, UpdateGroup, DeleteGroup, UpdateQuotas, activity
  <2>2. CASE EditRoster
    BY <1>3, <2>2 DEF EditRoster, ImportStudents, activity
  <2>3. CASE RunActivity
    BY <1>3, <2>3 DEF RunActivity, Close, Tick, CreateActivity, SetOrigin, activity
  <2>4. CASE ChangeLedger
    BY <1>3, <2>4 DEF ChangeLedger, Select, AdminAssign, ClaimSeat, RevokeSelection, activity
  <2>5. CASE UNCHANGED vars
    BY <1>3, <2>5 DEF vars, activity
  <2> QED
    BY <2>1, <2>2, <2>3, <2>4, <2>5 DEF Next
<1> QED
  BY <1>1, <1>2, <1>3

\* The seats a major holds, over the groups in use.
LEMMA HeldByGroup ==
  ASSUME TypeInv, SelectionsStand, NEW m
  PROVE  SumFunctionOnSet([g \in Groups |-> Cardinality(Held(m, g))], activeGroups)
           = Cardinality({p \in live : majorOf[p[1]] = m})
<1> DEFINE mine == {p \in live : majorOf[p[1]] = m}
           key == [p \in mine |-> p[2]]
<1>1. \A p \in mine : key[p] \in activeGroups
  BY DEF SelectionsStand
<1>2. \A g \in activeGroups : {p \in mine : key[p] = g} = Held(m, g)
  BY DEF Held
<1>3. IsFiniteSet(activeGroups) /\ IsFiniteSet(mine) /\ activeGroups \subseteq Groups
  <2>1. mine \in SUBSET live
    OBVIOUS
  <2> HIDE DEF mine
  <2> QED
    BY <2>1, FiniteRows, FS_Subset DEF TypeInv, TypeOK
<1>4. SumFunctionOnSet([g \in activeGroups |-> Cardinality({p \in mine : key[p] = g})],
                       activeGroups) = Cardinality(mine)
  <2> HIDE DEF key, mine
  <2> QED
    BY <1>1, <1>3, SumOfCounts
<1> DEFINE byGroup == [g \in Groups |-> Cardinality(Held(m, g))]
           counted == [g \in activeGroups |-> Cardinality({p \in mine : key[p] = g})]
<1>5. \A g \in activeGroups : byGroup[g] = counted[g]
  <2> HIDE DEF key, mine
  <2> QED
    BY <1>2, <1>3
<1>6. SumFunctionOnSet(byGroup, activeGroups) = SumFunctionOnSet(counted, activeGroups)
  <2> HIDE DEF byGroup, counted
  <2> QED
    BY <1>3, <1>5, SumEqual
<1> QED
  BY <1>4, <1>6

\* A student of a major without a seat leaves the major fewer selections than
\* it has active students.
LEMMA FewerHeld ==
  ASSUME TypeInv, SelectionsStand, OneSelectionEach,
         NEW s \in activeStudents, ~HasSelection(s)
  PROVE  Cardinality({p \in live : majorOf[p[1]] = majorOf[s]})
           < Cardinality({t \in activeStudents : majorOf[t] = majorOf[s]})
<1> DEFINE mine == {p \in live : majorOf[p[1]] = majorOf[s]}
           class == {t \in activeStudents : majorOf[t] = majorOf[s]}
           of == [p \in mine |-> p[1]]
<1>1. IsFiniteSet(class) /\ s \in class
  <2>1. class \in SUBSET activeStudents
    OBVIOUS
  <2> QED
    BY <2>1, FiniteRows, FS_Subset
<1>2. of \in Injection(mine, class \ {s})
  <2>1. \A p \in mine : of[p] = p[1] /\ p[1] \in class \ {s}
    BY DEF SelectionsStand, HasSelection
  <2>2. of \in [mine -> class \ {s}]
    BY <2>1
  <2>3. \A p, q \in mine : of[p] = of[q] => p = q
    BY DEF OneSelectionEach
  <2> QED
    BY <2>2, <2>3 DEF Injection, IsInjective
<1>3. IsFiniteSet(class \ {s}) /\ Cardinality(class \ {s}) = Cardinality(class) - 1
      /\ Cardinality(class) \in Nat
  BY <1>1, FS_RemoveElement, FS_CardinalityType
<1>4. IsFiniteSet(mine) /\ Cardinality(mine) <= Cardinality(class \ {s})
  <2> HIDE DEF mine, class, of
  <2> QED
    BY <1>2, <1>3, FS_Injection
<1>5. Cardinality(mine) \in Nat
  BY <1>4, FS_CardinalityType
<1> QED
  BY <1>3, <1>4, <1>5

\* A major below its quota in a group finds the group below its total.
LEMMA RoomInGroup ==
  ASSUME TypeInv, QuotaRows, SelectionsStand, NoOversell, QuotasFit,
         NEW g \in groups, NEW m \in majors, Cardinality(Held(m, g)) < quota[m][g]
  PROVE  Cardinality(HeldIn(g)) < capacity[g]
<1> DEFINE held == [n \in Majors |-> Cardinality(Held(n, g))]
           cells == [n \in Majors |-> quota[n][g]]
<1>1. majors \subseteq Majors /\ IsFiniteSet(majors)
  BY FiniteRows DEF TypeInv, TypeOK
<1>2. \A n \in majors : /\ held[n] \in Int /\ cells[n] \in Int /\ held[n] <= cells[n]
                        /\ cells[n] = quota[n][g]
  BY <1>1, HeldWithinQuota
<1>3. held[m] < cells[m]
  BY <1>1
<1>4. SumFunctionOnSet(held, majors) < SumFunctionOnSet(cells, majors)
  <2> HIDE DEF held, cells
  <2> QED
    BY <1>1, <1>2, <1>3, SumBelow
<1>5. SumFunctionOnSet(held, majors) = Cardinality(HeldIn(g))
  BY HeldByMajor
<1>6. SumFunctionOnSet(cells, majors) <= capacity[g]
  BY DEF QuotasFit, QuotaSum
<1>7. SumFunctionOnSet(cells, majors) \in Int /\ Cardinality(HeldIn(g)) \in Int
      /\ capacity[g] \in Int
  <2>1. Cardinality(HeldIn(g)) \in Int /\ capacity[g] \in Int
    BY HeldFinite DEF TypeInv, TypeOK
  <2> HIDE DEF held, cells
  <2> QED
    BY <1>1, <1>2, <2>1, SumType
<1>8. \A a, b, c \in Int : a < b /\ b <= c => a < c
  OBVIOUS
<1> HIDE DEF held, cells
<1> QED
  BY <1>4, <1>5, <1>6, <1>7, <1>8

\* While a student is without a seat, a group of the student's has one left.
LEMMA SomeGroupOpen ==
  ASSUME LedgerInv, QuotasFit, OneSelectionEach, RoundReady, status = "open",
         NEW s \in activeStudents, ~HasSelection(s)
  PROVE  \E g \in activeGroups : CapacityGuard(s, g)
<1> DEFINE m == majorOf[s]
           offered == [g \in Groups |-> IF quota[m][g] = NoRow THEN 0 ELSE quota[m][g]]
           byGroup == [g \in Groups |-> Cardinality(Held(m, g))]
<1> USE DEF LedgerInv, OversellInv
<1>1. /\ m \in majors /\ m \in activeMajors /\ m \in Majors
      /\ activeGroups \subseteq groups /\ activeGroups \subseteq Groups
      /\ IsFiniteSet(activeGroups)
  BY FiniteRows DEF RoundReady, TypeInv, TypeOK
<1>2. SumFunctionOnSet(byGroup, activeGroups) < SumFunctionOnSet(offered, activeGroups)
  <2>1. SumFunctionOnSet(byGroup, activeGroups) = Cardinality({p \in live : majorOf[p[1]] = m})
    BY HeldByGroup
  <2>2. SumFunctionOnSet(offered, activeGroups)
          >= Cardinality({t \in activeStudents : majorOf[t] = m})
    BY <1>1 DEF RoundReady, SeatsFor
  <2>3. Cardinality({p \in live : majorOf[p[1]] = m})
          < Cardinality({t \in activeStudents : majorOf[t] = m})
    BY FewerHeld
  <2>4. /\ Cardinality({p \in live : majorOf[p[1]] = m}) \in Nat
        /\ Cardinality({t \in activeStudents : majorOf[t] = m}) \in Nat
    <3>1. /\ {p \in live : majorOf[p[1]] = m} \in SUBSET live
          /\ {t \in activeStudents : majorOf[t] = m} \in SUBSET activeStudents
      OBVIOUS
    <3> QED
      BY <3>1, FiniteRows, FS_Subset, FS_CardinalityType DEF TypeInv
  <2>5. SumFunctionOnSet(offered, activeGroups) \in Int
    <3>1. \A g \in activeGroups : offered[g] \in Int
      BY <1>1, HeldWithinQuota
    <3> HIDE DEF offered
    <3> QED
      BY <1>1, <3>1, SumType
  <2>6. \A a, b, c \in Int : a < b /\ c >= b => a < c
    OBVIOUS
  <2> HIDE DEF offered, byGroup, m
  <2> QED
    BY <2>1, <2>2, <2>3, <2>4, <2>5, <2>6
<1>3. \E g \in activeGroups : Cardinality(Held(m, g)) < quota[m][g]
  <2> SUFFICES ASSUME \A g \in activeGroups : ~(Cardinality(Held(m, g)) < quota[m][g])
               PROVE  FALSE
    OBVIOUS
  <2>1. \A g \in activeGroups :
          byGroup[g] \in Int /\ offered[g] \in Int /\ offered[g] <= byGroup[g]
    <3>1. \A g \in activeGroups : /\ byGroup[g] = Cardinality(Held(m, g))
                                  /\ offered[g] = quota[m][g]
      BY <1>1 DEF QuotaRows
    <3>2. \A g \in activeGroups : Cardinality(Held(m, g)) \in Nat /\ quota[m][g] \in Nat
      BY <1>1, HeldWithinQuota
    <3> HIDE DEF byGroup, offered, m
    <3> QED
      BY <3>1, <3>2
  <2>2. SumFunctionOnSet(offered, activeGroups) <= SumFunctionOnSet(byGroup, activeGroups)
    <3> HIDE DEF byGroup, offered
    <3> QED
      BY <1>1, <2>1, SumAtMost
  <2>3. /\ SumFunctionOnSet(offered, activeGroups) \in Int
        /\ SumFunctionOnSet(byGroup, activeGroups) \in Int
    <3> HIDE DEF byGroup, offered
    <3> QED
      BY <1>1, <2>1, SumType
  <2>4. \A a, b \in Int : ~(a <= b /\ b < a)
    OBVIOUS
  <2> HIDE DEF byGroup, offered
  <2> QED
    BY <1>2, <2>2, <2>3, <2>4
<1>4. PICK g \in activeGroups : Cardinality(Held(m, g)) < quota[m][g]
  BY <1>3
<1>5. Cardinality(HeldIn(g)) < capacity[g]
  BY <1>1, <1>4, RoomInGroup
<1>6. quota[m][g] # NoRow
  BY <1>1 DEF QuotaRows
<1> QED
  BY <1>4, <1>5, <1>6 DEF CapacityGuard

\* In an open round every active student without a selection finds a group
\* that still takes the student, whoever took which seat in what order.
THEOREM NobodyStrandedTheorem == Spec => []NobodyStranded
<1>1. Init => RoundReady
  BY DEF Init, RoundReady
<1>2. Spec => []RoundReady
  BY <1>1, TypeInit, TypeStep, RoundReadyStep, PTL DEF Spec
<1>3. LedgerInv /\ QuotasFit /\ OneSelectionEach /\ RoundReady => NobodyStranded
  BY SomeGroupOpen DEF NobodyStranded
<1> QED
  BY <1>2, <1>3, LedgerInvariant, QuotasFitInvariant, OneSelectionTheorem, PTL

=============================================================================
