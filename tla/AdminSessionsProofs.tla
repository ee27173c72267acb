------------------------- MODULE AdminSessionsProofs -------------------------
(***************************************************************************)
(* Proofs about AdminSessions, for any number of devices and changes.      *)
(***************************************************************************)
EXTENDS AdminSessions, FiniteSetTheorems, TLAPS

-----------------------------------------------------------------------------
(* Types. *)

LEMMA TypeStep == TypeOK /\ [Next]_vars => TypeOK'
<1> SUFFICES ASSUME TypeOK, [Next]_vars PROVE TypeOK'
  OBVIOUS
<1> USE AdminAssumption DEF TypeOK, Requests
<1>1. ASSUME NEW l \in Logins, VerifyLogin(l) PROVE TypeOK'
  BY <1>1 DEF VerifyLogin
<1>2. ASSUME NEW l \in Logins, WriteLogin(l) PROVE TypeOK'
  <2>1. PICK kept \in SUBSET (sessions \ expired) : sessions' = kept \cup {l}
    BY <1>2 DEF WriteLogin
  <2>2. /\ phase' = [phase EXCEPT ![l] = "done"]
        /\ expired' = {}
        /\ basis' = [basis EXCEPT ![l] = seen[l]]
        /\ UNCHANGED <<password, created, seen, clock>>
    BY <1>2 DEF WriteLogin
  <2>3. sessions' \subseteq {k \in Logins : phase'[k] = "done"}
    BY <2>1, <2>2
  <2>4. seen[l] \in 0..password
    OBVIOUS
  <2>5. basis' \in [Logins -> 0..password']
    BY <2>2, <2>4
  <2> QED
    BY <2>2, <2>3, <2>5
<1>3. ASSUME NEW l \in Logins, Logout(l) \/ Expire(l) PROVE TypeOK'
  BY <1>3 DEF Logout, Expire, Live
<1>4. ASSUME NEW c \in Changes, VerifyChange(c) PROVE TypeOK'
  BY <1>4 DEF VerifyChange
<1>5. ASSUME NEW c \in Changes, WriteChange(c) PROVE TypeOK'
  <2>1. By[c] \in Logins /\ By[c] \in sessions /\ By[c] # c
    BY <1>5 DEF WriteChange, Live
  <2>2. password' \in Nat /\ password' = password + 1
    BY <1>5 DEF WriteChange
  <2>3. seen' \in [Requests -> 0..password'] /\ basis' \in [Logins -> 0..password']
    BY <1>5, <2>1, <2>2 DEF WriteChange
  <2>4. phase' \in [Requests -> {"idle", "verified", "done", "refused"}]
    BY <1>5 DEF WriteChange
  <2>5. sessions' \subseteq {k \in Logins : phase'[k] = "done"}
    BY <1>5, <2>1 DEF WriteChange
  <2> QED
    BY <1>5, <2>2, <2>3, <2>4, <2>5 DEF WriteChange
<1>6. ASSUME NEW r \in Requests, Refuse(r) PROVE TypeOK'
  BY <1>6 DEF Refuse
<1>7. CASE Tick
  BY <1>7 DEF Tick
<1>8. CASE UNCHANGED vars
  BY <1>8 DEF vars
<1> QED
  BY <1>1, <1>2, <1>3, <1>4, <1>5, <1>6, <1>7, <1>8 DEF Next

\* Rows of the account belong to logins that were answered; versions, clocks
\* and phases keep their ranges.
THEOREM TypeCorrect == Spec => []TypeOK
<1>1. Init => TypeOK
  BY AdminAssumption DEF Init, TypeOK, Requests
<1> QED
  BY <1>1, TypeStep, PTL DEF Spec

-----------------------------------------------------------------------------
(* Nobody is in with a password that was replaced. *)

\* However logins and changes of password overlap, no session outlives the
\* password it was opened with, except the one that replaced it.
THEOREM OnlyCurrentPasswordTheorem == Spec => []OnlyCurrentPassword
<1>1. Init => OnlyCurrentPassword
  BY DEF Init, OnlyCurrentPassword
<1>2. TypeOK /\ OnlyCurrentPassword /\ [Next]_vars => OnlyCurrentPassword'
  <2> SUFFICES ASSUME TypeOK, OnlyCurrentPassword, [Next]_vars PROVE OnlyCurrentPassword'
    OBVIOUS
  <2> USE DEF OnlyCurrentPassword, TypeOK
  <2>1. ASSUME NEW l \in Logins, WriteLogin(l) PROVE OnlyCurrentPassword'
    <3>1. PICK kept \in SUBSET (sessions \ expired) : sessions' = kept \cup {l}
      BY <2>1 DEF WriteLogin
    <3>2. basis' = [basis EXCEPT ![l] = seen[l]] /\ password' = password /\ seen[l] = password
      BY <2>1 DEF WriteLogin, Unchanged
    <3> QED
      BY <3>1, <3>2
  <2>2. ASSUME NEW c \in Changes, WriteChange(c) PROVE OnlyCurrentPassword'
    BY <2>2, AdminAssumption DEF WriteChange
  <2>3. CASE UNCHANGED <<password, basis>> /\ sessions' \subseteq sessions
    BY <2>3
  <2>4. ASSUME NEW l \in Logins, VerifyLogin(l) \/ Logout(l) \/ Expire(l)
        PROVE OnlyCurrentPassword'
    BY <2>3, <2>4 DEF VerifyLogin, Logout, Expire
  <2>5. ASSUME NEW c \in Changes, VerifyChange(c) PROVE OnlyCurrentPassword'
    BY <2>3, <2>5 DEF VerifyChange
  <2>6. ASSUME NEW r \in Requests, Refuse(r) PROVE OnlyCurrentPassword'
    BY <2>3, <2>6 DEF Refuse
  <2>7. CASE Tick \/ UNCHANGED vars
    BY <2>3, <2>7 DEF Tick, vars
  <2> QED
    BY <2>1, <2>2, <2>4, <2>5, <2>6, <2>7 DEF Next
<1> QED
  BY <1>1, <1>2, TypeCorrect, PTL DEF Spec

-----------------------------------------------------------------------------
(* The limit on devices. *)

\* What a login keeps, itself included, fits the limit.
LEMMA RoomIsMade ==
  ASSUME NEW kept, NEW others, IsFiniteSet(others), MakesRoom(kept, others), NEW l
  PROVE  Cardinality(kept \cup {l}) <= MaxSessions
<1>1. IsFiniteSet(kept) /\ Cardinality(kept) \in Nat
  BY FS_Subset, FS_CardinalityType DEF MakesRoom
<1>2. Cardinality(kept) <= MaxSessions - 1
  BY <1>1, AdminAssumption DEF MakesRoom
<1>3. /\ IsFiniteSet(kept \cup {l})
      /\ Cardinality(kept \cup {l}) = IF l \in kept THEN Cardinality(kept)
                                       ELSE Cardinality(kept) + 1
  BY <1>1, FS_AddElement
<1> QED
  BY <1>1, <1>2, <1>3, AdminAssumption

\* An account never has more sessions than MaxSessions, for any limit.
THEOREM DevicesBoundedTheorem == Spec => []DevicesBounded
<1>1. Init => DevicesBounded
  BY FS_EmptySet, AdminAssumption DEF Init, DevicesBounded
<1>2. TypeOK /\ DevicesBounded /\ [Next]_vars => DevicesBounded'
  <2> SUFFICES ASSUME TypeOK, DevicesBounded, [Next]_vars PROVE DevicesBounded'
    OBVIOUS
  <2>0. IsFiniteSet(sessions) /\ Cardinality(sessions) \in Nat
    <3>1. sessions \subseteq Logins
      BY DEF TypeOK
    <3> QED
      BY <3>1, AdminAssumption, FS_Subset, FS_CardinalityType
  <2>1. ASSUME sessions' \subseteq sessions PROVE DevicesBounded'
    <3>1. Cardinality(sessions') <= Cardinality(sessions) /\ Cardinality(sessions') \in Nat
      BY <2>0, <2>1, FS_Subset, FS_CardinalityType
    <3> QED
      BY <2>0, <3>1, AdminAssumption DEF DevicesBounded
  <2>2. ASSUME NEW l \in Logins, WriteLogin(l) PROVE DevicesBounded'
    <3>1. PICK kept \in SUBSET (sessions \ expired) :
            MakesRoom(kept, sessions \ expired) /\ sessions' = kept \cup {l}
      BY <2>2 DEF WriteLogin
    <3>2. IsFiniteSet(sessions \ expired)
      BY <2>0, FS_Subset
    <3> QED
      BY <3>1, <3>2, RoomIsMade DEF DevicesBounded
  <2>3. ASSUME NEW c \in Changes, WriteChange(c) PROVE DevicesBounded'
    BY <2>1, <2>3 DEF WriteChange, Live
  <2>4. ASSUME NEW l \in Logins, VerifyLogin(l) \/ Logout(l) \/ Expire(l)
        PROVE DevicesBounded'
    BY <2>1, <2>4 DEF VerifyLogin, Logout, Expire
  <2>5. ASSUME NEW c \in Changes, VerifyChange(c) PROVE DevicesBounded'
    BY <2>1, <2>5 DEF VerifyChange
  <2>6. ASSUME NEW r \in Requests, Refuse(r) PROVE DevicesBounded'
    BY <2>1, <2>6 DEF Refuse
  <2>7. CASE Tick \/ UNCHANGED vars
    BY <2>1, <2>7 DEF Tick, vars
  <2> QED
    BY <2>2, <2>3, <2>4, <2>5, <2>6, <2>7 DEF Next
<1> QED
  BY <1>1, <1>2, TypeCorrect, PTL DEF Spec

-----------------------------------------------------------------------------
(* Which device yields. *)

\* A login pushes a live session out only when MaxSessions - 1 others that are
\* at least as new stay.
THEOREM OldestDeviceYieldsTheorem == Spec => OldestDeviceYields
<1> DEFINE Yields == \A l \in Logins : phase[l] = "verified" /\ phase'[l] = "done" =>
      \A d \in (sessions \ expired) \ sessions' :
        Cardinality({k \in sessions' \ {l} : created[k] >= created[d]}) = MaxSessions - 1
<1>1. TypeOK /\ [Next]_vars => Yields
  <2> SUFFICES ASSUME TypeOK, [Next]_vars, NEW l \in Logins,
                      phase[l] = "verified", phase'[l] = "done",
                      NEW d \in (sessions \ expired) \ sessions'
               PROVE  Cardinality({k \in sessions' \ {l} : created[k] >= created[d]})
                        = MaxSessions - 1
    OBVIOUS
  <2> USE AdminAssumption DEF TypeOK, Requests
  <2>1. WriteLogin(l)
    <3>1. ASSUME NEW k \in Logins, WriteLogin(k) PROVE k = l
      BY <3>1 DEF WriteLogin
    <3>2. ASSUME NEW k \in Logins, VerifyLogin(k) \/ Logout(k) \/ Expire(k) PROVE FALSE
      BY <3>2 DEF VerifyLogin, Logout, Expire
    <3>3. ASSUME NEW c \in Changes, VerifyChange(c) \/ WriteChange(c) PROVE FALSE
      BY <3>3 DEF VerifyChange, WriteChange
    <3>4. ASSUME NEW r \in Requests, Refuse(r) PROVE FALSE
      BY <3>4 DEF Refuse
    <3>5. ~Tick /\ ~UNCHANGED vars
      BY DEF Tick, vars
    <3> QED
      BY <3>1, <3>2, <3>3, <3>4, <3>5 DEF Next
  <2>2. PICK kept \in SUBSET (sessions \ expired) :
          MakesRoom(kept, sessions \ expired) /\ sessions' = kept \cup {l}
    BY <2>1 DEF WriteLogin
  <2>3. l \notin kept /\ sessions' \ {l} = kept
    BY <2>2
  <2>4. d \in (sessions \ expired) \ kept
    BY <2>2
  <2>5. \A k \in kept : created[k] >= created[d]
    BY <2>2, <2>4 DEF MakesRoom
  <2>6. {k \in sessions' \ {l} : created[k] >= created[d]} = kept
    BY <2>3, <2>5
  <2>7. Cardinality(kept) = MaxSessions - 1
    BY <2>2, <2>4 DEF MakesRoom
  <2> QED
    BY <2>6, <2>7
<1> QED
  BY <1>1, TypeCorrect, PTL DEF Spec, OldestDeviceYields
=============================================================================
