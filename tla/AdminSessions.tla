---------------------------- MODULE AdminSessions ----------------------------
(***************************************************************************)
(* Sessions of an administrator's account in server/main.py.  Login and    *)
(* change of password both verify the password against a row read before   *)
(* (hashing is slow) and compare its hash again inside the write           *)
(* transaction; a session is known by the login that created it.  The hash *)
(* is salted, so it stands for its version: it never returns to a value it *)
(* had.  The clock counts the seconds that created_at tells apart; tokens  *)
(* break its ties at random.                                               *)
(***************************************************************************)
EXTENDS Integers, FiniteSets

CONSTANTS
  Logins,       \* login requests; each is made at most once
  Changes, By,  \* change requests, and the session each is made from
  MaxSessions,  \* MAX_ADMIN_SESSIONS_PER_USER
  MaxClock      \* a bound on the seconds of one behaviour

ASSUME AdminAssumption ==
  /\ IsFiniteSet(Logins)
  /\ Logins \cap Changes = {}
  /\ By \in [Changes -> Logins]
  /\ MaxSessions \in Nat \ {0}
  /\ MaxClock \in Nat

VARIABLES
  password,  \* version of admin_users.password_hash
  sessions,  \* the account's rows of the table sessions
  expired,   \* those whose expires_at has passed
  created,   \* created_at of each login's session
  phase,     \* where each login and each change request is
  seen,      \* the version each of them has verified
  basis,     \* history: the last version a session's owner proved to know or set
  clock

vars == <<password, sessions, expired, created, phase, seen, basis, clock>>

Requests == Logins \cup Changes
Live(l) == l \in sessions \ expired

Init ==
  /\ password = 0
  /\ sessions = {} /\ expired = {}
  /\ created = [l \in Logins |-> 0]
  /\ phase = [r \in Requests |-> "idle"]
  /\ seen = [r \in Requests |-> 0]
  /\ basis = [l \in Logins |-> 0]
  /\ clock = 0

-----------------------------------------------------------------------------

\* The password in the request matches the row; now_dt is read for the session.
VerifyLogin(l) ==
  /\ phase[l] = "idle"
  /\ phase' = [phase EXCEPT ![l] = "verified"]
  /\ seen' = [seen EXCEPT ![l] = password]
  /\ created' = [created EXCEPT ![l] = clock]
  /\ UNCHANGED <<password, sessions, expired, basis, clock>>

\* Wrong password, limiter, no session; the row has changed, the process died.
Refuse(r) ==
  /\ phase[r] \in {"idle", "verified"}
  /\ phase' = [phase EXCEPT ![r] = "refused"]
  /\ UNCHANGED <<password, sessions, expired, created, seen, basis, clock>>

\* Slip, for the runs on mutated code: the newest of the others give way.
MakesRoomForOldest(kept, others) ==
  /\ kept \subseteq others
  /\ \/ Cardinality(kept) = MaxSessions - 1
     \/ kept = others /\ Cardinality(others) < MaxSessions
  /\ \A k \in kept, d \in others \ kept : created[k] <= created[d]
\* ORDER BY created_at DESC OFFSET MaxSessions - 1 over the account's others.
MakesRoom(kept, others) ==
  /\ kept \subseteq others
  /\ \/ Cardinality(kept) = MaxSessions - 1
     \/ kept = others /\ Cardinality(others) < MaxSessions
  /\ \A k \in kept, d \in others \ kept : created[k] >= created[d]

\* Slip, for the runs on mutated code: the hash is not compared again.
UnchangedUnchecked(r) == TRUE
\* compare_digest of the stored hash with the one that was verified.
Unchanged(r) == seen[r] = password

\* The second half of admin_login, with persist_session.
WriteLogin(l) ==
  /\ phase[l] = "verified"
  /\ Unchanged(l)
  /\ \E kept \in SUBSET (sessions \ expired) :
       /\ MakesRoom(kept, sessions \ expired)
       /\ sessions' = kept \cup {l}
  /\ expired' = {}
  /\ phase' = [phase EXCEPT ![l] = "done"]
  /\ basis' = [basis EXCEPT ![l] = seen[l]]
  /\ UNCHANGED <<password, created, seen, clock>>

\* change_admin_password up to the hashing of the new password.
VerifyChange(c) ==
  /\ phase[c] = "idle"
  /\ Live(By[c])
  /\ phase' = [phase EXCEPT ![c] = "verified"]
  /\ seen' = [seen EXCEPT ![c] = password]
  /\ UNCHANGED <<password, sessions, expired, created, basis, clock>>

\* The new hash is stored and the account's other sessions are deleted.
WriteChange(c) ==
  /\ phase[c] = "verified"
  /\ Live(By[c])
  /\ Unchanged(c)
  /\ password' = password + 1
  /\ sessions' = {By[c]}
  /\ expired' = {}
  /\ phase' = [phase EXCEPT ![c] = "done"]
  /\ basis' = [basis EXCEPT ![By[c]] = password + 1]
  /\ UNCHANGED <<created, seen, clock>>

Logout(l) ==
  /\ Live(l)
  /\ sessions' = sessions \ {l}
  /\ UNCHANGED <<password, expired, created, phase, seen, basis, clock>>

Expire(l) ==
  /\ Live(l)
  /\ expired' = expired \cup {l}
  /\ UNCHANGED <<password, sessions, created, phase, seen, basis, clock>>

Tick ==
  /\ clock < MaxClock
  /\ clock' = clock + 1
  /\ UNCHANGED <<password, sessions, expired, created, phase, seen, basis>>

Next ==
  \/ \E l \in Logins : VerifyLogin(l) \/ WriteLogin(l) \/ Logout(l) \/ Expire(l)
  \/ \E c \in Changes : VerifyChange(c) \/ WriteChange(c)
  \/ \E r \in Requests : Refuse(r)
  \/ Tick

Spec == Init /\ [][Next]_vars

-----------------------------------------------------------------------------
(* What must hold. *)

TypeOK ==
  /\ password \in Nat
  /\ sessions \subseteq {l \in Logins : phase[l] = "done"}
  /\ expired \subseteq sessions
  /\ created \in [Logins -> 0..clock]
  /\ phase \in [Requests -> {"idle", "verified", "done", "refused"}]
  /\ seen \in [Requests -> 0..password]
  /\ basis \in [Logins -> 0..password]
  /\ clock \in 0..MaxClock

\* The account never has more than MaxSessions devices (persist_session).
DevicesBounded == Cardinality(sessions) <= MaxSessions

\* A session exists only while its owner has proved to know, or has set, the
\* password that is stored now: a login or another change that was being
\* verified while the password changed leaves no session behind.
OnlyCurrentPassword == \A l \in sessions : basis[l] = password

\* A live session that makes room for a login is no newer than MaxSessions - 1
\* others that stay: a device in use is not pushed out by an older one.
OldestDeviceYields ==
  [][\A l \in Logins : phase[l] = "verified" /\ phase'[l] = "done" =>
       \A d \in (sessions \ expired) \ sessions' :
         Cardinality({k \in sessions' \ {l} : created[k] >= created[d]}) = MaxSessions - 1]_vars
=============================================================================
