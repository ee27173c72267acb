---------------------------- MODULE SeatAllocation ----------------------------
(***************************************************************************)
(* What the selection system promises about seats, without majors' rows,   *)
(* rounds, sessions or queues: a student takes at most one seat, and only  *)
(* while the group and the student's class have one left; a seat taken     *)
(* stays until it is withdrawn by name, and the withdrawal stays on        *)
(* record; nothing else moves a seat until everybody starts afresh, with   *)
(* no class.  SeatLedger implements it.                                    *)
(***************************************************************************)
EXTENDS Integers, FiniteSets

CONSTANTS
  Students,
  Groups,
  NoClass    \* the class of somebody who may not take a seat

VARIABLES
  held,      \* <<student, group>> of the seats taken
  past,      \* <<student, group>> of the seats withdrawn
  limit,     \* seats of a group
  share,     \* seats of a class in a group
  class      \* class of a student

vars == <<held, past, limit, share, class>>

Seats(g) == {p \in held : p[2] = g}
SeatsOf(k, g) == {p \in held : p[2] = g /\ class[p[1]] = k}

Init == held = {} /\ past = {}

Take(s, g) ==
  /\ class[s] # NoClass
  /\ \A p \in held : p[1] # s
  /\ Cardinality(Seats(g)) < limit[g]
  /\ Cardinality(SeatsOf(class[s], g)) < share[class[s]][g]
  /\ held' = held \cup {<<s, g>>}
  /\ UNCHANGED <<past, limit, share, class>>

Withdraw(p) ==
  /\ held' = held \ {p}
  /\ past' = past \cup {p}
  /\ UNCHANGED <<limit, share, class>>

\* Limits, shares and classes change around the seats that are taken: those
\* still fit, and their students keep their class.
Reshape ==
  /\ \A p \in held :
       /\ class'[p[1]] = class[p[1]]
       /\ Cardinality(Seats(p[2])) <= limit'[p[2]]
       /\ Cardinality(SeatsOf(class[p[1]], p[2])) <= share'[class[p[1]]][p[2]]
  /\ UNCHANGED <<held, past>>

StartAfresh ==
  /\ held' = {}
  /\ past' = {}
  /\ \A s \in Students : class'[s] = NoClass

Next ==
  \/ \E s \in Students, g \in Groups : Take(s, g)
  \/ \E p \in held : Withdraw(p)
  \/ Reshape
  \/ StartAfresh

Spec == Init /\ [][Next]_vars
=============================================================================
