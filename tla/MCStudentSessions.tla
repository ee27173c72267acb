-------------------------- MODULE MCStudentSessions --------------------------
EXTENDS StudentSessions
CONSTANTS s1, old, new, l1, l2, l3
Owner == [l \in Logins |-> s1]
TwoOfOne == [l \in Logins |-> IF l = l1 THEN 2 ELSE 0]
Shown == [l \in Logins |-> IF l = l3 THEN new ELSE old]
=============================================================================
