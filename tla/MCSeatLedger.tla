----------------------------- MODULE MCSeatLedger -----------------------------
EXTENDS SeatLedger, TLC
SeedAll == [m \in Majors |-> [g \in Groups |-> 1]]
Relabel == Permutations(Students) \cup Permutations(Majors) \cup Permutations(Groups)
=============================================================================
