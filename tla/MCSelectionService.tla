-------------------------- MODULE MCSelectionService --------------------------
EXTENDS SelectionService, TLC
CONSTANTS s1, s2, r1, r2
OneSeat == [g \in Groups |-> 1]
Relabelling == Permutations(Students) \cup Permutations(Requests)
Sent == {r \in Requests : claim[r] # NoClaim}
\* Two requests that ask different things meet while the names are fixed and the
\* address is set; one request is followed through all renames or an emptied
\* address, and a claim with its repetition through either in the first activity.
FewEdits ==
  /\ origin \/ renames = 0
  /\ renames > 0 \/ ~origin =>
       \/ Cardinality(Sent) <= 1
       \/ renames <= 1 /\ lastActivity = 1 /\ \A a, b \in Sent : claim[a] = claim[b]
=============================================================================
