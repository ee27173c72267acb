---------------------------- MODULE MCPublicStatus ----------------------------
EXTENDS PublicStatus, TLC
CONSTANTS r1, r2, r3, r4
Relabel == Permutations(Requests)
=============================================================================
