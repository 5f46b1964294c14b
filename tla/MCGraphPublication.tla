------------------------- MODULE MCGraphPublication -------------------------
EXTENDS GraphPublication, TLC
CONSTANTS r1, r2, r3, repo1, repo2, s1, s2, plain, linked, c1, c2

\* Every run publishes the same repository.
OneHome == [r \in Run |-> repo1]

\* The first run publishes another repository than the rest.
TwoHomes == [r \in Run |-> IF r = r1 THEN repo2 ELSE repo1]

Symmetry == Permutations(Run) \cup Permutations(Snapshot) \cup Permutations(ClaimId)
=============================================================================
