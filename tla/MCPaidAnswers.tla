---------------------------- MODULE MCPaidAnswers ----------------------------
EXTENDS PaidAnswers, TLC
CONSTANTS r1, r2, s1, p1, p2, k1, k2, yes, no

Symmetry == Permutations(Run) \cup Permutations(Policy) \cup Permutations(Catalog)
              \cup Permutations(Answer)
=============================================================================
