SPECIFICATION Spec
CONSTANTS
  r1 = r1
  r2 = r2
  s1 = s1
  p1 = p1
  p2 = p2
  k1 = k1
  k2 = k2
  yes = yes
  no = no
  None = None
  Run = {r1, r2}
  NumCand = 1
  Snap = {s1}
  Policy = {p1, p2}
  Catalog = {k1, k2}
  Answer = {yes, no}
  MaxRequests = {1}
  MaxRetries = 1
  MaxCrashes = 1
SYMMETRY Symmetry
INVARIANTS TypeOK AnswersConverge SpendWithinBudget
PROPERTIES FailureNeverDisplacesAnswer
