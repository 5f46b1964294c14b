SPECIFICATION Spec
CONSTANTS
  w1 = w1
  w2 = w2
  o1 = o1
  o2 = o2
  t1 = t1
  t2 = t2
  t3 = t3
  l1 = l1
  c1 = c1
  c2 = c2
  g1 = g1
  None = None
  Worker = {w1}
  Origin = {o1}
  Line = {}
  Capture = {c1}
  Text = {t1, t2, t3}
  Extract <- Apart
  Related <- AllRelated
  Usage = {1}
  Reserve = 1
  MaxRequests = 2
  MaxTokens = 2
  Rival = {g1}
  MaxFaults = 1
  Commands = {"drain_publish", "publish"}
INVARIANTS ConflictMeansRival
