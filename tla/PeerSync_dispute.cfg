SPECIFICATION DisputeSpec
CONSTANTS
  d1 = d1
  d2 = d2
  s1 = s1
  c1 = c1
  c2 = c2
  Device = {d1, d2}
  Session = {s1}
  Client <- FromFirst
  Server <- ToSecond
  Content = {c1, c2}
  Mentions <- AllPairs
  Pair = {1}
  Clashes = {}
  Action = {"duplicate", "distinct"}
  Commands <- TwoReconcilers
  Torn = FALSE
  Epoch = {"e"}
  Retry = {FALSE}
  Requests = 2
  MaxJobs = 1
  PageSize = 2
  Capacity = 8
  Attempts = 2
  MaxSigned = 8
  MaxFaults = 0
INVARIANTS ReceiptsReplay AskedOnceUnlessConcurrent PublishedIsComplete
CHECK_DEADLOCK FALSE
