SPECIFICATION FairSpec
CONSTANTS
  d1 = d1
  d2 = d2
  s1 = s1
  c1 = c1
  c2 = c2
  Device = {d1, d2}
  Session = {s1}
  Client <- FromFirst
  Server <- ToSecond
  Content = {c1}
  Mentions <- AllPairs
  Pair = {1}
  Clashes = {}
  Action = {"duplicate"}
  Commands <- OneReconciler
  Torn = TRUE
  Epoch = {"e"}
  Retry = {FALSE, TRUE}
  Requests = 1
  MaxJobs = 1
  PageSize = 2
  Capacity = 8
  Attempts = 2
  MaxSigned = 3
  MaxFaults = 1
INVARIANTS TypeOK SpendWithinBudget EndsEven
PROPERTIES ViewsGrow Converges
CHECK_DEADLOCK FALSE
