SPECIFICATION FairSpec
CONSTANTS
  r1 = r1
  r2 = r2
  r3 = r3
  repo1 = repo1
  repo2 = repo2
  s1 = s1
  s2 = s2
  plain = plain
  linked = linked
  c1 = c1
  c2 = c2
  None = None
  Repo = {repo1, repo2}
  Run = {r1, r2}
  Home <- TwoHomes
  Snapshot = {s1}
  Body = {plain, linked}
  DecisionBearing = {linked}
  ClaimId = {c1}
  MaxGeneration = 1
  MaxFaults = 2
INVARIANTS SealedClaimsAreDurable
PROPERTIES AttemptsEnd
