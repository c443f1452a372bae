CONSTANTS
  p1 = p1
  p2 = p2
  j1 = j1
  j2 = j2
  Jobs = {j1, j2}
  Procs = {p1, p2}
  Nobody = Nobody
  Knows <- KnowSome
  MaxAttempts = 1
  Concurrency = 2
  VisibilityTimeout = 3
  Grace = 1
  Delays = {1}
  TwoPass = TRUE
  Horizon = 2
  MaxFaults = 1
  MaxMissed = 0
  MaxReleases = 1
  MaxRetries = 0
SPECIFICATION FairSpec
PROPERTIES EveryJobEnds KeepsContract
