CONSTANTS
  p1 = p1
  p2 = p2
  j1 = j1
  j2 = j2
  Jobs = {j1}
  Procs = {p1, p2}
  Nobody = Nobody
  Knows <- KnowAll
  MaxAttempts = 2
  Concurrency = 2
  VisibilityTimeout = 3
  Grace = 2
  Delays = {0}
  TwoPass = FALSE
  Horizon = 0
  MaxFaults = 1
  MaxMissed = 2
  MaxReleases = 1
  MaxRetries = 1
SPECIFICATION Spec
INVARIANTS OnlyNewestClaimCounts AttemptNamesOneRun AttemptsBounded NoOverlap
PROPERTIES OnlyHolderEnds
SYMMETRY Alike
