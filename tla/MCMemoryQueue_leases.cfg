CONSTANTS
  j1 = j1
  j2 = j2
  Jobs = {j1, j2}
  Concurrency = 2
  VisibilityTimeout = 6
  MaxAttempts = 2
  Delays = {0, 1}
  Blocks = {4, 5, 7}
  MaxBlocks = 2
  MaxReleases = 1
  Horizon = 1
SPECIFICATION FairSpec
INVARIANTS TimerCoversFuture MissesOnlyWhileBusy NoOverlap
PROPERTIES KeepsContract DueJobsAreClaimed
