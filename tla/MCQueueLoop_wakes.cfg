CONSTANTS
  j1 = j1
  j2 = j2
  r1 = r1
  r2 = r2
  r3 = r3
  Jobs = {j1, j2}
  RunIds = {r1, r2}
  Concurrency = 1
  MaxAttempts = 1
  Drivers = {"memory", "announcing", "polled"}
  MaxRefusals = 1
  MaxLapses = 0
  MaxReleases = 1
  MaxStops = 1
SPECIFICATION FairSpec
PROPERTIES DueJobsAreClaimed DrainResolves
CHECK_DEADLOCK FALSE
