CONSTANTS
  j1 = j1
  j2 = j2
  NoJob = NoJob
  Jobs = {j1, j2}
  MaxAttempts = 2
  MaxLapses = 1
  MaxFaults = 1
  MaxReleases = 1
SPECIFICATION FairSpec
INVARIANTS EachEndCountedOnce CallbacksExact CancelledLeavesNoneWaiting NoOrphans
PROPERTIES BatchFinishes
CHECK_DEADLOCK FALSE
