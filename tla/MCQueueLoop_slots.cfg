CONSTANTS
  j1 = j1
  j2 = j2
  r1 = r1
  r2 = r2
  r3 = r3
  Jobs = {j1, j2}
  RunIds = {r1, r2, r3}
  Concurrency = 2
  MaxAttempts = 2
  Drivers = {"polled"}
  MaxRefusals = 1
  MaxLapses = 1
  MaxReleases = 0
  MaxStops = 1
SPECIFICATION Spec
SYMMETRY Symmetry
INVARIANTS EveryRunTracked SlotsRespected DrainedMeansIdle
