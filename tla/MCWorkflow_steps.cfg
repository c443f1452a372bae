CONSTANTS
  p1 = p1
  p2 = p2
  Procs = {p1, p2}
  Jobs = {1, 2, 3, 4, 5}
  NoJob = 0
  Last = 2
  Programs <- Overlapping
  Attempts = 2
  Backoff = 1
  Duration = 1
  TickAttempts = 2
  TickBackoff = 1
  Skew <- InStep
  Horizon = 0
  May = {"crashes", "stalls"}
  MaxMishaps = 1
SPECIFICATION Spec
INVARIANTS NeverStranded WokenInTime EffectsBounded OnePass CancelLeavesNoBatch
PROPERTY KeepsContract
CHECK_DEADLOCK FALSE
SYMMETRY Places
