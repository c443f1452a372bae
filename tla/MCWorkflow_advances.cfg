CONSTANTS
  p1 = p1
  p2 = p2
  Procs = {p1}
  Jobs = {1, 2, 3, 4, 5, 6}
  NoJob = 0
  Last = 2
  Programs <- Suspending
  Attempts = 2
  Backoff = 1
  Duration = 1
  TickAttempts = 2
  TickBackoff = 1
  Skew <- InStep
  Horizon = 0
  May = {"crashes", "faults"}
  MaxMishaps = 2
SPECIFICATION FairSpec
PROPERTY Settles
CHECK_DEADLOCK FALSE
