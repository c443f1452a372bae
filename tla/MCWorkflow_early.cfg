CONSTANTS
  p1 = p1
  p2 = p2
  Procs = {p1, p2}
  Jobs = {1, 2, 3, 4}
  NoJob = 0
  Last = 2
  Programs <- JustSleeps
  Attempts = 2
  Backoff = 1
  Duration = 3
  TickAttempts = 2
  TickBackoff = 1
  Skew <- Ahead
  Horizon = 2
  May = {}
  MaxMishaps = 0
SPECIFICATION Spec
INVARIANT NeverStranded
CHECK_DEADLOCK FALSE
