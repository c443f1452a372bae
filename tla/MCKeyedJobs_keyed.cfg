CONSTANTS
  Jobs = {1, 2}
  Procs = {11, 12}
  Nobody = 0
  Kinds <- UniqueOrLimited
  MaxAttempts = 2
  Rounds = 2
  MaxMishaps = 1
SPECIFICATION FairSpec
INVARIANTS OnePerKey KeyHeldForAJob LimitsHold
PROPERTY EveryJobEnds
CHECK_DEADLOCK FALSE
