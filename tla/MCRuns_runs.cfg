CONSTANTS
  w = w
  f = f
  x = x
  c = c
  e = e
  Listeners = {w, f, x}
  Waiters = {w}
  Followers = {f}
  Workers = {x}
  Callers = {c, e}
  Casts <- Scenes
  Retain = 2
  BatchSize = 1
  MaxVersion <- Versions
  Outcomes = {"completed", "cancelled"}
  May = {"lost", "crashed", "closed"}
  MaxMishaps = 1
SPECIFICATION FairSpec
INVARIANT OneEnd
PROPERTIES WaitersLearn FollowersLearn
CHECK_DEADLOCK FALSE
