CONSTANTS
  t1 = t1
  t2 = t2
  Reqs = {r1}
  Trainers = {t1, t2}
  Setups <- PauseTwiceSetups
  MaxTokens = 2
  Renotify = TRUE
  None = None
SPECIFICATION Spec
CHECK_DEADLOCK FALSE
PROPERTY CallsReturn
