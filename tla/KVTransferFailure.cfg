SPECIFICATION Spec
CONSTANTS
  p1 = p1
  p2 = p2
  d1 = d1
  d2 = d2
  None = None
  Prefills = {p1, p2}
  Decodes = {d1}
  Setups <- FailureSetups
INVARIANT FailedIsQuiet
CHECK_DEADLOCK FALSE
