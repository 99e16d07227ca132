CONSTANTS
  Calls = {c1, c2, c3}
  MaxFanOut = 2
  None = None
SPECIFICATION CommSpec
CHECK_DEADLOCK FALSE
INVARIANTS OneInFlight OwnReplies
PROPERTIES ArrivalOrder CallsReturn
