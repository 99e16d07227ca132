CONSTANTS
  t1 = t1
  t2 = t2
  Reqs = {r1, r2}
  Trainers = {t1, t2}
  Setups <- PassSetups
  MaxTokens = 2
  Renotify = TRUE
  None = None
SPECIFICATION Spec
CHECK_DEADLOCK FALSE
INVARIANTS TypeOK SpansTruthful
PROPERTIES WriterUpdatesAlone UpdatesIdle RequestsAnswered CallsReturn
