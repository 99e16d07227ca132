SPECIFICATION FairSpec
CONSTANTS
  p1 = p1
  p2 = p2
  d1 = d1
  d2 = d2
  None = None
  Prefills = {p1, p2}
  Decodes = {d1}
  Setups <- PassSetups
INVARIANTS TypeOK DrainedIsQuiet CommitComplete
PROPERTIES PagesReleased SendersConclude
CHECK_DEADLOCK FALSE
