SPECIFICATION Spec
CONSTANTS
  a = a
  b = b
  None = None
  Names = {a, b}
  PinnedNames = {}
  MaxLoads = 2
  MaxLoadedLoras = 2
  MaxBatch = 2
  Calls = {c1}
  Ctls = {k1}
  Paths <- MCBatch
  Kinds = {"list"}
  Ends = {"output"}
  TokenizeFails = FALSE
  Disconnects = FALSE
  UnloadFails = FALSE
INVARIANT InUseIsLoaded

CHECK_DEADLOCK FALSE
