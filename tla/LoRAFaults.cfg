SPECIFICATION Spec
CONSTANTS
  a = a
  b = b
  None = None
  Names = {a, b}
  PinnedNames = {}
  MaxLoads = 2
  MaxLoadedLoras = 2
  MaxBatch = 2
  Calls = {c1}
  Ctls = {k1}
  Paths <- MCBatch
  Kinds = {"str", "list"}
  Ends = {"output", "output5xx", "echo"}
  TokenizeFails = TRUE
  Disconnects = TRUE
  UnloadFails = TRUE
INVARIANT RegistryCounted

CHECK_DEADLOCK FALSE
