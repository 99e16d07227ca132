SPECIFICATION FairSpec
CONSTANTS
  a = a
  b = b
  None = None
  Names = {a, b}
  PinnedNames = {a}
  MaxLoads = 2
  MaxLoadedLoras = 1
  MaxBatch = 1
  Calls = {c1, c2}
  Ctls = {k1}
  Paths <- MCSingle
  Kinds = {"str"}
  Ends = {"output", "echo5xx"}
  TokenizeFails = FALSE
  Disconnects = FALSE
  UnloadFails = FALSE
INVARIANT TypeOK
INVARIANT InUseIsLoaded
INVARIANT CounterExact
INVARIANT EventuallyConsistent
INVARIANT LoadedBound
PROPERTY UpdatesComplete
