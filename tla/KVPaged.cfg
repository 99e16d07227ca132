CONSTANTS
  a = a
  b = b
  Reqs = {r1, r2}
  Pages = {p1, p2, p3}
  Tokens = {a, b}
  Prompts <- MCPagedPrompts
  MaxLen = 5
  PageSize = 2
SYMMETRY Symmetry
SPECIFICATION KVSpec
INVARIANT NoLeak
INVARIANT ReadsOwnTokens
INVARIANT AccountingExact
PROPERTY FailsOnlyWhenFull
PROPERTY PoolSpec
CHECK_DEADLOCK FALSE
