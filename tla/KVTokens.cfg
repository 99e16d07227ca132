CONSTANTS
  a = a
  b = b
  Reqs = {r1, r2}
  Pages = {p1, p2, p3}
  Tokens = {a, b}
  Prompts <- MCPrompts
  MaxLen = 3
  PageSize = 1
SYMMETRY Symmetry
SPECIFICATION KVSpec
INVARIANT TypeOK
INVARIANT OneOwner
INVARIANT NoLeak
INVARIANT ReadsOwnTokens
INVARIANT LocksExact
INVARIANT AccountingExact
PROPERTY FailsOnlyWhenFull
PROPERTY PoolSpec
CHECK_DEADLOCK FALSE
