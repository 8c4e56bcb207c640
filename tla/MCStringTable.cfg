\* Every allocation may fail and the pool may move.
SPECIFICATION Spec
CONSTANTS
  a = a
  b = b
  c = c
  d = d
  Strings <- MCStrings
  LenOf <- MCLenOf
  HashOf <- MCHashOf
  Primes <- MCPrimes
  MinDedupLen = 4
  MaxLength = 100
  InitialCapacity = 2
  LoadPercent = 75
  InitialPool = 8
  GrowPercent = 150
  AllocFails = TRUE
  PoolMoves = TRUE
  MaxEntries = 3
  MaxRefs = 2
  MaxPool = 40
INVARIANTS
  TypeOK
  ChainsSound
  PoolDisjoint
  IssuedIdsResolve
  Interned
PROPERTY
  KeepsThePromise
CHECK_DEADLOCK FALSE
