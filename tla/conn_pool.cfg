SPECIFICATION FairSpec
CONSTANTS
  w1 = w1
  w2 = w2
  Workers = {w1, w2}
  connection_n <- EvenPools
INVARIANTS
  MutualExclusion
  PoolBalance
  BooksExact
PROPERTIES
  NeverOverdraws
  ImplementsOwnership
  LockReleased
