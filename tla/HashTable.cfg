SPECIFICATION Spec
CONSTANTS
  k1 = k1
  k2 = k2
  b1 = b1
  b2 = b2
  Keys = {k1, k2}
  Buckets = {b1, b2}
  HIndex <- Collide
  Iters = {i1, i2}
  MaxEntries = 4
  NULL = NULL
INVARIANTS LocksCountIterators DestroyedOnce IterationComplete
PROPERTY ImplementsDict
