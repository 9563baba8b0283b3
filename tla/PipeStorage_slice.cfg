CONSTANTS
  MaxBufSize = 5
  Buckets <- MCBuckets
  MinAlloc = 2
  MaxBytes = 8
SPECIFICATION Spec
CHECK_DEADLOCK FALSE
INVARIANT InBounds
PROPERTY HoldsTheQueue
