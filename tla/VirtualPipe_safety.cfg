CONSTANTS
  r1 = r1
  r2 = r2
  w1 = w1
  w2 = w2
  Readers <- MCReaders
  Writers <- MCWriters
  BufSize = 2
  MaxBytes = 3
  SharedDeadline = FALSE
SPECIFICATION Spec
CHECK_DEADLOCK FALSE
INVARIANT TypeOK
INVARIANT WriterSleepsOnlyIfBlocked
INVARIANT ReaderSleepsOnlyIfBlocked
INVARIANT NothingLost
INVARIANT InOrder
