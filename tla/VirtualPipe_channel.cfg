CONSTANTS
  r1 = r1
  r2 = r2
  w1 = w1
  w2 = w2
  Readers <- MCReaders
  Writers <- MCOneWriter
  BufSize = 2
  MaxBytes = 3
  SharedDeadline = FALSE
SPECIFICATION FairSpec
CHECK_DEADLOCK FALSE
PROPERTY EOFIsFinal
PROPERTY ImplementsChannel
PROPERTY CloseUnblocks
PROPERTY DeadlineUnblocks
