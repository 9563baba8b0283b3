CONSTANTS
  h3 = h3
  h1 = h1
  h2 = h2
  Handles <- MCTwoHandles
  Scenes <- MCReaderAndWriter
  Capacity = 1
  MaxBytes = 1
SPECIFICATION Spec
CHECK_DEADLOCK FALSE
INVARIANT EOFMeansWriterMet
