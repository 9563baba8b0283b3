CONSTANTS
  h1 = h1
  h2 = h2
  h3 = h3
  Handles <- MCHandles
  Scenes <- MCScenes
  Capacity = 2
  MaxBytes = 3
SPECIFICATION FairSpec
CHECK_DEADLOCK FALSE
INVARIANT TypeOK
INVARIANT ReaderSleepsOnlyIfBlocked
INVARIANT WriterSleepsOnlyIfBlocked
PROPERTY ImplementsChannel
PROPERTY CancelUnblocks
PROPERTY CloseUnblocks
PROPERTY LastWriterUnblocks
