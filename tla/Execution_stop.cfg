CONSTANTS
  Tasks <- MCTasks
  Scenes <- MCScenes
  Limit = 1
  SpillMax = 2
  SpillDir = TRUE
SPECIFICATION FairSpec
CHECK_DEADLOCK FALSE
INVARIANT TypeOK
INVARIANT CountersExact
INVARIANT NothingOutlives
INVARIANT ResultComplete
PROPERTY CancelJustified
PROPERTY ExecReturns
