SPECIFICATION Spec
CONSTANTS
  Paths <- MCPaths
  Targets <- MCTargets
  Seed <- MCSeed
  MaxSymlinkDepth = 2
  FinalKept = FALSE
INVARIANT EntryItself
CHECK_DEADLOCK FALSE
