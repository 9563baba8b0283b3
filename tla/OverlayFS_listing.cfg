SPECIFICATION Spec
CONSTANTS
  Paths <- MCPaths
  Targets <- MCTargets
  Lower <- MCLower
  MaxSymlinkDepth = 2
INVARIANT VisibleDirsList
CHECK_DEADLOCK FALSE
