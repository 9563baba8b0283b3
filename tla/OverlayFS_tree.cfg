SPECIFICATION Spec
CONSTANTS
  Paths <- MCPaths
  Targets <- MCTargets
  Lower <- MCLower
  MaxSymlinkDepth = 2
INVARIANTS ListsTheView ActsAsOneTree
CHECK_DEADLOCK FALSE
