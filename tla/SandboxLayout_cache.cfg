CONSTANTS
  Items = {"bin", "bin/ls", "tmp", "home", "home/guest"}
  Stubs = {"bin/ls"}
  Inside <- MCInside
  Envs = {"agent", "guest"}
  Layout <- MCLayout
  Base = "agent"
SPECIFICATION Spec
CHECK_DEADLOCK FALSE
INVARIANT CacheCoherent
PROPERTY LayoutPresent
