CONSTANTS
  c1 = c1
  c2 = c2
  s1 = s1
  s2 = s2
  c3 = c3
  NoOwner = NoOwner
  MaxInbox = 1
  Conns <- MCOneConn
  SessionIDs <- MCOneSession
  MaxSessions = 1
  MaxConns = 1
  SessionTTL = 1
  Pipelining = FALSE
  Events = {"bad", "stall", "half", "gone", "acceptError", "shutdown"}
SPECIFICATION FairSpec
CHECK_DEADLOCK FALSE
PROPERTY DisconnectStopsExec
PROPERTY GoneIsReleased
PROPERTY ShutdownCompletes
PROPERTY IdleIsReaped
