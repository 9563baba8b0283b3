CONSTANTS
  c1 = c1
  c2 = c2
  c3 = c3
  s1 = s1
  s2 = s2
  NoOwner = NoOwner
  MaxInbox = 1
  Conns <- MCConns
  SessionIDs <- MCSessions
  MaxSessions = 1
  MaxConns = 2
  SessionTTL = 1
  Pipelining = FALSE
  Events = {"gone"}
SPECIFICATION Spec
SYMMETRY MCSymmetry
CHECK_DEADLOCK FALSE
INVARIANT TypeOK
INVARIANT SessionLimit
INVARIANT ConnLimit
INVARIANT ExecKeepsSession
INVARIANT NeverBusy
INVARIANT NoOrphans
PROPERTY RemovalJustified
PROPERTY ImplementsLease
