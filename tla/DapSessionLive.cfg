SPECIFICATION FairSpec
CONSTANTS
  Targets = {}
  None = None
  RunDAPServer = TRUE
  MaxSessions = 3
  MaxPending = 2
  MaxBoxes = 2
INVARIANTS
  NoOrphanAdapter
PROPERTIES
  LossEndsRun
  EndedReaderIsJoined
\* The plugin may be unloaded, after which nothing happens.
CHECK_DEADLOCK FALSE
