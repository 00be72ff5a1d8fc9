SPECIFICATION Spec
CONSTANTS
  Targets = {t1}
  None = None
  RunDAPServer = TRUE
  MaxSessions = 2
  MaxPending = 2
  MaxBoxes = 1
PROPERTIES
  DetachedTargetSurvives
\* The plugin may be unloaded, after which nothing happens.
CHECK_DEADLOCK FALSE
