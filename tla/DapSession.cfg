SPECIFICATION Spec
CONSTANTS
  Targets = {t1}
  None = None
  RunDAPServer = TRUE
  MaxSessions = 2
  MaxPending = 3
  MaxBoxes = 2
INVARIANTS
  TypeOK
  RunningIsServed
  LossComesLast
  HandshakeAnswerComes
  AnsweredIsCurrent
  LaunchAfterInitialize
PROPERTIES
  LaunchOnce
\* The plugin may be unloaded, after which nothing happens.
CHECK_DEADLOCK FALSE
