SPECIFICATION FairSpec
CONSTANTS
  Script <- Narrow
  MaxChunk = 5
  MaxPending = 3
  MaxResets = 0
INVARIANTS
  ReadIsDelivered
PROPERTIES
  ImplementsChannel
\* The adapter stops when its script ends.
CHECK_DEADLOCK FALSE
