SPECIFICATION Spec
CONSTANTS
  Script <- Wide
  MaxChunk = 4
  MaxPending = 2
  MaxResets = 0
INVARIANTS
  CompleteIsDelivered
\* The adapter stops when its script ends.
CHECK_DEADLOCK FALSE
