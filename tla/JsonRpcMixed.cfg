SPECIFICATION Spec
CONSTANTS
  Script <- Mixed
  MaxChunk = 3
  MaxPending = 2
  MaxResets = 1
INVARIANTS
  TypeOK
  DeliveredInOrder
\* The adapter stops when its script ends.
CHECK_DEADLOCK FALSE
