SPECIFICATION Spec
CONSTANTS
  Id = {i1, i2}
  None = None
  Commands = {"stackTrace", "scopes", "variables"}
  UsesVariableInfo = TRUE
  MaxSeq = 3
  MaxSteps = 1
  MaxEvents = 2
INVARIANTS
  TypeOK
  QueuesMirrorRequests
  InteractIsCurrent
PROPERTIES
  AnswersMatch
SYMMETRY Symmetry
