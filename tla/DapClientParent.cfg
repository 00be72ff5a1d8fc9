SPECIFICATION Spec
CONSTANTS
  Id = {i1, i2}
  None = None
  Commands = {"variables"}
  UsesVariableInfo = TRUE
  MaxSeq = 3
  MaxSteps = 1
  MaxEvents = 1
INVARIANTS
  ParentOfVariables
