CONSTANTS
  Projects = {p1, p2}
  Addresses = {a1, a2}
  Null = Null
  Symbols = {"x"}
  Types = {"int"}
  Edits <- MCEdits
  Lines = {1}
  MaxWatches = 2
  MaxBreakpoints = 1
  MaxInterrupted = 1
  MaxActs = 2
SYMMETRY Symmetry
SPECIFICATION Spec
INVARIANTS
  TypeOK
  NoneLeftBehind
PROPERTIES
  WatchesSurvive
  LoadAddsNoTwin
CHECK_DEADLOCK FALSE
