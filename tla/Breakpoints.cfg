SPECIFICATION Spec
CONSTANTS
  File = {f1, f2}
  Line <- MCLine
  Object = {o1, o2}
  Shifts <- MCShifts
  Drift <- MCDrift
  Id = {i1, i2}
  NoId = NoId
  MaxRequests = 2
SYMMETRY Symmetry
INVARIANTS
  TypeOK
  NoTwins
  UniqueIds
  MapMirrorsList
  AdapterFollowsList
