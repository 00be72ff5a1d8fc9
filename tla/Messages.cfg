CONSTANTS
  MaxChanges = 2
  NoPath = NoPath
SPECIFICATION Spec
INVARIANTS
  TypeOK
  ReadBack
  AdapterIsHeard
  OmittedIsDefault
  NeverMistaken
CHECK_DEADLOCK FALSE
