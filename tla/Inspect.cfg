\* What the plugin shows of a stopped debuggee.
SPECIFICATION Spec
CONSTANTS
  Threads = {t1}
  t1 = t1
  Symbols = {"s"}
  Watched = {"s"}
  RegistersShown = TRUE
  DisassemblyShown = TRUE
  MemoryShown = TRUE
  MaxDepth = 2
  MaxStops = 2
  MaxActs = 2
  MaxSessions = 1
  None = None
INVARIANTS
  TypeOK
  FrameInRange
  RegistersAreRegisters
  ValuesAreCurrent
PROPERTIES
  
  StopIsShown
\* The user stops when the acts are used up.
CHECK_DEADLOCK FALSE
