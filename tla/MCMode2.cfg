SPECIFICATION Spec
CONSTANTS
  WorkerCount = 1
  Procs = {g1, g2}
  Raws = {r1}
  NoRaw = NoRaw
  MaxHandle = 2
  HandleSpace = 8
  OpCap = 1
  BatchLimit = 1
  Events = {"in", "out"}
  CallKinds = {"accept", "close", "wake", "wait"}
  AllocBound = 3
SYMMETRY Symmetry
INVARIANTS
  RawCallsHitTheirSession
  TablesAgree
  NobodyStranded
PROPERTIES
  ImplementsSessionStore
CHECK_DEADLOCK FALSE
