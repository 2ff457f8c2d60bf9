SPECIFICATION FairSpec
CONSTANTS
  WorkerCount = 2
  Procs = {g1}
  Raws = {r1}
  NoRaw = NoRaw
  MaxHandle = 2
  HandleSpace = 8
  OpCap = 1
  BatchLimit = 1
  Events = {"in"}
  CallKinds = {"close", "wait"}
  AllocBound = 2
INVARIANTS
  DestroyedLast
PROPERTIES
  StopCompletes
  CallsEnd
CHECK_DEADLOCK FALSE
