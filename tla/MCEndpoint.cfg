SPECIFICATION FairSpec
CONSTANTS
  Procs = {p1, p2}
  ThreadCount = 3
  Configs = {c1, c2, c3, c4}
  c1 = c1
  c2 = c2
  c3 = c3
  c4 = c4
  k1 = k1
  k2 = k2
  p1 = p1
  p2 = p2
  PairOf <- MCPairOf
  Requests <- MCRequests
  MaxIdx = 2
  None = None
INVARIANTS
  RunsAlone
  CallsFromWorkers
  FailureLeavesNothing
  RightCertificate
PROPERTIES
  CallsReturn
CHECK_DEADLOCK FALSE
