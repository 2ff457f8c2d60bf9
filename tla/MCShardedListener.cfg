SPECIFICATION FairSpec
CONSTANTS
  WorkerCount = 2
  p1 = p1
  p2 = p2
  Home <- MCHome
  Peers = {p1, p2}
  Acceptors = {a1}
  AcceptCap = 1
  NoPeer = NoPeer
  Err = Err
INVARIANTS
  AcceptedIsSomewhere
  RawClosedOnce
PROPERTIES
  ParkedLoopWakes
  CloseReturns
CHECK_DEADLOCK FALSE
