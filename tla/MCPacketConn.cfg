SPECIFICATION FairSpec
CONSTANTS
  k1 = k1
  SessionCount = 2
  Keys = {k1}
  KeyOf <- MCKeyOf
  Msgs <- MCMsgs
  IncomingCap = 1
  None = None
  Err = Err
INVARIANTS
  NewestIsReachable
  InOrder
  NothingLeftOpen
PROPERTIES
  CloseReturns
CHECK_DEADLOCK FALSE
