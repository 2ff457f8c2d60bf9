SPECIFICATION FairSpec
CONSTANTS
  Waits = {w1, w2}
  Closers = {c1}
  Handles = {h1}
  in = in
  out = out
  hup = hup
  Masks <- MixedMasks
  Terminal <- MCTerminal
  ChanCap = 1
  MaxGen = 1
  NoOne = NoOne
INVARIANTS
  WakeOnce
  NoLostWaiter
  InterestIsUnion
  QuietAfterStop
PROPERTIES
  CancelIsExact
  ImplementsReadinessWait
  CallersReturn
CHECK_DEADLOCK FALSE
