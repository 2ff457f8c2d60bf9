SPECIFICATION Spec
CONSTANTS
  Waits = {w1, w2}
  Closers = {c1}
  Handles = {h1}
  in = in
  out = out
  hup = hup
  Masks <- MCMasks
  Terminal <- MCTerminal
  ChanCap = 1
  MaxGen = 1
  NoOne = NoOne
INVARIANTS ReusedHandleIsClean
CHECK_DEADLOCK FALSE
