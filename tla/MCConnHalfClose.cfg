SPECIFICATION FairSpec
CONSTANTS
  Calls = {c1}
  Setters = {s1}
  Kinds = {"tcp"}
  MaxTime = 1
PROPERTIES
  HalfCloseEnds
CHECK_DEADLOCK FALSE
