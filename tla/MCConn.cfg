SPECIFICATION FairSpec
CONSTANTS
  Calls = {c1}
  Setters = {s1}
  Kinds = {"tcp", "udp"}
  MaxTime = 1
INVARIANTS
  NoSpuriousCancel
  NoDeafWait
PROPERTIES
  RetriesEnd
  CallsEnd
CHECK_DEADLOCK FALSE
