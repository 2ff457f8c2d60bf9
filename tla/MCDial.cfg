SPECIFICATION FairSpec
CONSTANTS
  AttemptCount = 2
INVARIANTS
  OutstandingExact
  InterleaveFair
PROPERTIES
  LosersClosed
CHECK_DEADLOCK FALSE
