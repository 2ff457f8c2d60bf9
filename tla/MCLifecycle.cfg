SPECIFICATION FairSpec
CONSTANTS
  Listens = {l1}
  Established = {}
  Dials = {d1}
  Accepts = {a1}
  Timeouts = {"none", "timed", "forever"}
  Modes = {TRUE, FALSE}
INVARIANTS
  RegistryIsLive
  CloseStaysOut
PROPERTIES
  NothingForgotten
  ShutdownEnds
CHECK_DEADLOCK FALSE
