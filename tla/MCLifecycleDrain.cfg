SPECIFICATION FairSpec
CONSTANTS
  Listens = {l1}
  Established = {}
  Dials = {}
  Accepts = {}
  Timeouts = {"forever"}
  Modes = {TRUE}
PROPERTIES
  DrainEnds
CHECK_DEADLOCK FALSE
