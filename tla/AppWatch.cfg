SPECIFICATION FairSpec
CONSTANTS
  Modes = {"file", "directory", "rotate"}
  Prefixed = {TRUE, FALSE}
  Block = 3
  Lines = 3
  Rotations = 1
  Outages = 1
INVARIANTS
  LinesInOrder
  HeaderKept
  FirstLinesIgnored
PROPERTIES
  EveryLineSent
CHECK_DEADLOCK FALSE
