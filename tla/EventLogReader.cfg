SPECIFICATION FairSpec
CONSTANTS
  Near = 2
  Buffer = 2
  Capacity = 3
  Writes = 5
  Clears = 1
  Delay = 1
  MaxTime = 2
INVARIANTS
  NothingSteppedOver
  WindowRead
  NotTwice
PROPERTIES
  PollEnds
CHECK_DEADLOCK FALSE
