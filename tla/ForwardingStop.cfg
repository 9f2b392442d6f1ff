SPECIFICATION Spec
CONSTANTS
  NLogs = 1
  Captured = {1}
  QueueLimit = 1
  Faults = {"stop"}
  AppTraffic = FALSE
  Install = 1
  MaxTime = 3
  MaxRecords = 2
  MaxStarts = 2
INVARIANTS
  AllAccumulatedSent
CHECK_DEADLOCK FALSE
