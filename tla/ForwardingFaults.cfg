SPECIFICATION Spec
CONSTANTS
  NLogs = 1
  Captured = {1}
  QueueLimit = 0
  Faults = {"stop", "open", "read", "exception", "registry"}
  AppTraffic = FALSE
  Install = 0
  MaxTime = 3
  MaxRecords = 2
  MaxStarts = 2
INVARIANTS
  CommitSafe
  NoResend
PROPERTIES
  Implements
CHECK_DEADLOCK FALSE
