SPECIFICATION Spec
CONSTANTS
  NLogs = 2
  Captured = {1}
  QueueLimit = 1
  Faults = {}
  AppTraffic = TRUE
  Install = 1
  MaxTime = 2
  MaxRecords = 2
  MaxStarts = 1
INVARIANTS
  PopsWhatItSent
PROPERTIES
  WindowStable
