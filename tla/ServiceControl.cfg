SPECIFICATION FairSpec
CONSTANTS
  Main = Main
  Control = Control
  Workers = {w1}
  Faults = {"start", "host", "init", "exception", "error", "die", "interrogate", "clock"}
  Back = 1
INVARIANTS
  NoFalseStop
PROPERTIES
  StatusForward
  StopNoticed
CHECK_DEADLOCK FALSE
