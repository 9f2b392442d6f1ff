SPECIFICATION FairSpec
CONSTANTS
  Logs = {"System"}
  Types = {"Success", "Warning"}
  Texts = {"none", "a", "b"}
  NoAddress = "none"
  Address = "a"
  Priorities = {28}
  Applications = {"web"}
  Others = {"start", "stop", "install", "remove"}
  KeysFail = TRUE
  MaxClicks = 3
INVARIANTS
  ReadersAgree
  StaleExplained
PROPERTIES
  EditsSaved
  RestartEnds
CHECK_DEADLOCK FALSE
