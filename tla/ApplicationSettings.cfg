SPECIFICATION SettingsSpec
CONSTANTS
  FieldLimit = 2
  Room = 1
  MaxFields = 3
  Codes = {"", "date", "time", "s-computername", "s-ip", "s-sitename", "sc-win32-status", "sc-status"}
  Texts = {"log", "b"}
  WritesFail = TRUE
  MaxVisits = 2
  MaxStarts = 1
INVARIANTS
  NothingLost
  SeverityAgrees
  SuggestionFits
PROPERTIES
  SourceAgrees
CHECK_DEADLOCK FALSE
