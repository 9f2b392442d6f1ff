SPECIFICATION FairSpec
CONSTANTS
  Modes = {"udp", "tcp", "ping"}
  Messages = 2
  Outages = 2
  PingInterval = 1
  Minute = 3
  Startups = 4
INVARIANTS
  LeakNeedsOutage
  NoStaleSocket
  SendsConnected
PROPERTIES
  KeepsPromise
  EveryMessageSent
CHECK_DEADLOCK FALSE
