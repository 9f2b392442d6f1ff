SPECIFICATION FairSpec
CONSTANTS
  Producers = {p1, p2}
  Out = out
  Reporters = {p1, out}
  LineLimit = 1
  NoticeLimit = 2
  ErrorLimit = 1
INVARIANTS
  QueueBounded
  NoticesBounded
  Exclusive
PROPERTIES
  KeepsSending
