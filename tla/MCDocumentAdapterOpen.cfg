CONSTANTS
  Scenario <- OpenOnly
  MailboxCapacity = 2
  CachedPages = 1
SPECIFICATION DocSpec
INVARIANTS
  OpenReportsAreOwn
CHECK_DEADLOCK FALSE
