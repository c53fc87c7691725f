CONSTANTS
  Scenario <- Uses
  MailboxCapacity = 2
  CachedPages = 1
SPECIFICATION DocFairSpec
INVARIANTS
  NoForeignContent
  OneEventRouted
PROPERTIES
  JobsEnd
CHECK_DEADLOCK FALSE
