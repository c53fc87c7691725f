CONSTANTS
  Client = {c1}
  Path = {p}
  Mark = {}
  Call <- SafetyCalls
  Foreign = {}
  Leaving = {c1}
  Steady = {}
  MailboxCapacity = 1
  EventCapacity = 1
  PendingCapacity = 1
  MaxCalls = 3
  MaxInspections = 1
SPECIFICATION FairSpec
INVARIANTS
  AnswersComplete
  NothingForgotten
  ShutdownDrains
PROPERTIES
  DiagnosticsAfterCleanup
  CleanupCompletes
