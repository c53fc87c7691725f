CONSTANTS
  Client = {c1}
  Path = {p, q}
  Mark = {m1, x}
  Call = {}
  Foreign = {x}
  Leaving = {}
  Steady = {c1}
  MailboxCapacity = 1
  EventCapacity = 1
  PendingCapacity = 1
  MaxCalls = 3
  MaxInspections = 0
  MaxGeneration = 2
  Pages = {0, 1}
  Zooms = {1, 2}
  Spots = {0, 1}
  Span <- SpanOf
  Links <- LinkTable
  Hits <- Found
  Retained = 1
  ReadingUses <- Habits
  InboxLimit = 2
SPECIFICATION MCSpec
INVARIANTS
  CleanMeansStored
  ViewIsCurrent
  NobodyWaits
PROPERTIES
  EditsAreKept
  WaitingOpenSettles
CHECK_DEADLOCK FALSE
