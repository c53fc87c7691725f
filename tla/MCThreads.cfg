CONSTANTS
  ui = ui
  adapter = adapter
  Doc = {d1, d2}
  Thread = {adapter}
  Class = {tiles}
  Batch <- LiveBatch
  Interactive = 2
  Leaving = {}
  Steady = {d2}
  Uses <- OpenReplaceUses
  MaxPending = 2
  RouteCapacity = 1
  MaxCalls = 2
  MaxPendingEvents = 2
  MaxPendingResults = 2
  DrainLimit = 2
  EventLimit = 3
  CancelLimit = 1
SPECIFICATION ThreadsSpec
INVARIANTS
  RotationIsFair
  MailboxFaithful
PROPERTIES
  SteadyDocumentsSettle
  MailboxMoves
CHECK_DEADLOCK FALSE
