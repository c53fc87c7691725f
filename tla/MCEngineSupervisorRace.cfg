CONSTANTS
  ui = ui
  adapter = adapter
  Doc = {d1}
  Thread = {ui, adapter}
  Class = {tiles}
  Batch <- RaceBatch
  Interactive = 2
  Leaving = {d1}
  Steady = {}
  Uses <- AppUses
  MaxPending = 2
  RouteCapacity = 1
  MaxCalls = 3
SPECIFICATION FairSpec
INVARIANTS
  OwnerConsistent
  StreamInOrder
PROPERTIES
  ReportsAreWanted
  OwnerJoins
