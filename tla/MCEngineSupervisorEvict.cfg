CONSTANTS
  ui = ui
  adapter = adapter
  Doc = {d1}
  Thread = {adapter}
  Class = {tiles, search}
  Batch <- EvictBatch
  Interactive = 2
  Leaving = {}
  Steady = {}
  Uses <- OpenReplaceUses
  MaxPending = 2
  RouteCapacity = 1
  MaxCalls = 3
SPECIFICATION Spec
PROPERTIES
  DomainsAreIndependent
CHECK_DEADLOCK FALSE
