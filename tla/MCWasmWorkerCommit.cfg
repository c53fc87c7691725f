CONSTANTS
  MaxPendingEvents = 2
  MaxPendingResults = 2
  DrainLimit = 2
  EventLimit = 3
  CancelLimit = 1
SPECIFICATION WasmFairSpec
PROPERTIES
  CommitsAfterActivation
