CONSTANTS
  Key = {a, b, c}
  Priority = {0, 1}
  Capacity = 2
  MaxInFlight = 2
  MaxRevision = 4
  Writer = {1, 2}
  Version = {1, 2}
  RevisionLimit = 2
  FailureLimit = 1
  SwapLimit = 1
  Swaps = {}
  Drafts <- AllDrafts
  Pieces <- Clips
  Flags = {"bold", "code"}
  Kinds = {"Heading1", "Bulleted"}
  SizeLimit = 16
  EditLimit = 3
SPECIFICATION MCSpec
INVARIANTS
  TypeOK
  GateMatchesTokens
  WithinLimits
  IssuedAccounted
  TextSound
PROPERTIES
  ImplementsLatestWins
  EveryDemandSettles
  SavesAreAtomic
CHECK_DEADLOCK FALSE
