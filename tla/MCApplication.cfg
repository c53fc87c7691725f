CONSTANTS
  Startups <- Commands
  System <- Laptop
  Budgets = {0, 1, 2, 3, 5}
  Crowds <- SmallCrowds
  Packages <- Chain
  Manifest <- Manifests
  HostOffers = {"theme"}
  MaxQueued = 4
  EventsPerTick = 2
  EventsPerCause = 1
  EffectsPerEvent = 2
  DispatchDepth = 1
  ViolationLimit = 2
  MailboxEvents = 1
  ChainLimit = 4
  HostUses <- HostRuns
  Contents = {1, 2}
  Paths = {"a", "b"}
  Required <- Needs
  Optional <- May
  Deferred = {2}
  EditLimit = 1
  CallLimit = 4
  Docs = {"a", "b"}
  Webs = {"w1", "w2"}
  Papers = {"p"}
  Workers = {1, 2}
  QueueCapacity = 2
  FileLimit = 1
  Plans <- ReadingPlans
  ui = ui
  adapter = adapter
  Doc = {d1}
  Thread = {adapter}
  Class = {tiles, search}
  Batch <- CapacityBatch
  Interactive = 2
  Leaving = {}
  Steady = {}
  Uses <- OpenReplaceUses
  MaxPending = 2
  RouteCapacity = 1
  MaxCalls = 3
  Files <- Pdfs
  Ranges <- BothPages
  Anchors = {1}
  OutlineLimit = 2
  LinkLimit = 1
  GenerationLimit = 2
  PublishLimit = 3
  OverlayLimit = 1
SPECIFICATION AppSpec
INVARIANTS
  WorkspaceAgrees
  PlanIsRight
  HostConsistent
  UserDecides
  LookupsConsistent
  BridgeFaithful
PROPERTIES
  DraftsHoldTabs
  WorkersFinish
  EvictionSparesTheUrgent
CHECK_DEADLOCK FALSE
