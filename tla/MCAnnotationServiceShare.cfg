CONSTANTS
  Client = {c1, c2}
  Path = {p}
  Mark = {}
  Call <- SaveCalls
  Foreign = {}
  Leaving = {c1}
  Steady = {c2}
  MailboxCapacity = 1
  EventCapacity = 1
  PendingCapacity = 1
  MaxCalls = 2
  MaxInspections = 0
SPECIFICATION FairSpec
INVARIANTS
  ReadyAgrees
PROPERTIES
  SteadyClientsAnswered
