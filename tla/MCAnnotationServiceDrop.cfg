CONSTANTS
  Client = {c1}
  Path = {p}
  Mark = {}
  Call <- SaveCalls
  Foreign = {}
  Leaving = {c1}
  Steady = {}
  MailboxCapacity = 2
  EventCapacity = 1
  PendingCapacity = 1
  MaxCalls = 1
  MaxInspections = 0
SPECIFICATION Spec
INVARIANTS
  AcceptedSavesSurviveDrop
