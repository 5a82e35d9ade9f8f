SPECIFICATION FairSpec
CONSTANTS
  w1 = w1
  w2 = w2
  Workspaces = {w1, w2}
  Slots = {s1}
  Windows = {a1, a2}
  None = None
  WorkspacesAt <- MCWorkspacesAt
  MaxVersion = 3
  MaxDrops = 1
  MaxRejections = 1
  MaxFailures = 1
  MaxRefusals = 1
  MaxRequests = 2
INVARIANTS
  QuietShowsSway
PROPERTIES
  QueuedActivationsServed
  EventsRefresh
CHECK_DEADLOCK FALSE
