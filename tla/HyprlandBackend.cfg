SPECIFICATION FairSpec
CONSTANTS
  Workspaces = {w1, w2}
  Windows = {a1, a2}
  None = None
  MaxChanges = 2
  MaxDrops = 2
  MaxFailures = 1
  MaxRefusals = 1
  MaxRequests = 3
INVARIANTS
  ShownIsCurrentSession
  CoalescingLosesNothing
PROPERTIES
  QueuedWindowServed
  EventsRefresh
CHECK_DEADLOCK FALSE
