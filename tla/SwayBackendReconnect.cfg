SPECIFICATION FairSpec
CONSTANTS
  w1 = w1
  w2 = w2
  Workspaces = {w1}
  Slots = {}
  Windows = {a1}
  None = None
  WorkspacesAt <- MCWorkspacesAt
  MaxVersion = 1
  MaxDrops = 1
  MaxRejections = 1
  MaxFailures = 0
  MaxRefusals = 0
  MaxRequests = 0
PROPERTIES
  ReconnectsRefresh
CHECK_DEADLOCK FALSE
