SPECIFICATION Spec
CONSTANTS
  d = d
  v = v
  None = None
  ServiceName = ServiceName
  Drives = {d}
  Volumes = {v}
  DriveOf <- MCDriveOf
  RequestIds = {r1, r2}
  MaxStarts = 1
  MaxEvents = 2
  MaxIds = 3
SYMMETRY Symmetry
INVARIANTS
  CallsInOnePlace
  OperationsIsolated
PROPERTIES
  RemovalsSeeMounts
CHECK_DEADLOCK FALSE
