SPECIFICATION Spec
CONSTANTS
  d = d
  v = v
  None = None
  ServiceName = ServiceName
  Drives = {d}
  Volumes = {v}
  DriveOf <- MCDriveOf
  MaxStarts = 1
  MaxCalls = 1
  MaxEvents = 3
INVARIANTS
  OneDevicePerId
  CompletionsFresh
  MountedVolumeListed
  QuietShowsWorld
CHECK_DEADLOCK FALSE
