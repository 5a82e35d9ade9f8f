SPECIFICATION FairSpec
CONSTANTS
  RequestIds = {r1, r2}
  d1 = d1
  d2 = d2
  v1 = v1
  v2 = v2
  s = s
  None = None
  DriveIds = {d1, d2}
  VolumeIds = {v1, v2}
  SiblingIds = {s}
  Topologies <- MCTopologies
  Confirmations <- MCConfirmations
INVARIANTS
  TypeOK
  LiveCallsIsolated
  ExactlyOneWakeup
  SuccessIsEarned
PROPERTIES
  RemovalsConfirmed
  ImplementsReservation
  EveryRequestEnds
CHECK_DEADLOCK FALSE
