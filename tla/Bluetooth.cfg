SPECIFICATION MCSpec
CONSTANTS
  a = a
  d = d
  r1 = r1
  r2 = r2
  None = None
  Adapters = {a}
  Devices = {d}
  AdapterOf <- MCAdapterOf
  RequestIds = {r1, r2}
  Operations = {"Pair", "Connect", "PowerOn", "PowerOff", "StopDiscovery", "CancelPairing", "Forget", "Discoverable", "StartDiscovery"}
  MaxEvents = 2
INVARIANTS
  NoOrphanScan
  Settled
  OneObjectPerId
  InteractionsListed
PROPERTIES
  EveryRequestEnds
CHECK_DEADLOCK FALSE
