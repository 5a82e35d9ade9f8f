SPECIFICATION ClientFairSpec
CONSTANTS
  InitialDelay = 1
  MaxDelay = 3
  MaxCommands = 3
  MaxTurns = 4
  MaxAttempts = 6
INVARIANTS
  CommandsFinishOnce
PROPERTIES
  Reconnects
CHECK_DEADLOCK FALSE
