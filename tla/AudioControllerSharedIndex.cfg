SPECIFICATION Spec
CONSTANTS
    Objects <- Shared
    Monitors = {}
    MaxEvents = 1
INVARIANTS
    StreamsListed
CHECK_DEADLOCK FALSE
