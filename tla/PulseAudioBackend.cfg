SPECIFICATION FairPulseSpec
CONSTANTS
    kMaxReconnectAttempts = 8
    kMaximumLevelStreamRetries = 3
    MaxUsers = 2
    MaxStops = 1
    MaxQueue = 4
INVARIANTS
        RetriesBounded
    MicrophoneOnlyOnRequest
    LevelSettles
PROPERTIES
    Resolves
CHECK_DEADLOCK FALSE
