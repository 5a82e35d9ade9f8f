SPECIFICATION Spec
CONSTANTS
    Objects <- Outputs
    Monitors <- Loopbacks
    MaxEvents = 2
INVARIANTS
    ModelsConverge
    ControlsDefault
    UnavailableShowsNoStreams
CHECK_DEADLOCK FALSE
