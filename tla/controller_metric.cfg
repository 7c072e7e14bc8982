SPECIFICATION Spec
CONSTANTS
    Controllers = {c1}
    Actions = {a1}
    Supported = {a1}
    NoAction = NoAction
    Checkpoints <- MCNoCheckpoints
    NoCheckpoint = "none"
    CheckpointStep = {}
    MaxRetries = 2
    MaxCrashes = 0
    MaxTouches = 0
    MetricCap = 2
CHECK_DEADLOCK FALSE
INVARIANTS
    MetricCountsCompletions
