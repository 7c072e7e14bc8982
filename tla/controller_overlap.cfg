SPECIFICATION Spec
CONSTANTS
    Controllers = {c1, c2}
    Actions = {a1}
    Supported = {a1}
    NoAction = NoAction
    Checkpoints <- MCShortCheckpoints
    NoCheckpoint = "none"
    CheckpointStep <- MCShortCheckpointStep
    MaxRetries = 1
    MaxCrashes = 0
    MaxTouches = 1
    MetricCap = 0
SYMMETRY MCControllerSymmetry
CHECK_DEADLOCK FALSE
INVARIANTS
    IInv
PROPERTIES
    MonotoneProgress
    ImplementsLifecycle
CONSTRAINT MCShortHistories
