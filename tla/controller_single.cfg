SPECIFICATION FairSpec
CONSTANTS
    Controllers = {c1}
    Actions = {a1, a2}
    Supported = {a1}
    NoAction = NoAction
    Checkpoints <- MCNoCheckpoints
    NoCheckpoint = "none"
    CheckpointStep = {}
    MaxRetries = 1
    MaxCrashes = 1
    MaxTouches = 0
    MetricCap = 0
CHECK_DEADLOCK FALSE
INVARIANTS
    TypeOK
    NoLostWork
    FailureJustified
    AuditTrail
PROPERTIES
    EventuallySettled
