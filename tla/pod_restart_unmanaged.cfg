SPECIFICATION Spec
CONSTANTS
    Controllers = {c1}
    Actions = {a1}
    NoAction = NoAction
    MaxRetries = 2
    MaxCrashes = 0
    Replicas = 1
    StableNames = TRUE
    MaxUid = 2
    MaxLists = 6
CHECK_DEADLOCK FALSE
INVARIANTS
    UnmanagedNeverDeleted
