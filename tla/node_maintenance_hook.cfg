SPECIFICATION Spec
CONSTANTS
    Controllers = {c1}
    Actions = {a1}
    NoAction = NoAction
    MaxRetries = 2
    MaxCrashes = 0
    PodNames = {p1}
    MaxMoves = 0
CHECK_DEADLOCK FALSE
PROPERTIES
    HookAfterTermination
