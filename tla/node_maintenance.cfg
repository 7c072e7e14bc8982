SPECIFICATION Spec
CONSTANTS
    Controllers = {c1}
    Actions = {a1}
    NoAction = NoAction
    MaxRetries = 1
    MaxCrashes = 1
    PodNames = {p1}
    MaxMoves = 1
CHECK_DEADLOCK FALSE
INVARIANTS
    TypeOK
    CordonedWhileMaintained
PROPERTIES
    EvictsCordoned
