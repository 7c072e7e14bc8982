SPECIFICATION Spec
CONSTANTS
    Controllers = {c1}
    Actions = {a1}
    NoAction = NoAction
    MaxRetries = 2
    MaxCrashes = 1
    Replicas = 1
    MaxGeneration = 2
CHECK_DEADLOCK FALSE
INVARIANTS
    TypeOK
    SuccessIsObserved
    ExecutedMeansPatched
