SPECIFICATION FairSpec
CONSTANTS
    PodStates <- MCPodStates
    MaxUid = 2
    MaxChanges = 2
CHECK_DEADLOCK FALSE
INVARIANTS
    TypeOK
    OnlyIllRestarted

    
