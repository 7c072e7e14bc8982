SPECIFICATION FairSpec
CONSTANTS
    Names = {n1}
    PodStates <- MCPodStates
    NodeStates <- MCNodeStates
    DeploymentStates <- MCDeploymentStates
    AutoPodRestart = TRUE
    AutoDeploymentRestart = TRUE
    MaxChanges = 5
    MaxRestarts = 1
CHECK_DEADLOCK FALSE
INVARIANTS
    TypeOK
    GaugeCountsTracked
    ActionsJustified
    TrackedIsStored
PROPERTIES
    EventuallyAccurate
    EventuallyRemediated
