SPECIFICATION Spec
CONSTANTS
    Names = {n1}
    PodStates <- MCPodStates
    NodeStates <- MCNodeStates
    DeploymentStates <- MCDeploymentStates
    AutoPodRestart = TRUE
    AutoDeploymentRestart = TRUE
    MaxChanges = 4
    MaxRestarts = 0
CHECK_DEADLOCK FALSE
INVARIANTS
    GaugeCountsCurrent
