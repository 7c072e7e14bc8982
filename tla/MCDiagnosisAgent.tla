-------------------------- MODULE MCDiagnosisAgent --------------------------
(***************************************************************************)
(* Values for model checking DiagnosisAgent: the statuses objects take.    *)
(***************************************************************************)
EXTENDS DiagnosisAgent

Container(waiting, restarted, last) ==
    [waiting |-> waiting, restarted |-> restarted, last |-> last]

Pod(pending, containers) == [pending |-> pending, containers |-> containers]

\* New; an image that is missing; a first crash; a crash loop out of memory.
MCPodStates == {
    Pod(TRUE, {}),
    Pod(TRUE, {Container("ErrImagePull", FALSE, "")}),
    Pod(FALSE, {Container("CrashLoopBackOff", FALSE, "Error")}),
    Pod(FALSE, {Container("CrashLoopBackOff", TRUE, "OOMKilled"), Container("", FALSE, "")})}

\* Not registered yet; in order; lost while short of memory.
MCNodeStates == {
    {},
    {[type |-> "Ready", status |-> "True"], [type |-> "MemoryPressure", status |-> "False"]},
    {[type |-> "Ready", status |-> "Unknown"], [type |-> "MemoryPressure", status |-> "True"]}}

\* Not observed; all, some, none of the replicas available.
MCDeploymentStates ==
    {[desired |-> 2, available |-> 0, observed |-> FALSE]} \cup
    {[desired |-> 2, available |-> a, observed |-> TRUE] : a \in 0 .. 2}
=============================================================================
