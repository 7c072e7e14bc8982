------------------------------ MODULE Detectors ------------------------------
(***************************************************************************)
(* The detectors of src/internal/diagnosis: what each of them reads off    *)
(* one object.  A result is a record of reason, severity and the action    *)
(* suggested ("" for none); evidence and summary are left out.  No         *)
(* detector gives a reason twice for an object, so results are a set.      *)
(***************************************************************************)
EXTENDS Naturals

Result(reason, severity, action) ==
    [reason |-> reason, severity |-> severity, action |-> action]

(***************************************************************************)
(* Pods.  A container status, of an init container or another, is the      *)
(* reason it waits for, whether RestartCount is above zero, and the reason *)
(* of its last termination ("" where there is none).                       *)
(***************************************************************************)

ContainerStatuses == [waiting : {"", "ContainerCreating", "CrashLoopBackOff",
                                 "ImagePullBackOff", "ErrImagePull"},
                      restarted : BOOLEAN,
                      last : {"", "Error", "OOMKilled"}]

PodStatuses == [pending : BOOLEAN, containers : SUBSET ContainerStatuses]

\* Mutant of Crashing: a container that waits is not asked for its restarts.
CrashingEver(c) == c.waiting = "CrashLoopBackOff"

Crashing(c) == c.waiting = "CrashLoopBackOff" /\ c.restarted

PullFailing(c) == c.waiting \in {"ImagePullBackOff", "ErrImagePull"}

PodResults == {Result("FailedScheduling", "warning", ""),
               Result("CrashLoopBackOff", "critical", "PodRestart"),
               Result("ImagePullBackOff", "warning", ""),
               Result("OOMKilled", "critical", "PodRestart")}

\* unschedulable: a warning FailedScheduling Event carries the UID of the Pod.
DiagnosePod(pod, unschedulable) ==
    {r \in PodResults :
        \/ r.reason = "FailedScheduling" /\ pod.pending /\ unschedulable
        \/ r.reason = "CrashLoopBackOff" /\ \E c \in pod.containers : Crashing(c)
        \/ r.reason = "ImagePullBackOff" /\ \E c \in pod.containers : PullFailing(c)
        \/ r.reason = "OOMKilled" /\ \E c \in pod.containers : c.last = "OOMKilled"}

(***************************************************************************)
(* Nodes: the set of their conditions, each type at most once.             *)
(***************************************************************************)

Conditions == [type : {"Ready", "MemoryPressure", "DiskPressure", "PIDPressure"},
               status : {"True", "False", "Unknown"}]

NodeResults == {Result(reason, "critical", "NodeMaintenance") :
                    reason \in {"NotReady", "MemoryPressure", "DiskPressure"}}

DiagnoseNode(conditions) ==
    {r \in NodeResults : \E c \in conditions :
        \/ r.reason = "NotReady" /\ c.type = "Ready" /\ c.status # "True"
        \/ r.reason = c.type /\ c.status = "True"}

(***************************************************************************)
(* Deployments: replicas desired and available, and whether the status is  *)
(* that of the current generation.  The API server sets spec.replicas when *)
(* nobody did, so it is never missing.                                     *)
(***************************************************************************)

DeploymentStatuses == [desired : Nat, available : Nat, observed : BOOLEAN]

DeploymentResults == {Result("DeploymentReplicasUnavailable", severity, "") :
                          severity \in {"warning", "critical"}}

DiagnoseDeployment(d) ==
    {r \in DeploymentResults :
        /\ d.observed /\ d.available < d.desired
        /\ r.severity = IF d.available = 0 THEN "critical" ELSE "warning"}

Results == PodResults \cup NodeResults \cup DeploymentResults
=============================================================================
