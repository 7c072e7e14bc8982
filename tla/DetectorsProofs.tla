---------------------------- MODULE DetectorsProofs ----------------------------
(***************************************************************************)
(* What the detectors suggest a PodRestart for.                            *)
(***************************************************************************)
EXTENDS Detectors, TLAPS

\* No detector suggests a DeploymentRestart, and only that of Pods a PodRestart.
LEMMA SuggestedActions ==
    /\ \A r \in PodResults : r.action \in {"", "PodRestart"}
    /\ \A r \in NodeResults : r.action = "NodeMaintenance"
    /\ \A r \in DeploymentResults : r.action = ""
  <1>1. \A r \in PodResults : r.action \in {"", "PodRestart"}
    <2> SUFFICES ASSUME NEW r \in PodResults
                 PROVE  r.action \in {"", "PodRestart"}
      OBVIOUS
    <2>1. CASE r = Result("FailedScheduling", "warning", "")
      BY <2>1 DEF Result
    <2>2. CASE r = Result("CrashLoopBackOff", "critical", "PodRestart")
      BY <2>2 DEF Result
    <2>3. CASE r = Result("ImagePullBackOff", "warning", "")
      BY <2>3 DEF Result
    <2>4. CASE r = Result("OOMKilled", "critical", "PodRestart")
      BY <2>4 DEF Result
    <2> QED BY <2>1, <2>2, <2>3, <2>4 DEF PodResults
  <1>2. \A r \in NodeResults : r.action = "NodeMaintenance"
    BY DEF NodeResults, Result
  <1>3. \A r \in DeploymentResults : r.action = ""
    <2> SUFFICES ASSUME NEW r \in DeploymentResults
                 PROVE  r.action = ""
      OBVIOUS
    <2>1. PICK severity : r = Result("DeploymentReplicasUnavailable", severity, "")
      BY DEF DeploymentResults
    <2> QED BY <2>1 DEF Result
  <1> QED BY <1>1, <1>2, <1>3

\* A restart is suggested for a crash loop or for memory that ran out.
LEMMA RestartReason ==
    ASSUME NEW pod, NEW unschedulable, NEW r \in DiagnosePod(pod, unschedulable),
           r.action = "PodRestart"
    PROVE  \/ r.reason = "CrashLoopBackOff" /\ \E c \in pod.containers : Crashing(c)
           \/ r.reason = "OOMKilled" /\ \E c \in pod.containers : c.last = "OOMKilled"
  <1>1. r \in PodResults
    BY DEF DiagnosePod
  <1>2. CASE r = Result("FailedScheduling", "warning", "")
    BY <1>2 DEF Result
  <1>3. CASE r = Result("ImagePullBackOff", "warning", "")
    BY <1>3 DEF Result
  <1>4. CASE r = Result("CrashLoopBackOff", "critical", "PodRestart")
    <2>1. r.reason = "CrashLoopBackOff"
      BY <1>4 DEF Result
    <2> QED BY <2>1 DEF DiagnosePod
  <1>5. CASE r = Result("OOMKilled", "critical", "PodRestart")
    <2>1. r.reason = "OOMKilled"
      BY <1>5 DEF Result
    <2> QED BY <2>1 DEF DiagnosePod
  <1> QED BY <1>1, <1>2, <1>3, <1>4, <1>5 DEF PodResults
=============================================================================
