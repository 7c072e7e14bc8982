--------------------------- MODULE RemediationLoop ---------------------------
(***************************************************************************)
(* Agent, policy and controller as one loop: a Pod falls ill, the agent    *)
(* makes an Action of the diagnosis (cmd/agent, internal/policy), and the  *)
(* controller restarts the Pod (internal/action/pod_restart.go), which its *)
(* workload replaces.  The two processes share nothing but the Action, and *)
(* each sees the Pods through an informer of its own.                      *)
(*                                                                         *)
(* The reconciler is taken as the ActionLifecycle it implements: an error  *)
(* that is retried changes nothing here, the last one, or the deadline, is *)
(* Fail.  The executor's calls are one step each, with the status update   *)
(* that follows.  The workload keeps one Pod, and either gives each Pod a  *)
(* name of its own or uses one name again.                                 *)
(***************************************************************************)
EXTENDS Detectors, ActionPhases

CONSTANTS
    PodStates,   \* the statuses Pods take
    MaxUid,      \* bound: Pods ever created
    MaxChanges   \* bound: changes of a Pod's status

ASSUME LoopAssumption ==
    PodStates \subseteq PodStatuses /\ MaxUid \in Nat \ {0} /\ MaxChanges \in Nat

VARIABLES
    stable,      \* whether the workload uses names again
    pods,        \* the Pods at the API server
    lastUid,     \* the UID of the youngest Pod
    agentStore,  \* the Pods the store of the agent holds
    ctlCache,    \* the Pods the cache of the controller holds
    phase,       \* per Action, its phase
    target,      \* per Action, TargetUID in its status (0: not set)
    restarted,   \* the UIDs of Pods an Action deleted
    ill,         \* the UIDs of Pods that had a problem a restart may answer
    changes      \* changes so far

cluster == <<stable, pods, lastUid, ill, changes>>
control == <<phase, target, restarted>>
vars    == <<cluster, control, agentStore, ctlCache>>

Uids == 1 .. MaxUid

RestartReasons == {"CrashLoopBackOff", "OOMKilled"}

\* The name of an Action is a hash of the Pod's name and the reason.
Actions == Uids \X RestartReasons

Lifecycle == INSTANCE ActionLifecycle

Pods == [uid : Uids, name : Uids, status : PodStates, ready : BOOLEAN, terminating : BOOLEAN]

Named(set, name) == {p \in set : p.name = name}

(***************************************************************************)
(* The agent.                                                              *)
(***************************************************************************)

Suggested(p) == {r.reason : r \in {s \in DiagnosePod(p.status, FALSE) : s.action = "PodRestart"}}

SyncAgent ==
    /\ agentStore # pods
    /\ agentStore' = pods
    /\ UNCHANGED <<cluster, control, ctlCache>>


\* Mutant of CreateAction: an Action that has the name and is not active starts
\* over, its status kept.
CreateActionAgain(a) ==
    /\ \E p \in Named(agentStore, a[1]) : a[2] \in Suggested(p)
    /\ ~Lifecycle!Active(a)
    /\ phase' = [phase EXCEPT ![a] = ""]
    /\ UNCHANGED <<cluster, agentStore, ctlCache, target, restarted>>

\* A diagnosis is handled, for the first time or again: where an Action has the
\* name, finished or not, Create is refused and the policy takes it for done.
CreateAction(a) ==
    /\ \E p \in Named(agentStore, a[1]) : a[2] \in Suggested(p)
    /\ Lifecycle!Create(a)
    /\ UNCHANGED <<cluster, agentStore, ctlCache, target, restarted>>

(***************************************************************************)
(* The controller.                                                         *)
(***************************************************************************)

SyncController ==
    /\ ctlCache # pods
    /\ ctlCache' = pods
    /\ UNCHANGED <<cluster, control, agentStore>>

\* Accepted, then started.
Accept(a) ==
    /\ phase[a] \in {"", "Pending"}
    /\ Lifecycle!Advance(a)
    /\ UNCHANGED <<cluster, agentStore, ctlCache, target, restarted>>

\* The UID of the Pod that has the name is recorded.
Prepare(a) ==
    /\ phase[a] = "Running" /\ target[a] = 0
    /\ \E p \in Named(ctlCache, a[1]) : target' = [target EXCEPT ![a] = p.uid]
    /\ UNCHANGED <<cluster, agentStore, ctlCache, phase, restarted>>

Executing(a) == phase[a] = "Running" /\ target[a] # 0

Seen(a) == \E p \in Named(ctlCache, a[1]) : p.uid = target[a]

ExecuteAbsent(a) ==
    /\ Executing(a) /\ ~Seen(a)
    /\ Lifecycle!Advance(a)
    /\ UNCHANGED <<cluster, agentStore, ctlCache, target, restarted>>

\* Deletion by name.  Its answer, or the status update, may be lost.
Delete(a) ==
    /\ Executing(a) /\ Seen(a)
    /\ \E p \in Named(pods, a[1]) :
        /\ pods' = (pods \ {p}) \cup {[p EXCEPT !.terminating = TRUE]}
        /\ restarted' = IF p.terminating THEN restarted ELSE restarted \cup {p.uid}
    /\ Lifecycle!Advance(a) \/ UNCHANGED phase
    /\ UNCHANGED <<stable, lastUid, ill, changes, agentStore, ctlCache, target>>

\* Another ready Pod of the workload.
Verify(a) ==
    /\ phase[a] = "Verifying"
    /\ \E p \in ctlCache : p.uid # target[a] /\ p.ready
    /\ Lifecycle!Advance(a)
    /\ UNCHANGED <<cluster, agentStore, ctlCache, target, restarted>>

\* Out of retries, for one because the Pod is gone, or out of time.
Fail(a) ==
    /\ phase[a] \in {"Running", "Verifying"}
    /\ Lifecycle!Fail(a)
    /\ UNCHANGED <<cluster, agentStore, ctlCache, target, restarted>>

(***************************************************************************)
(* The workload and the kubelet.                                           *)
(***************************************************************************)

NewPod(uid, status) ==
    [uid |-> uid, name |-> IF stable THEN 1 ELSE uid, status |-> status,
     ready |-> FALSE, terminating |-> FALSE]

\* A name is used again when it is free; otherwise a terminating Pod is
\* replaced at once.
Replace ==
    /\ lastUid < MaxUid
    /\ \A p \in pods : p.terminating /\ ~stable
    /\ lastUid' = lastUid + 1
    /\ \E s \in PodStates :
        /\ s.containers = {}
        /\ pods' = pods \cup {NewPod(lastUid + 1, s)}
    /\ UNCHANGED <<stable, ill, changes, control, agentStore, ctlCache>>

\* The problems a restart may answer, said without the detector.
RestartSymptoms(status) ==
    {reason \in RestartReasons : \E c \in status.containers :
        \/ reason = "CrashLoopBackOff" /\ c.waiting = reason /\ c.restarted
        \/ reason = "OOMKilled" /\ c.last = reason}

Become(p, q) ==
    /\ pods' = (pods \ {p}) \cup {q}
    /\ ill' = IF RestartSymptoms(q.status) = {} THEN ill ELSE ill \cup {q.uid}
    /\ UNCHANGED <<stable, lastUid, control, agentStore, ctlCache>>

\* The containers start, crash, start again.
ChangeStatus(p) ==
    /\ changes < MaxChanges /\ changes' = changes + 1
    /\ \E s \in PodStates \ {p.status} :
        /\ s.pending => p.status.pending
        /\ Become(p, [p EXCEPT !.status = s, !.ready = FALSE])

BecomeReady(p) ==
    /\ ~p.ready /\ ~p.terminating
    /\ p.status.containers # {} /\ \A c \in p.status.containers : c.waiting = ""
    /\ Become(p, [p EXCEPT !.ready = TRUE])
    /\ UNCHANGED changes

Terminated(p) ==
    /\ p.terminating
    /\ pods' = pods \ {p}
    /\ UNCHANGED <<stable, lastUid, ill, changes, control, agentStore, ctlCache>>

(***************************************************************************)
(* Specification.                                                          *)
(***************************************************************************)

Init ==
    /\ stable \in BOOLEAN
    /\ \E s \in PodStates : s.containers = {} /\ pods = {NewPod(1, s)}
    /\ lastUid = 1
    /\ agentStore = {} /\ ctlCache = {}
    /\ Lifecycle!Init
    /\ target = [a \in Actions |-> 0]
    /\ restarted = {} /\ ill = {}
    /\ changes = 0

Executor(a) == Prepare(a) \/ ExecuteAbsent(a) \/ Delete(a) \/ Verify(a)

Controller == SyncController \/ \E a \in Actions : Accept(a) \/ Executor(a) \/ Fail(a)

Agent == SyncAgent \/ \E a \in Actions : CreateAction(a)

Cluster == Replace \/ \E p \in pods : ChangeStatus(p) \/ BecomeReady(p) \/ Terminated(p)

Next == Agent \/ Controller \/ Cluster

Spec == Init /\ [][Next]_vars

\* Watches deliver, a diagnosis that lasts is handled again until an Action is
\* made, unfinished Actions are reconciled, and kubelets stop deleted Pods.
Fairness ==
    /\ WF_vars(SyncAgent) /\ WF_vars(SyncController)
    /\ WF_vars(\E p \in pods : Terminated(p))
    /\ \A a \in Actions : WF_vars(CreateAction(a)) /\ WF_vars(Accept(a)) /\ WF_vars(Executor(a))

FairSpec == Spec /\ Fairness

(***************************************************************************)
(* Properties.                                                             *)
(***************************************************************************)

\* Every variable keeps its shape, no two Pods have a name, and only an Action
\* that was started has a target in its status.
TypeOK ==
    /\ pods \subseteq Pods /\ agentStore \subseteq Pods /\ ctlCache \subseteq Pods
    /\ \A p, q \in pods : p.name = q.name => p = q
    /\ lastUid \in Uids
    /\ Lifecycle!TypeOK
    /\ target \in [Actions -> 0 .. MaxUid]
    /\ \A a \in Actions : target[a] # 0 => phase[a] \in {"Running", "Verifying", "Succeeded", "Failed"}
    /\ restarted \subseteq Uids /\ ill \subseteq Uids

\* Where names are not used again, a restart hits a Pod that was ill itself,
\* though diagnosis, checkpoint and deletion each rest on another, older look
\* at the cluster.
OnlyIllRestarted == ~stable => restarted \subseteq ill


\* The name of createIfNoActive (policy.go:92): when no Action for a problem is
\* active, there will be one, or the problem goes away.
RemediedUnlessActive ==
    \A reason \in RestartReasons :
        LET Lasts   == \E p \in pods : reason \in RestartSymptoms(p.status)
            InHands == \E a \in Actions : a[2] = reason /\ Lifecycle!Active(a)
        IN  (Lasts /\ ~InHands) ~> (~Lasts \/ InHands)
=============================================================================
