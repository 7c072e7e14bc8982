----------------------------- MODULE PodRestart -----------------------------
(***************************************************************************)
(* PodRestartExecutor (src/internal/action/pod_restart.go) under the       *)
(* reconciler of ActionController, against Pods that a workload controller *)
(* replaces.  All Actions restart the Pod that has the name "target".      *)
(*                                                                         *)
(* The executor reads Pods from the informer cache podCache[c], an earlier *)
(* list of them, and deletes by name at the API server: the world may      *)
(* change between the read and the delete.  A cache goes forward while its *)
(* process lives; the next process may begin with an older list.           *)
(***************************************************************************)
EXTENDS Naturals, Sequences, FiniteSets

CONSTANTS
    Controllers, Actions, NoAction,
    MaxRetries, MaxCrashes,
    Replicas,     \* Pods the workload controller keeps
    StableNames,  \* it gives a replacement the name of the Pod it replaces
    MaxUid,       \* bound: Pods ever created
    MaxLists      \* bound: different lists of Pods

ASSUME ControllerAssumption ==
    NoAction \notin Actions /\ MaxRetries \in Nat \ {0} /\ MaxCrashes \in Nat

ASSUME PodAssumption ==
    /\ Replicas \in Nat \ {0}
    /\ StableNames \in BOOLEAN
    /\ MaxUid \in Nat /\ Replicas <= MaxUid
    /\ MaxLists \in Nat

VARIABLES
    log, expired, seen, queue, work, audit, metric, crashes, touches,
    pods,      \* the Pods at the API server
    lastUid,   \* the UID of the youngest Pod
    past,      \* every list of Pods the API server has had, the current one too
    podCache,  \* per controller, the list its cache holds
    managed,   \* whether the workload controller exists
    deleting,  \* the controllers between the read of Execute and its Delete
    deleted,   \* the deletions made: Action, UID it aimed at, UID of the victim
    misread    \* the Actions judged by a list from before the Pod they recorded

ctlVars == <<log, expired, seen, queue, work, audit, metric, crashes, touches>>
auxVars == <<deleted, misread>>
podVars == <<pods, lastUid, past, podCache, managed, deleting, auxVars>>
vars    == <<ctlVars, podVars>>

(***************************************************************************)
(* Pods.  An owner is the controller OwnerReference, kind and name.        *)
(***************************************************************************)

Owners == {"workload", "none"}

Pods == [uid : 1 .. MaxUid, name : {"target", "other"}, owner : Owners,
         ready : BOOLEAN, terminating : BOOLEAN]

Named(set, name) == {p \in set : p.name = name}

OwnedBy(p, owner) == owner # "none" /\ p.owner = owner

\* A list of Pods, and the youngest Pod there was when it was made.
Lists == [pods : SUBSET Pods, lastUid : 0 .. MaxUid]

List == [pods |-> pods, lastUid |-> lastUid]

\* The API server has other Pods.
Become(set, last) ==
    /\ pods' = set /\ lastUid' = last
    /\ past' = past \cup {[pods |-> set, lastUid |-> last]}
    /\ Cardinality(past') <= MaxLists

(***************************************************************************)
(* The checkpoint: TargetUID (0: not set) and WorkloadKind, WorkloadName.  *)
(***************************************************************************)

PodCheckpoints == [uid : 0 .. MaxUid, owner : Owners]

Unprepared == [uid |-> 0, owner |-> "none"]

PrepareStep == {<<Unprepared, k>> : k \in {l \in PodCheckpoints : l.uid # 0}}

\* ActionController, and the theorems about it.
Ctl == INSTANCE ActionStatuses WITH
    Supported      <- Actions,
    Checkpoints    <- PodCheckpoints,
    NoCheckpoint   <- Unprepared,
    CheckpointStep <- PrepareStep,
    MaxTouches     <- 0,
    MetricCap      <- 0

CheckpointOf(c) == work[c].st.checkpoint

Target(c) == Named(podCache[c].pods, "target")

\* Whether a restart was executed, or has succeeded, is judged by the cache.
Judge(c) ==
    misread' = IF podCache[c].lastUid < CheckpointOf(c).uid
               THEN misread \cup {work[c].act}
               ELSE misread

(***************************************************************************)
(* Prepare: runs before Execute as long as no UID is recorded.             *)
(***************************************************************************)

Preparing(c) == Ctl!At(c, "execute") /\ CheckpointOf(c).uid = 0

PrepareMissing(c) ==
    /\ Preparing(c)
    /\ Target(c) = {}
    /\ Ctl!ExecuteError(c, CheckpointOf(c))
    /\ UNCHANGED podVars

\* Mutant of PrepareRecord: Execute follows before the status is stored.
PrepareRecordUnsaved(c) ==
    /\ Preparing(c)
    /\ \E p \in Target(c) :
        /\ p.owner # "none"
        /\ Ctl!Continue(c, "execute",
                [work[c].st EXCEPT !.checkpoint = [uid |-> p.uid, owner |-> p.owner]])
    /\ UNCHANGED <<log, expired, seen, queue, audit, metric, crashes, touches, podVars>>

\* Mutant of PrepareRecord: the Pod is read at the API server, Execute reads the cache.
PrepareRecordLive(c) ==
    /\ Preparing(c)
    /\ \E p \in Named(pods, "target") :
        /\ p.owner # "none"
        /\ Ctl!ExecuteProgress(c, [uid |-> p.uid, owner |-> p.owner])
    /\ UNCHANGED podVars

PrepareRecord(c) ==
    /\ Preparing(c)
    /\ \E p \in Target(c) :
        /\ p.owner # "none"
        /\ Ctl!ExecuteProgress(c, [uid |-> p.uid, owner |-> p.owner])
    /\ UNCHANGED podVars

\* The UID is set before the owner is found missing, and stored by the retry.
PrepareUnmanaged(c) ==
    /\ Preparing(c)
    /\ \E p \in Target(c) :
        /\ p.owner = "none"
        /\ Ctl!ExecuteError(c, [uid |-> p.uid, owner |-> "none"])
    /\ UNCHANGED podVars

(***************************************************************************)
(* Execute: a cached Get, then a Delete by name.                           *)
(***************************************************************************)

Executing(c) == Ctl!At(c, "execute") /\ CheckpointOf(c).uid # 0 /\ c \notin deleting

\* The cache has no such Pod, or one with another UID: nothing is left to do.
ExecuteAbsent(c) ==
    /\ Executing(c)
    /\ \A p \in Target(c) : p.uid # CheckpointOf(c).uid
    /\ Ctl!ExecuteDone(c)
    /\ Judge(c)
    /\ UNCHANGED <<pods, lastUid, past, podCache, managed, deleting, deleted>>

\* Mutant of ExecuteRead: the Delete is left to a goroutine nobody waits for.
ExecuteReadDetached(c) ==
    /\ Executing(c)
    /\ \E p \in Target(c) : p.uid = CheckpointOf(c).uid
    /\ deleting' = deleting \cup {c}
    /\ Ctl!ExecuteDone(c)
    /\ UNCHANGED <<pods, lastUid, past, podCache, managed, auxVars>>

ExecuteRead(c) ==
    /\ Executing(c)
    /\ \E p \in Target(c) : p.uid = CheckpointOf(c).uid
    /\ deleting' = deleting \cup {c}
    /\ UNCHANGED <<ctlVars, pods, lastUid, past, podCache, managed, auxVars>>

\* The API server deletes the Pod that has the name now.
DeleteTarget(c) ==
    /\ c \in deleting
    /\ \E p \in Named(pods, "target") :
        /\ Become((pods \ {p}) \cup {[p EXCEPT !.terminating = TRUE]}, lastUid)
        /\ deleted' = IF p.terminating
                      THEN deleted
                      ELSE deleted \cup {[act |-> work[c].act, victim |-> p.uid,
                                          aim |-> CheckpointOf(c).uid]}
    /\ deleting' = deleting \ {c}
    /\ UNCHANGED <<podCache, managed, misread>>

DeleteOk(c) == DeleteTarget(c) /\ Ctl!ExecuteDone(c)

\* The Pod is deleted, but the answer is lost.
DeleteLost(c) == DeleteTarget(c) /\ Ctl!ExecuteError(c, CheckpointOf(c))

\* Mutant of DeleteError: every error of Delete is taken for NotFound.
DeleteErrorIgnored(c) ==
    /\ c \in deleting
    /\ deleting' = deleting \ {c}
    /\ Ctl!ExecuteDone(c)
    /\ UNCHANGED <<pods, lastUid, past, podCache, managed, auxVars>>

\* NotFound, which Delete does not forgive, or a failed request.
DeleteError(c) ==
    /\ c \in deleting
    /\ deleting' = deleting \ {c}
    /\ Ctl!ExecuteError(c, CheckpointOf(c))
    /\ UNCHANGED <<pods, lastUid, past, podCache, managed, auxVars>>

(***************************************************************************)
(* Verify: some other ready Pod of the same owner.                         *)
(***************************************************************************)

\* Mutant of Replacements: the Pod that is to be replaced counts as well.
ReplacementsAny(c) ==
    {p \in podCache[c].pods : OwnedBy(p, CheckpointOf(c).owner) /\ p.ready}

Replacements(c) ==
    {p \in podCache[c].pods : /\ p.uid # CheckpointOf(c).uid
                              /\ OwnedBy(p, CheckpointOf(c).owner)
                              /\ p.ready}

VerifyReplaced(c) ==
    /\ Replacements(c) # {}
    /\ Ctl!VerifyOk(c)
    /\ Judge(c)
    /\ UNCHANGED <<pods, lastUid, past, podCache, managed, deleting, deleted>>

VerifyNotReplaced(c) ==
    /\ Ctl!At(c, "verify") /\ Replacements(c) = {}
    /\ Ctl!VerifyNotYet(c)
    /\ UNCHANGED podVars

(***************************************************************************)
(* The rest of the cluster.                                                *)
(***************************************************************************)

\* The Pod informer catches up.
SyncPods(c) ==
    /\ ~Ctl!At(c, "down")
    /\ podCache' = [podCache EXCEPT ![c] = List]
    /\ UNCHANGED <<ctlVars, pods, lastUid, past, managed, deleting, auxVars>>

\* A ReplicaSet replaces a Pod as soon as it terminates, a StatefulSet when
\* its name is free again.
Replace ==
    LET owned == {p \in pods : /\ p.owner = "workload"
                               /\ StableNames \/ ~p.terminating}
        name  == IF StableNames /\ Named(pods, "target") = {} THEN "target" ELSE "other"
    IN  /\ managed
        /\ Cardinality(owned) < Replicas
        /\ lastUid < MaxUid
        /\ Become(pods \cup {[uid |-> lastUid + 1, name |-> name, owner |-> "workload",
                              ready |-> FALSE, terminating |-> FALSE]},
                  lastUid + 1)
        /\ UNCHANGED <<ctlVars, podCache, managed, deleting, auxVars>>

Alter(p, q) ==
    /\ Become((pods \ {p}) \cup {q}, lastUid)
    /\ UNCHANGED <<ctlVars, podCache, managed, deleting, auxVars>>

BecomeReady(p) == ~p.ready /\ ~p.terminating /\ Alter(p, [p EXCEPT !.ready = TRUE])

BecomeUnready(p) == p.ready /\ Alter(p, [p EXCEPT !.ready = FALSE])

\* Somebody else deletes the Pod.
Evict(p) == ~p.terminating /\ Alter(p, [p EXCEPT !.terminating = TRUE])

\* The kubelet has stopped the Pod and its object goes away.
Terminated(p) ==
    /\ p.terminating
    /\ Become(pods \ {p}, lastUid)
    /\ UNCHANGED <<ctlVars, podCache, managed, deleting, auxVars>>

(***************************************************************************)
(* Specification.                                                          *)
(***************************************************************************)

\* Either Replicas Pods of a workload, one of them with the target's name, or
\* a single Pod nobody manages.
InitialPods(isManaged) ==
    {[uid |-> i, name |-> IF i = 1 THEN "target" ELSE "other",
      owner |-> IF isManaged THEN "workload" ELSE "none",
      ready |-> TRUE, terminating |-> FALSE] :
        i \in 1 .. (IF isManaged THEN Replicas ELSE 1)}

\* A list may be from before the Pods.
Init ==
    /\ Ctl!Init
    /\ managed \in BOOLEAN
    /\ pods = InitialPods(managed)
    /\ lastUid = Cardinality(pods)
    /\ past = {List, [pods |-> {}, lastUid |-> 0]}
    /\ podCache = [c \in Controllers |-> List]
    /\ deleting = {}
    /\ deleted = {} /\ misread = {}

\* The steps of the reconciler around the executor's calls.
Reconcile(c) ==
    /\ (\E a \in Actions : Ctl!Take(c, a) \/ Ctl!Deliver(c, a)) \/ Ctl!UpdateReturns(c)
    /\ UNCHANGED podVars

ExecutorStep(c) ==
    \/ PrepareMissing(c)
    \/ PrepareRecord(c)
    \/ PrepareUnmanaged(c)
    \/ ExecuteAbsent(c)
    \/ ExecuteRead(c)
    \/ DeleteOk(c)
    \/ DeleteLost(c)
    \/ DeleteError(c)
    \/ VerifyReplaced(c)
    \/ VerifyNotReplaced(c)

\* A new process lists the Pods, possibly as they were some time ago.
Start(c) ==
    /\ Ctl!Start(c)
    /\ \E list \in past : podCache' = [podCache EXCEPT ![c] = list]
    /\ UNCHANGED <<pods, lastUid, past, managed, deleting, auxVars>>

Crash(c) ==
    /\ Ctl!Crash(c)
    /\ deleting' = deleting \ {c}
    /\ UNCHANGED <<pods, lastUid, past, podCache, managed, auxVars>>

Controller(c) ==
    \/ Reconcile(c)
    \/ ExecutorStep(c)
    \/ SyncPods(c)
    \/ Start(c)
    \/ Crash(c)

Cluster ==
    \/ Ctl!Environment /\ UNCHANGED podVars
    \/ Replace
    \/ \E p \in pods : BecomeReady(p) \/ BecomeUnready(p) \/ Evict(p) \/ Terminated(p)

Next == (\E c \in Controllers : Controller(c)) \/ Cluster

Spec == Init /\ [][Next]_vars

(***************************************************************************)
(* Properties.                                                             *)
(***************************************************************************)

\* Every variable keeps its shape, no two Pods share a UID or a live name, and
\* only a controller inside Execute is about to delete.
TypeOK ==
    /\ Ctl!TypeOK
    /\ pods \subseteq Pods
    /\ \A p, q \in pods : p.uid = q.uid => p = q
    /\ Cardinality(Named(pods, "target")) <= 1
    /\ past \subseteq Lists /\ List \in past
    /\ podCache \in [Controllers -> past]
    /\ \A c \in deleting : Ctl!At(c, "execute")
    /\ misread \subseteq Actions

Live(uid) == \E p \in pods : p.uid = uid /\ ~p.terminating

\* An Action that claims its restart was executed, or succeeded, did get rid
\* of the Pod it recorded, whatever errors, lost answers, conflicts and crashes
\* lay between the checkpoint, the Delete and the status update.  The one way
\* to a wrong claim is a list from before the recorded Pod, which a controller
\* has that was restarted or that is not the one that recorded the Pod.
TargetRemoved ==
    \A a \in Actions \ misread :
        Ctl!PhaseOf(a) \in {"Verifying", "Succeeded"} => ~Live(Ctl!Current(a).checkpoint.uid)

OneController == \A c, d \in Controllers : c = d

\* That way is closed to a single process: what it recorded it read from the
\* cache that it asks again, however far the cache is behind the API server.
OwnRecordKnown == (OneController /\ crashes = 0) => misread = {}

\* No Delete is sent before the UID it aims at is stored in the status, so a
\* controller that takes over knows what its predecessor may have deleted.
DeleteAfterCheckpoint ==
    \A d \in deleted : \E i \in DOMAIN log[d.act] :
        log[d.act][i].checkpoint.uid = d.aim /\ d.aim # 0

\* Where the workload has a single Pod, success means that a Pod younger than
\* the recorded one has come: no cached copy of the old one, and nothing that
\* was ready before, passes for its replacement, with the same exception.
SuccessIsReplacement ==
    Replicas = 1 => \A a \in Actions \ misread :
        Ctl!PhaseOf(a) = "Succeeded" => lastUid > Ctl!Current(a).checkpoint.uid

\* DESIGN.md:45: a deletion happens only when the UID of the Pod that is there
\* is the one in the checkpoint.
OnlyTargetDeleted == \A d \in deleted : d.victim = d.aim

\* The message of Prepare (pod_restart.go:36): a Pod without a controller
\* owner is not restarted, its recovery cannot be verified.
UnmanagedNeverDeleted == ~managed => deleted = {}

\* DESIGN.md:45: success requires a new Ready Pod with another UID, so with a
\* workload that keeps Replicas Pods, one more must have been created.
SuccessNeedsNewPod ==
    \A a \in Actions : Ctl!PhaseOf(a) = "Succeeded" => lastUid > Replicas
=============================================================================
