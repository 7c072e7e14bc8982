-------------------------- MODULE DeploymentRestart --------------------------
(***************************************************************************)
(* DeploymentRestartExecutor (src/internal/action/deployment_restart.go)   *)
(* under the reconciler of ActionController, against a Deployment that is  *)
(* rolled out by its own controller.  All Actions restart one Deployment.  *)
(* The executor keeps no checkpoint: the annotation in the pod template,   *)
(* which holds the UID of the Action, is to make Execute idempotent.       *)
(***************************************************************************)
EXTENDS Naturals, Sequences

CONSTANTS
    Controllers, Actions, NoAction, MaxRetries, MaxCrashes,
    Replicas,       \* spec.replicas
    MaxGeneration   \* bound: changes of the template

ASSUME ControllerAssumption ==
    NoAction \notin Actions /\ MaxRetries \in Nat \ {0} /\ MaxCrashes \in Nat
ASSUME ReplicasAssumption == Replicas \in Nat \ {0}
ASSUME GenerationAssumption == MaxGeneration \in Nat \ {0}

VARIABLES
    log, expired, seen, queue, work, audit, metric, crashes, touches,
    deployment,  \* the Deployment at the API server, or Removed
    past,        \* every Deployment the API server has had, the current one too
    depCache,    \* per controller, the Deployment its cache holds
    pods,        \* Pods of the current template, the ready ones of them, and of older templates
    rollouts,    \* per Action, the generations its patches made
    recovered    \* the last generation all of whose Pods were ready at some time

ctlVars == <<log, expired, seen, queue, work, audit, metric, crashes, touches>>
depVars == <<deployment, past, depCache, pods, rollouts, recovered>>
vars    == <<ctlVars, depVars>>

\* ActionController, and the theorems about it.
Ctl == INSTANCE ActionStatuses WITH
    Supported      <- Actions,
    Checkpoints    <- {"none"},
    NoCheckpoint   <- "none",
    CheckpointStep <- {},
    MaxTouches     <- 0,
    MetricCap      <- 0

\* "by" is the restarted-by annotation, NoAction where it names none of Actions;
\* the counts are those of the status.
Deployments == [generation : 0 .. MaxGeneration, by : Actions \cup {NoAction},
                observed : 0 .. MaxGeneration,
                updated : 0 .. Replicas, available : 0 .. 2 * Replicas]

Removed == [generation |-> 0, by |-> NoAction, observed |-> 0,
            updated |-> 0, available |-> 0]

\* The API server has another Deployment.
Become(d) == deployment' = d /\ past' = past \cup {d}

(***************************************************************************)
(* Execute.                                                                *)
(***************************************************************************)

\* Mutant of GetMissing: NotFound is not an error, as it is for PodRestart.
GetMissingIgnored(c) ==
    /\ Ctl!At(c, "execute")
    /\ depCache[c] = Removed
    /\ Ctl!ExecuteDone(c)
    /\ UNCHANGED depVars

GetMissing(c) ==
    /\ Ctl!At(c, "execute")
    /\ depCache[c] = Removed
    /\ Ctl!ExecuteError(c, "none")
    /\ UNCHANGED depVars

AlreadyAnnotated(c) ==
    /\ Ctl!At(c, "execute")
    /\ depCache[c].by = work[c].act
    /\ Ctl!ExecuteDone(c)
    /\ UNCHANGED depVars

\* Mutant of Patch: the annotation is put on the Deployment, not on its template.
PatchMetadata(c) ==
    /\ Ctl!At(c, "execute")
    /\ depCache[c] # Removed /\ depCache[c].by # work[c].act
    /\ deployment # Removed
    /\ Become([deployment EXCEPT !.by = work[c].act])
    /\ UNCHANGED <<depCache, pods, rollouts, recovered>>

\* A merge patch has no precondition.  restarted-at has the precision of a
\* second: only within one is a second patch of the same Action no change.
Patch(c) ==
    LET a == work[c].act
    IN  /\ Ctl!At(c, "execute")
        /\ depCache[c] # Removed /\ depCache[c].by # a
        /\ deployment # Removed
        /\ \/ /\ deployment.by = a
              /\ UNCHANGED <<deployment, past, pods, rollouts>>
           \/ /\ deployment.generation < MaxGeneration
              /\ Become([deployment EXCEPT !.generation = @ + 1, !.by = a])
              /\ rollouts' = [rollouts EXCEPT ![a] = @ \cup {deployment.generation + 1}]
              /\ pods' = [fresh |-> 0, ready |-> 0, old |-> pods.ready + pods.old]
        /\ UNCHANGED <<depCache, recovered>>

PatchOk(c) == Patch(c) /\ Ctl!ExecuteDone(c)

\* The patch is applied, but the answer is lost.
PatchLost(c) == Patch(c) /\ Ctl!ExecuteError(c, "none")

\* NotFound, or a failed request.
PatchError(c) ==
    /\ Ctl!At(c, "execute")
    /\ depCache[c] # Removed /\ depCache[c].by # work[c].act
    /\ Ctl!ExecuteError(c, "none")
    /\ UNCHANGED depVars

(***************************************************************************)
(* Verify.                                                                 *)
(***************************************************************************)

\* Mutant of RolledOut: the generation is not compared.
RolledOutUnobserved(d, a) ==
    /\ d.by = a
    /\ d.updated >= Replicas
    /\ d.available >= Replicas

RolledOut(d, a) ==
    /\ d.by = a
    /\ d.observed >= d.generation
    /\ d.updated >= Replicas
    /\ d.available >= Replicas

VerifyMissing(c) ==
    /\ Ctl!At(c, "verify")
    /\ depCache[c] = Removed
    /\ Ctl!VerifyError(c)
    /\ UNCHANGED depVars

VerifyRolledOut(c) ==
    /\ Ctl!At(c, "verify")
    /\ depCache[c] # Removed /\ RolledOut(depCache[c], work[c].act)
    /\ Ctl!VerifyOk(c)
    /\ UNCHANGED depVars

VerifyNotRolledOut(c) ==
    /\ Ctl!At(c, "verify")
    /\ depCache[c] # Removed /\ ~RolledOut(depCache[c], work[c].act)
    /\ Ctl!VerifyNotYet(c)
    /\ UNCHANGED depVars

(***************************************************************************)
(* The rest of the cluster.                                                *)
(***************************************************************************)

SyncDeployment(c) ==
    /\ ~Ctl!At(c, "down")
    /\ depCache' = [depCache EXCEPT ![c] = deployment]
    /\ UNCHANGED <<ctlVars, deployment, past, pods, rollouts, recovered>>

\* The deployment controller reports the generation it acts on and its counts.
ReportStatus ==
    /\ deployment # Removed
    /\ Become([deployment EXCEPT !.observed = deployment.generation,
                                 !.updated = pods.fresh,
                                 !.available = pods.ready + pods.old])
    /\ UNCHANGED <<ctlVars, depCache, pods, rollouts, recovered>>

ScalePods(next) ==
    /\ deployment # Removed
    /\ pods' = next
    /\ recovered' = IF next.ready = Replicas THEN deployment.generation ELSE recovered
    /\ UNCHANGED <<ctlVars, deployment, past, depCache, rollouts>>

\* A rolling update with a surge of one Pod and none unavailable.
CreateFresh ==
    /\ pods.fresh < Replicas /\ pods.fresh + pods.old <= Replicas
    /\ ScalePods([pods EXCEPT !.fresh = @ + 1])

FreshReady ==
    /\ pods.ready < pods.fresh
    /\ ScalePods([pods EXCEPT !.ready = @ + 1])

RemoveOld ==
    /\ pods.old > 0 /\ pods.ready + pods.old > Replicas
    /\ ScalePods([pods EXCEPT !.old = @ - 1])

\* An Action that is not followed here restarts the Deployment, and overwrites
\* the annotation of the one that is.
RestartByOther ==
    /\ deployment # Removed
    /\ deployment.generation < MaxGeneration
    /\ Become([deployment EXCEPT !.generation = @ + 1, !.by = NoAction])
    /\ pods' = [fresh |-> 0, ready |-> 0, old |-> pods.ready + pods.old]
    /\ UNCHANGED <<ctlVars, depCache, rollouts, recovered>>

RemoveDeployment ==
    /\ deployment # Removed
    /\ Become(Removed)
    /\ UNCHANGED <<ctlVars, depCache, pods, rollouts, recovered>>

(***************************************************************************)
(* Specification.                                                          *)
(***************************************************************************)

\* A list may be from before the Deployment.
Init ==
    /\ Ctl!Init
    /\ deployment = [generation |-> 1, by |-> NoAction, observed |-> 1,
                     updated |-> Replicas, available |-> Replicas]
    /\ past = {deployment, Removed}
    /\ depCache = [c \in Controllers |-> deployment]
    /\ pods = [fresh |-> Replicas, ready |-> Replicas, old |-> 0]
    /\ rollouts = [a \in Actions |-> {}]
    /\ recovered = 1

Reconcile(c) ==
    /\ (\E a \in Actions : Ctl!Take(c, a) \/ Ctl!Deliver(c, a)) \/ Ctl!UpdateReturns(c)
    /\ UNCHANGED depVars

ExecutorStep(c) ==
    \/ GetMissing(c)
    \/ AlreadyAnnotated(c)
    \/ PatchOk(c)
    \/ PatchLost(c)
    \/ PatchError(c)
    \/ VerifyMissing(c)
    \/ VerifyRolledOut(c)
    \/ VerifyNotRolledOut(c)

\* A new process lists the Deployments, possibly as they were some time ago.
Start(c) ==
    /\ Ctl!Start(c)
    /\ \E d \in past : depCache' = [depCache EXCEPT ![c] = d]
    /\ UNCHANGED <<deployment, past, pods, rollouts, recovered>>

Controller(c) ==
    \/ Reconcile(c)
    \/ ExecutorStep(c)
    \/ SyncDeployment(c)
    \/ Start(c)
    \/ Ctl!Crash(c) /\ UNCHANGED depVars

Cluster ==
    \/ Ctl!Environment /\ UNCHANGED depVars
    \/ ReportStatus
    \/ CreateFresh
    \/ FreshReady
    \/ RemoveOld
    \/ RestartByOther
    \/ RemoveDeployment

Next == (\E c \in Controllers : Controller(c)) \/ Cluster

Spec == Init /\ [][Next]_vars

(***************************************************************************)
(* Properties.                                                             *)
(***************************************************************************)

\* Every variable keeps its shape, counts stay within what a rollout needs, and
\* an annotation is that of a generation which a patch of its Action made.
TypeOK ==
    /\ Ctl!TypeOK
    /\ past \subseteq Deployments /\ deployment \in past
    /\ depCache \in [Controllers -> past]
    /\ \A d \in past : d.by \in Actions => d.generation \in rollouts[d.by]
    /\ pods.ready <= pods.fresh /\ pods.fresh <= Replicas
    /\ rollouts \in [Actions -> SUBSET (1 .. MaxGeneration)]
    /\ recovered \in 1 .. MaxGeneration

\* An Action that succeeded changed the template, and the deployment
\* controller has acted on that change: no success rests on the status of the
\* template before, however stale the cache, after any retry or restart.
SuccessIsObserved ==
    \A a \in Actions : (Ctl!PhaseOf(a) = "Succeeded" /\ deployment # Removed) =>
        \E g \in rollouts[a] : deployment.observed >= g

\* An Action past Execute did change the template: no error, lost answer, stale
\* cache or removed Deployment lets Execute return nil without a rollout.
ExecutedMeansPatched ==
    \A a \in Actions :
        Ctl!PhaseOf(a) \in {"Verifying", "Succeeded"} => rollouts[a] # {}

\* DESIGN.md:49: the annotation makes a repeated Execute produce no new rollout.
OneRolloutPerAction ==
    \A a \in Actions : \A g, h \in rollouts[a] : g = h

\* The Verified condition of a succeeded Action (action_controller.go:125),
\* "target recovery verified": the Pods of the restarted template were ready.
SuccessMeansRecovered ==
    \A a \in Actions : Ctl!PhaseOf(a) = "Succeeded" =>
        \E g \in rollouts[a] : recovered >= g
=============================================================================
