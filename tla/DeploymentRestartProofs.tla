----------------------- MODULE DeploymentRestartProofs -----------------------
(***************************************************************************)
(* Proofs about DeploymentRestart, for every number of controllers, of     *)
(* Actions, of replicas and of changes of the template.  On the invariant  *)
(* of ActionController, which each step keeps, rests the one that ties     *)
(* what Actions claim to the rollouts that were made.                      *)
(***************************************************************************)
EXTENDS DeploymentRestart, TLAPS

(***************************************************************************)
(* The reconciler inside DeploymentRestart.                                *)
(***************************************************************************)

\* The assumptions of ActionController hold of the values it is given here.
LEMMA CtlAssumptions ==
    /\ Actions \subseteq Actions /\ NoAction \notin Actions
    /\ "none" \in {"none"} /\ {} \subseteq {"none"} \X {"none"}
    /\ MaxRetries \in Nat \ {0}
    /\ MaxCrashes \in Nat /\ 0 \in Nat /\ 0 \in Nat
BY ControllerAssumption

\* Each call of the executor returns as ActionController lets one return.
LEMMA ExecutorReturns ==
    ASSUME NEW c \in Controllers, ExecutorStep(c)
    PROVE  Ctl!ExecutorReturns(c)
BY DEF ExecutorStep, GetMissing, AlreadyAnnotated, PatchOk, PatchLost, PatchError,
       VerifyMissing, VerifyRolledOut, VerifyNotRolledOut, Ctl!ExecutorReturns

\* Each step of the executor is a step of ActionController or none.
LEMMA CtlStep ==
    ASSUME [Next]_vars
    PROVE  [Ctl!Next]_(Ctl!vars)
<1>1. ASSUME NEW c \in Controllers, Controller(c)
      PROVE  [Ctl!Next]_(Ctl!vars)
  <2>1. CASE Reconcile(c)
    BY <2>1 DEF Reconcile, Ctl!Next, Ctl!Controller
  <2>2. CASE ExecutorStep(c)
    BY <2>2, ExecutorReturns DEF Ctl!Next, Ctl!Controller
  <2>3. CASE SyncDeployment(c)
    BY <2>3 DEF SyncDeployment, ctlVars, Ctl!vars
  <2>4. CASE Start(c) \/ Ctl!Crash(c)
    BY <2>4 DEF Start, Ctl!Next, Ctl!Controller
  <2> QED
    BY <1>1, <2>1, <2>2, <2>3, <2>4 DEF Controller
<1>2. CASE Cluster
  BY <1>2 DEF Cluster, ReportStatus, CreateFresh, FreshReady, RemoveOld, ScalePods,
              RestartByOther, RemoveDeployment, ctlVars, Ctl!vars, Ctl!Next
<1>3. CASE UNCHANGED vars
  BY <1>3 DEF vars, ctlVars, Ctl!vars
<1> QED
  BY <1>1, <1>2, <1>3 DEF Next

\* The invariant of ActionController, and that every step keeps it.
LEMMA CtlSound ==
    /\ Init => Ctl!IInv
    /\ Ctl!IInv /\ [Next]_vars => Ctl!IInv'
BY CtlAssumptions, Ctl!InitSound, Ctl!NextSound, CtlStep DEF Init

(***************************************************************************)
(* The inductive invariant.                                                *)
(***************************************************************************)

\* At the API server, now or earlier: the annotation names an Action only in the
\* generation a patch of that Action made.
DeploymentSound(d) ==
    /\ d \in Deployments
    /\ d # Removed => d.generation \in 1 .. MaxGeneration
    /\ d.observed <= d.generation
    /\ d.by \in Actions => d.generation \in rollouts[d.by]

\* A status, however old, reports no generation the API server's does not.
PastSound(d) ==
    DeploymentSound(d) /\ (deployment # Removed => d.observed <= deployment.observed)

\* A rolling update never has more than one Pod above Replicas.
PodsSound ==
    /\ pods \in [fresh : Nat, ready : Nat, old : Nat]
    /\ pods.ready <= pods.fresh /\ pods.fresh <= Replicas
    /\ pods.fresh + pods.old <= Replicas + 1

Observed(a) == deployment # Removed => \E g \in rollouts[a] : deployment.observed >= g

\* A status that says the restart was executed, stored or about to be, has a
\* rollout to show for it, and an observed one if it says succeeded.
ClaimSound(a, st) ==
    /\ st.phase \in Ctl!Claims => rollouts[a] # {}
    /\ st.phase = "Succeeded" => Observed(a)

RolloutInv ==
    /\ rollouts \in [Actions -> SUBSET (1 .. MaxGeneration)]
    /\ recovered \in 1 .. MaxGeneration
    /\ depCache \in [Controllers -> past]
    /\ deployment \in past
    /\ \A d \in past : PastSound(d)
    /\ PodsSound

ClaimInv == \A a \in Actions : \A st \in Ctl!StatusesOf(a) : ClaimSound(a, st)

IInv == Ctl!IInv /\ RolloutInv /\ ClaimInv

(***************************************************************************)
(* Rollouts and observed generations are never taken back.                 *)
(***************************************************************************)

RolloutsGrow ==
    /\ \A a \in Actions : rollouts[a] \subseteq rollouts'[a]
    /\ deployment' # Removed =>
        deployment # Removed /\ deployment.observed <= deployment'.observed

\* What was true of a Deployment or a status stays true.
LEMMA SoundKept ==
    ASSUME RolloutsGrow, NEW d, DeploymentSound(d)
    PROVE  DeploymentSound(d)'
BY DEF RolloutsGrow, DeploymentSound, Removed

\* The Deployment there is.
LEMMA CurrentSound ==
    ASSUME RolloutInv
    PROVE  DeploymentSound(deployment)
BY DEF RolloutInv, PastSound

\* What was true of an earlier Deployment stays true.
LEMMA PastKept ==
    ASSUME RolloutsGrow, RolloutInv, deployment' \in Deployments, NEW d, PastSound(d)
    PROVE  PastSound(d)'
<1>1. d.observed \in Nat /\ deployment.observed \in Nat /\ deployment'.observed \in Nat
  BY CurrentSound DEF PastSound, DeploymentSound, Deployments
<1>2. DeploymentSound(d)'
  BY SoundKept DEF PastSound
<1>3. deployment' # Removed => d.observed <= deployment'.observed
  BY <1>1 DEF RolloutsGrow, PastSound
<1> QED
  BY <1>2, <1>3 DEF PastSound, Removed

\* What a status claims stays true.
LEMMA ClaimKept ==
    ASSUME RolloutsGrow, RolloutInv, RolloutInv',
           NEW a \in Actions, NEW st, ClaimSound(a, st)
    PROVE  ClaimSound(a, st)'
<1>1. /\ rollouts[a] \subseteq rollouts'[a] /\ rollouts[a] \subseteq Nat
      /\ deployment.observed \in Nat /\ deployment'.observed \in Nat
  <2>1. DeploymentSound(deployment) /\ DeploymentSound(deployment)'
    BY CurrentSound DEF RolloutInv, PastSound
  <2> QED
    BY <2>1 DEF RolloutsGrow, RolloutInv, DeploymentSound, Deployments
<1>2. Observed(a) => Observed(a)'
  <2> SUFFICES ASSUME Observed(a), deployment' # Removed
               PROVE  \E g \in rollouts'[a] : deployment'.observed >= g
    BY DEF Observed, Removed
  <2>1. deployment # Removed /\ deployment.observed <= deployment'.observed
    BY DEF RolloutsGrow
  <2>2. PICK g \in rollouts[a] : deployment.observed >= g
    BY <2>1 DEF Observed
  <2> QED
    BY <1>1, <2>1, <2>2
<1> QED
  BY <1>1, <1>2 DEF ClaimSound

\* While the Deployment and its Pods are left alone, nothing is lost.
LEMMA NothingRolledOut ==
    ASSUME RolloutInv, UNCHANGED depVars
    PROVE  RolloutsGrow /\ RolloutInv'
<1>1. RolloutsGrow
  BY CurrentSound DEF depVars, RolloutsGrow, DeploymentSound, Deployments
<1>2. RolloutInv'
  BY DEF depVars, RolloutInv, PastSound, DeploymentSound, PodsSound, Removed
<1> QED
  BY <1>1, <1>2

(***************************************************************************)
(* The Deployment: patches of the executor, and the rest of the cluster.   *)
(***************************************************************************)

\* A step that moves the Deployment on and leaves the caches alone.
LEMMA Advances ==
    ASSUME RolloutInv, RolloutsGrow, depCache' = depCache,
           past' = past \cup {deployment'},
           rollouts' \in [Actions -> SUBSET (1 .. MaxGeneration)],
           recovered' \in 1 .. MaxGeneration,
           DeploymentSound(deployment)', PodsSound'
    PROVE  RolloutInv'
<1>1. ASSUME NEW d \in past
      PROVE  PastSound(d)'
  BY PastKept DEF RolloutInv, DeploymentSound
<1>2. deployment'.observed <= deployment'.observed
  BY DEF DeploymentSound, Deployments
<1>3. ASSUME NEW d, d = deployment'
      PROVE  PastSound(d)'
  BY <1>2, <1>3 DEF PastSound, DeploymentSound, Removed
<1>4. depCache' \in [Controllers -> past']
  BY DEF RolloutInv
<1> QED
  BY <1>1, <1>3, <1>4 DEF RolloutInv, PastSound, DeploymentSound, Removed

\* A patch gives its Action a rollout; it reports nothing yet.
LEMMA PatchKeeps ==
    ASSUME RolloutInv, NEW c \in Controllers, work[c].act \in Actions, Patch(c)
    PROVE  /\ RolloutInv' /\ RolloutsGrow
           /\ rollouts'[work[c].act] # {}
<1> DEFINE a == work[c].act
<1>1. /\ deployment # Removed /\ DeploymentSound(deployment) /\ PodsSound
      /\ deployment.generation \in 1 .. MaxGeneration /\ MaxGeneration \in Nat
      /\ depCache' = depCache /\ recovered' = recovered
  BY CurrentSound, GenerationAssumption DEF Patch, RolloutInv, DeploymentSound
<1>2. CASE deployment.by = a /\ UNCHANGED <<deployment, past, pods, rollouts>>
  <2>1. UNCHANGED depVars
    BY <1>1, <1>2 DEF depVars
  <2>2. rollouts[a] # {}
    BY <1>1, <1>2 DEF DeploymentSound
  <2> QED
    BY <1>2, <2>1, <2>2, NothingRolledOut
<1>3. CASE /\ deployment.generation < MaxGeneration
           /\ deployment' = [deployment EXCEPT !.generation = @ + 1, !.by = a]
           /\ past' = past \cup {deployment'}
           /\ rollouts' = [rollouts EXCEPT ![a] = @ \cup {deployment.generation + 1}]
           /\ pods' = [fresh |-> 0, ready |-> 0, old |-> pods.ready + pods.old]
  <2>1. deployment.generation + 1 \in 1 .. MaxGeneration
    BY <1>1, <1>3
  <2>2. /\ rollouts' \in [Actions -> SUBSET (1 .. MaxGeneration)]
        /\ deployment.generation + 1 \in rollouts'[a]
        /\ \A b \in Actions : rollouts[b] \subseteq rollouts'[b]
    BY <1>3, <2>1 DEF RolloutInv
  <2>3. /\ deployment' \in Deployments /\ deployment'.by = a
        /\ deployment'.generation = deployment.generation + 1
        /\ deployment'.observed = deployment.observed
    <3>1. PICK b \in Actions : b = a
      OBVIOUS
    <3>2. deployment' = [deployment EXCEPT !.generation = @ + 1, !.by = b]
      BY <1>3, <3>1
    <3>3. deployment \in Deployments /\ deployment.generation + 1 \in 0 .. MaxGeneration
      BY <1>1, <2>1 DEF DeploymentSound
    <3> QED
      BY <3>1, <3>2, <3>3 DEF Deployments
  <2>4. DeploymentSound(deployment)'
    BY <1>1, <2>1, <2>2, <2>3 DEF DeploymentSound, Deployments
  <2>5. RolloutsGrow
    BY <1>1, <2>2, <2>3 DEF RolloutsGrow, DeploymentSound, Deployments
  <2>6. PodsSound'
    BY <1>1, <1>3, ReplicasAssumption DEF PodsSound
  <2> QED
    BY <1>1, <1>3, <2>2, <2>4, <2>5, <2>6, Advances DEF RolloutInv
<1> QED
  BY <1>2, <1>3 DEF Patch, Become

\* A cache that takes over a Deployment there was, or is, moves nothing on.
LEMMA SyncKeeps ==
    ASSUME RolloutInv, NEW c \in Controllers, NEW d \in past,
           depCache' = [depCache EXCEPT ![c] = d],
           UNCHANGED <<deployment, past, pods, rollouts, recovered>>
    PROVE  RolloutInv' /\ RolloutsGrow
<1>1. RolloutsGrow
  BY CurrentSound DEF RolloutsGrow, DeploymentSound, Deployments
<1>2. depCache' \in [Controllers -> past]
  BY DEF RolloutInv
<1> QED
  BY <1>1, <1>2 DEF RolloutInv, PastSound, DeploymentSound, PodsSound, Removed

\* The deployment controller reports the generation there is.
LEMMA ReportKeeps ==
    ASSUME RolloutInv, ReportStatus
    PROVE  RolloutInv' /\ RolloutsGrow
<1>1. /\ deployment # Removed /\ DeploymentSound(deployment) /\ PodsSound
      /\ Replicas \in Nat \ {0}
      /\ depCache' = depCache /\ rollouts' = rollouts /\ recovered' = recovered
      /\ pods' = pods /\ past' = past \cup {deployment'}
  BY CurrentSound, ReplicasAssumption DEF ReportStatus, Become, RolloutInv
<1>2. pods.fresh \in 0 .. Replicas /\ pods.ready + pods.old \in 0 .. 2 * Replicas
  BY <1>1 DEF PodsSound
<1>3. PICK n, m : n = pods.fresh /\ m = pods.ready + pods.old
  OBVIOUS
<1>4. /\ deployment' \in Deployments /\ deployment'.by = deployment.by
      /\ deployment'.generation = deployment.generation
      /\ deployment'.observed = deployment.generation
  BY <1>1, <1>2, <1>3 DEF ReportStatus, Become, DeploymentSound, Deployments
<1>5. DeploymentSound(deployment)'
  BY <1>1, <1>4 DEF DeploymentSound, Deployments
<1>6. RolloutsGrow
  BY <1>1, <1>4 DEF RolloutsGrow, DeploymentSound
<1> QED
  BY <1>1, <1>5, <1>6, Advances DEF RolloutInv, PodsSound

\* A rolling update stays within its surge.
LEMMA ScaleKeeps ==
    ASSUME RolloutInv, CreateFresh \/ FreshReady \/ RemoveOld
    PROVE  RolloutInv' /\ RolloutsGrow
<1>1. /\ deployment # Removed
      /\ depCache' = depCache /\ rollouts' = rollouts /\ deployment' = deployment
      /\ recovered' \in {recovered, deployment.generation}
      /\ DeploymentSound(deployment) /\ past' = past \cup {deployment'}
  BY CurrentSound DEF CreateFresh, FreshReady, RemoveOld, ScalePods, RolloutInv
<1>2. PodsSound'
  BY ReplicasAssumption
     DEF CreateFresh, FreshReady, RemoveOld, ScalePods, RolloutInv, PodsSound
<1>3. RolloutsGrow
  BY <1>1 DEF RolloutsGrow, DeploymentSound, Deployments
<1>4. DeploymentSound(deployment)' /\ recovered' \in 1 .. MaxGeneration
  BY <1>1 DEF RolloutInv, DeploymentSound, Removed
<1> QED
  BY <1>1, <1>2, <1>3, <1>4, Advances DEF RolloutInv

\* Another Action, or the removal of the Deployment, takes nothing back.
LEMMA OtherKeeps ==
    ASSUME RolloutInv, RestartByOther \/ RemoveDeployment
    PROVE  RolloutInv' /\ RolloutsGrow
<1>1. /\ deployment # Removed /\ DeploymentSound(deployment) /\ PodsSound
      /\ NoAction \notin Actions /\ MaxGeneration \in Nat /\ Replicas \in Nat \ {0}
      /\ depCache' = depCache /\ rollouts' = rollouts /\ recovered' = recovered
      /\ past' = past \cup {deployment'}
  BY CurrentSound, ControllerAssumption, GenerationAssumption, ReplicasAssumption
     DEF RestartByOther, RemoveDeployment, Become, RolloutInv
<1>2. CASE RestartByOther
  <2>1. deployment \in Deployments /\ deployment.generation + 1 \in 1 .. MaxGeneration
    BY <1>1, <1>2 DEF RestartByOther, DeploymentSound, Deployments
  <2>2. /\ deployment' \in Deployments /\ deployment'.by = NoAction
        /\ deployment'.generation = deployment.generation + 1
        /\ deployment'.observed = deployment.observed
    <3>1. PICK n \in 0 .. MaxGeneration : n = deployment.generation + 1
      BY <1>1, <2>1
    <3>2. deployment' = [deployment EXCEPT !.generation = n, !.by = NoAction]
      BY <1>2, <3>1 DEF RestartByOther, Become
    <3> QED
      BY <2>1, <3>1, <3>2 DEF Deployments
  <2>3. DeploymentSound(deployment)'
    BY <1>1, <2>1, <2>2 DEF DeploymentSound, Deployments
  <2>4. RolloutsGrow
    BY <1>1, <2>1, <2>2 DEF RolloutsGrow, Deployments
  <2>5. PodsSound'
    BY <1>1, <1>2 DEF RestartByOther, PodsSound
  <2> QED
    BY <1>1, <2>3, <2>4, <2>5, Advances DEF RolloutInv
<1>3. CASE RemoveDeployment
  <2>1. deployment' = Removed /\ pods' = pods
    BY <1>3 DEF RemoveDeployment, Become
  <2>2. DeploymentSound(deployment)'
    BY <1>1, <2>1 DEF DeploymentSound, Removed, Deployments
  <2>3. RolloutsGrow
    BY <1>1, <2>1 DEF RolloutsGrow, Removed
  <2>4. PodsSound'
    BY <1>1, <2>1 DEF PodsSound
  <2> QED
    BY <1>1, <2>2, <2>3, <2>4, Advances DEF RolloutInv
<1> QED
  BY <1>2, <1>3

(***************************************************************************)
(* What the Actions claim.                                                 *)
(***************************************************************************)

\* The claims kept by a step: those statuses inherit, and new ones with proof.
LEMMA ClaimsKept ==
    ASSUME ClaimInv, RolloutInv, RolloutInv', RolloutsGrow,
           \A a \in Actions : \A st \in Ctl!StatusesOf(a)' :
                Ctl!Inherits(a, st) \/ ClaimSound(a, st)'
    PROVE  ClaimInv'
<1> SUFFICES ASSUME NEW a \in Actions, NEW st \in Ctl!StatusesOf(a)'
             PROVE  ClaimSound(a, st)'
  BY DEF ClaimInv
<1>1. CASE st.phase \notin Ctl!Claims
  BY <1>1 DEF ClaimSound, Ctl!Claims
<1>2. CASE \E old \in Ctl!StatusesOf(a) : st.phase = old.phase
  <2>1. PICK old \in Ctl!StatusesOf(a) : st.phase = old.phase
    BY <1>2
  <2>2. ClaimSound(a, old)'
    BY ClaimKept DEF ClaimInv
  <2> QED
    BY <2>1, <2>2 DEF ClaimSound
<1> QED
  BY <1>1, <1>2 DEF Ctl!Inherits

\* A call of the executor that leads to one of phases has to justify them.
LEMMA WriteKeeps ==
    ASSUME Ctl!IInv, ClaimInv, RolloutInv, RolloutInv', RolloutsGrow,
           NEW c \in Controllers, NEW k, NEW phases, Ctl!Writes(c, k, phases),
           NEW b \in Actions, work[c].act = b,
           \A phase \in phases :
                /\ phase \in Ctl!Claims => rollouts'[b] # {}
                /\ phase = "Succeeded" => Observed(b)'
    PROVE  ClaimInv'
<1> SUFFICES ASSUME NEW a \in Actions, NEW st \in Ctl!StatusesOf(a)'
             PROVE  Ctl!Inherits(a, st) \/ ClaimSound(a, st)'
  BY ClaimsKept
<1>1. \/ st \in Ctl!StatusesOf(a)
      \/ a = b /\ st.phase \in phases
  BY CtlAssumptions, Ctl!WritesStatus
<1>2. CASE st \in Ctl!StatusesOf(a)
  BY <1>2, CtlAssumptions, Ctl!InheritsItself
<1>3. CASE a = b /\ st.phase \in phases
  BY <1>3 DEF ClaimSound, Observed
<1> QED
  BY <1>1, <1>2, <1>3

\* A call in progress is about one of Actions, and where it runs is its phase.
LEMMA CallOf ==
    ASSUME Ctl!IInv, NEW c \in Controllers, Ctl!At(c, "execute") \/ Ctl!At(c, "verify")
    PROVE  work[c].act \in Actions
BY CtlAssumptions, Ctl!JobStatus DEF Ctl!IInv, Ctl!Busy, Ctl!At

\* What Execute returns claims a restart only after a patch of its own.
LEMMA ExecuteKeeps ==
    ASSUME IInv, NEW c \in Controllers, Ctl!At(c, "execute"), ExecutorStep(c)
    PROVE  RolloutInv' /\ ClaimInv'
<1> DEFINE a == work[c].act
           kept == work[c].st.checkpoint
<1>t. Ctl!IInv /\ RolloutInv /\ ClaimInv /\ a \in Actions
  BY CallOf DEF IInv
<1>1. /\ Ctl!ExecuteError(c, "none") => Ctl!Writes(c, "none", {"Running", "Failed"})
      /\ Ctl!ExecuteDone(c) => Ctl!Writes(c, kept, {"Verifying"})
  BY <1>t, CtlAssumptions, Ctl!ExecutorWrites
<1>2. ASSUME Ctl!ExecuteError(c, "none"), RolloutInv', RolloutsGrow
      PROVE  ClaimInv'
  <2>1. \A phase \in {"Running", "Failed"} : phase \notin Ctl!Claims /\ phase # "Succeeded"
    BY DEF Ctl!Claims
  <2> QED
    BY <1>1, <1>2, <1>t, <2>1, WriteKeeps
<1>3. ASSUME Ctl!ExecuteDone(c), RolloutInv', RolloutsGrow, rollouts'[a] # {}
      PROVE  ClaimInv'
  BY <1>1, <1>3, <1>t, WriteKeeps
<1>4. CASE GetMissing(c) \/ PatchError(c)
  BY <1>2, <1>4, <1>t, NothingRolledOut DEF GetMissing, PatchError
<1>5. CASE AlreadyAnnotated(c)
  <2>1. rollouts[a] # {} /\ rollouts' = rollouts
    BY <1>5, <1>t
       DEF AlreadyAnnotated, RolloutInv, PastSound, DeploymentSound, depVars
  <2> QED
    BY <1>3, <1>5, <1>t, <2>1, NothingRolledOut DEF AlreadyAnnotated
<1>6. CASE PatchOk(c) \/ PatchLost(c)
  BY <1>2, <1>3, <1>6, <1>t, PatchKeeps DEF PatchOk, PatchLost
<1>7. ~VerifyMissing(c) /\ ~VerifyRolledOut(c) /\ ~VerifyNotRolledOut(c)
  BY DEF VerifyMissing, VerifyRolledOut, VerifyNotRolledOut, Ctl!At
<1> QED
  BY <1>4, <1>5, <1>6, <1>7 DEF ExecutorStep

\* What Verify returns claims success only on a status that was observed.
LEMMA VerifyKeeps ==
    ASSUME IInv, NEW c \in Controllers, Ctl!At(c, "verify"), ExecutorStep(c)
    PROVE  RolloutInv' /\ ClaimInv'
<1> DEFINE kept == work[c].st.checkpoint
<1>a. PICK a \in Actions : a = work[c].act
  BY CallOf DEF IInv
<1>t. /\ Ctl!IInv /\ RolloutInv /\ ClaimInv
      /\ work[c].st \in Ctl!StatusesOf(a) /\ work[c].st.phase = "Verifying"
  <2>1. Ctl!Busy(c)
    BY DEF Ctl!Busy, Ctl!At
  <2>2. Ctl!JobSound(c)
    BY <2>1 DEF IInv, Ctl!IInv, Ctl!WorkSound
  <2> QED
    BY <1>a, <2>2 DEF IInv, Ctl!StatusesOf, Ctl!JobSound, Ctl!At
<1>1. ExecutorStep(c) => UNCHANGED depVars
  BY DEF ExecutorStep, GetMissing, AlreadyAnnotated, PatchOk, PatchLost, Patch, PatchError,
         VerifyMissing, VerifyRolledOut, VerifyNotRolledOut, Ctl!At
<1>2. RolloutInv' /\ RolloutsGrow
  BY <1>1, <1>t, NothingRolledOut
<1>3. rollouts[a] # {} /\ rollouts' = rollouts /\ deployment' = deployment
  BY <1>1, <1>t DEF ClaimInv, ClaimSound, Ctl!Claims, depVars
<1>4. /\ Ctl!VerifyError(c) => Ctl!Writes(c, kept, {"Verifying", "Failed"})
      /\ Ctl!VerifyOk(c) => Ctl!Writes(c, kept, {"Succeeded"})
  BY <1>t, CtlAssumptions, Ctl!ExecutorWrites
<1>5. CASE VerifyMissing(c)
  <2>1. Ctl!Writes(c, kept, {"Verifying", "Failed"})
    BY <1>4, <1>5 DEF VerifyMissing
  <2> QED
    BY <1>a, <1>2, <1>3, <1>t, <2>1, WriteKeeps
<1>6. CASE VerifyRolledOut(c)
  <2>1. RolledOut(depCache[c], a) /\ PastSound(depCache[c])
    BY <1>a, <1>6, <1>t DEF VerifyRolledOut, RolloutInv
  <2>2. Observed(a)'
    <3>1. /\ depCache[c].generation \in rollouts[a]
          /\ depCache[c].observed >= depCache[c].generation
      BY <1>t, <2>1 DEF RolledOut, PastSound, DeploymentSound
    <3>2. deployment # Removed => deployment.observed >= depCache[c].observed
      BY <2>1 DEF PastSound
    <3>3. /\ depCache[c].generation \in Nat /\ depCache[c].observed \in Nat
          /\ deployment.observed \in Nat
      BY <1>t, <2>1, CurrentSound DEF PastSound, DeploymentSound, Deployments
    <3>4. deployment # Removed => deployment.observed >= depCache[c].generation
      BY <3>1, <3>2, <3>3
    <3> QED
      BY <1>3, <3>1, <3>4 DEF Observed, Removed
  <2>3. Ctl!Writes(c, kept, {"Succeeded"})
    BY <1>4, <1>6 DEF VerifyRolledOut
  <2> QED
    BY <1>a, <1>2, <1>3, <1>t, <2>2, <2>3, WriteKeeps
<1>7. CASE VerifyNotRolledOut(c)
  <2>1. \A b \in Actions : \A st \in Ctl!StatusesOf(b)' : st \in Ctl!StatusesOf(b)
    BY <1>7, <1>t, CtlAssumptions, Ctl!NotYetDrops DEF VerifyNotRolledOut
  <2>2. \A b \in Actions : \A st \in Ctl!StatusesOf(b)' : Ctl!Inherits(b, st)
    BY <2>1, CtlAssumptions, Ctl!InheritsItself
  <2> QED
    BY <1>2, <1>t, <2>2, ClaimsKept
<1>8. \/ VerifyMissing(c) \/ VerifyRolledOut(c) \/ VerifyNotRolledOut(c)
  BY DEF ExecutorStep, GetMissing, AlreadyAnnotated, PatchOk, PatchLost, Patch, PatchError,
         Ctl!At
<1> QED
  BY <1>2, <1>5, <1>6, <1>7, <1>8

(***************************************************************************)
(* The theorems.                                                           *)
(***************************************************************************)

\* The invariant holds at first.
LEMMA InitInv == Init => IInv
<1> SUFFICES ASSUME Init PROVE IInv
  OBVIOUS
<1>1. Ctl!IInv
  BY CtlSound
<1>2. RolloutInv
  <2>1. /\ deployment = [generation |-> 1, by |-> NoAction, observed |-> 1,
                         updated |-> Replicas, available |-> Replicas]
        /\ deployment \in Deployments
    BY ReplicasAssumption, GenerationAssumption DEF Init, Deployments
  <2>2. DeploymentSound(deployment) /\ PastSound(deployment)
    BY <2>1, ControllerAssumption, GenerationAssumption DEF DeploymentSound, PastSound
  <2>3. PodsSound
    BY ReplicasAssumption DEF Init, PodsSound
  <2>4. PastSound(Removed)
    BY <2>1, ControllerAssumption, GenerationAssumption, ReplicasAssumption
       DEF PastSound, DeploymentSound, Deployments, Removed
  <2> QED
    BY <2>1, <2>2, <2>3, <2>4, GenerationAssumption DEF Init, RolloutInv
<1>3. ClaimInv
  <2>1. ASSUME NEW a \in Actions
        PROVE  Ctl!StatusesOf(a) = {}
    BY ControllerAssumption DEF Init, Ctl!Init, Ctl!StatusesOf, Ctl!Down, Ctl!Job
  <2> QED
    BY <2>1 DEF ClaimInv
<1> QED
  BY <1>1, <1>2, <1>3 DEF IInv

\* Every step keeps the invariant.
LEMMA NextInv == IInv /\ [Next]_vars => IInv'
<1> SUFFICES ASSUME IInv, [Next]_vars PROVE IInv'
  OBVIOUS
<1>t. Ctl!IInv /\ RolloutInv /\ ClaimInv
  BY DEF IInv
<1>1. Ctl!IInv'
  BY <1>t, CtlSound
<1>2. ASSUME UNCHANGED ctlVars, RolloutInv', RolloutsGrow
      PROVE  ClaimInv'
  <2>1. \A a \in Actions : Ctl!StatusesOf(a)' = Ctl!StatusesOf(a)
    BY <1>2 DEF ctlVars, Ctl!StatusesOf
  <2>2. \A a \in Actions : \A st \in Ctl!StatusesOf(a)' : Ctl!Inherits(a, st)
    BY <2>1, CtlAssumptions, Ctl!InheritsItself
  <2> QED
    BY <1>2, <1>t, <2>2, ClaimsKept
<1>3. ASSUME Ctl!Passive, RolloutInv', RolloutsGrow
      PROVE  ClaimInv'
  <2>1. \A a \in Actions : \A st \in Ctl!StatusesOf(a)' : Ctl!Inherits(a, st)
    BY <1>3, <1>t, CtlAssumptions, Ctl!PassiveInherits
  <2> QED
    BY <1>3, <1>t, <2>1, ClaimsKept
<1>4. ASSUME NEW c \in Controllers, Controller(c)
      PROVE  RolloutInv' /\ ClaimInv'
  <2>1. CASE Reconcile(c) \/ (Ctl!Crash(c) /\ UNCHANGED depVars)
    BY <1>3, <1>t, <2>1, NothingRolledOut DEF Reconcile, Ctl!Passive
  <2>2. CASE ExecutorStep(c)
    <3>1. Ctl!At(c, "execute") \/ Ctl!At(c, "verify")
      BY <2>2 DEF ExecutorStep, GetMissing, AlreadyAnnotated, PatchOk, PatchLost, Patch,
                  PatchError, VerifyMissing, VerifyRolledOut, VerifyNotRolledOut
    <3> QED
      BY <2>2, <3>1, ExecuteKeeps, VerifyKeeps
  <2>3. CASE SyncDeployment(c)
    BY <1>2, <1>t, <2>3, SyncKeeps DEF SyncDeployment, RolloutInv
  <2>4. CASE Start(c)
    BY <1>3, <1>t, <2>4, SyncKeeps DEF Start, Ctl!Passive
  <2> QED
    BY <1>4, <2>1, <2>2, <2>3, <2>4 DEF Controller
<1>5. ASSUME Cluster
      PROVE  RolloutInv' /\ ClaimInv'
  <2>1. CASE Ctl!Environment /\ UNCHANGED depVars
    BY <1>3, <1>t, <2>1, NothingRolledOut DEF Ctl!Passive
  <2>2. CASE ReportStatus
    BY <1>2, <1>t, <2>2, ReportKeeps DEF ReportStatus
  <2>3. CASE CreateFresh \/ FreshReady \/ RemoveOld
    BY <1>2, <1>t, <2>3, ScaleKeeps DEF CreateFresh, FreshReady, RemoveOld, ScalePods
  <2>4. CASE RestartByOther \/ RemoveDeployment
    BY <1>2, <1>t, <2>4, OtherKeeps DEF RestartByOther, RemoveDeployment
  <2> QED
    BY <1>5, <2>1, <2>2, <2>3, <2>4 DEF Cluster
<1>6. ASSUME UNCHANGED vars
      PROVE  RolloutInv' /\ ClaimInv'
  BY <1>2, <1>6, <1>t, NothingRolledOut DEF vars
<1> QED
  BY <1>1, <1>4, <1>5, <1>6 DEF Next, IInv

\* Whatever happens to the Deployment and to the controllers, every Action that
\* claims a restart, stored or about to be, has a rollout of its own.
THEOREM Soundness == Spec => []IInv
<1> QED
  BY InitInv, NextInv, PTL DEF Spec

\* The state keeps its shape, and a rolling update never exceeds its surge.
THEOREM TypeCorrect == Spec => []TypeOK
<1>1. IInv => TypeOK
  BY DEF IInv, Ctl!IInv, RolloutInv, PastSound, DeploymentSound, PodsSound, TypeOK
<1> QED
  BY <1>1, Soundness, PTL

\* The stored status of an Action is one of its statuses.
LEMMA CurrentStatus ==
    ASSUME IInv, NEW a \in Actions, Ctl!PhaseOf(a) \in Ctl!Claims
    PROVE  \E st \in Ctl!StatusesOf(a) : st.phase = Ctl!PhaseOf(a)
<1>1. log[a] # << >> /\ Ctl!PhaseOf(a) = Ctl!Current(a).phase
  BY DEF Ctl!PhaseOf, Ctl!Claims
<1>2. Ctl!Current(a) # Ctl!Gone
  BY <1>1 DEF Ctl!Gone, Ctl!NewStatus, Ctl!Claims
<1>3. Ctl!Exists(a)
  BY <1>1, <1>2 DEF Ctl!Exists, Ctl!Current
<1>4. Len(log[a]) \in 1 .. Len(log[a]) /\ Ctl!Current(a) = log[a][Len(log[a])]
  BY <1>3, CtlAssumptions, Ctl!CurrentSound DEF IInv
<1> QED
  BY <1>1, <1>4 DEF Ctl!StatusesOf

\* An Action past Execute did change the template, whatever errors, lost
\* answers, stale caches and crashes came between.
THEOREM ExecutedPatched == Spec => []ExecutedMeansPatched
<1>1. IInv => ExecutedMeansPatched
  BY CurrentStatus
     DEF IInv, ClaimInv, ClaimSound, ExecutedMeansPatched, Ctl!Claims
<1> QED
  BY <1>1, Soundness, PTL

\* No success rests on the status of the template before the restart.
THEOREM SuccessObserved == Spec => []SuccessIsObserved
<1>1. IInv => SuccessIsObserved
  BY CurrentStatus
     DEF IInv, ClaimInv, ClaimSound, Observed, SuccessIsObserved, Ctl!Claims
<1> QED
  BY <1>1, Soundness, PTL
=============================================================================
