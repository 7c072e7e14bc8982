------------------------ MODULE RemediationLoopProofs ------------------------
(***************************************************************************)
(* Proofs about RemediationLoop, for every set of statuses and any number  *)
(* of Pods: its type invariant, and that where names are not used again    *)
(* only Pods that were ill are restarted.                                  *)
(*                                                                         *)
(* The argument follows a name from the diagnosis to the deletion: where   *)
(* the name of a Pod is its UID, the stores of both processes hold earlier *)
(* looks at one and the same Pod, so an Action exists only for a UID that  *)
(* was ill, and the deletion by name hits that UID or nothing.             *)
(***************************************************************************)
EXTENDS RemediationLoop, DetectorsProofs, TLAPS

\* What is known of a Pod, in the cluster or in a store.
Known(p) == /\ ~stable => p.name = p.uid
            /\ stable => p.name = 1
            /\ RestartSymptoms(p.status) # {} => p.uid \in ill

Sighted == \A p \in pods \cup agentStore \cup ctlCache : Known(p)

Young == \A p \in pods : p.uid <= lastUid

CreatedForIll == ~stable => \A a \in Actions : phase[a] # "Absent" => a[1] \in ill

IInv == TypeOK /\ stable \in BOOLEAN /\ Young /\ Sighted /\ CreatedForIll /\ OnlyIllRestarted

Begun == {"Running", "Verifying", "Succeeded", "Failed"}

\* What the detector suggests a restart for is a symptom a restart may answer.
LEMMA SuggestedIsSymptom ==
    ASSUME NEW p, NEW reason \in Suggested(p)
    PROVE  reason \in RestartSymptoms(p.status)
  <1>1. PICK r \in DiagnosePod(p.status, FALSE) : r.action = "PodRestart" /\ r.reason = reason
    BY DEF Suggested
  <1> QED
    BY <1>1, RestartReason DEF RestartSymptoms, RestartReasons, Crashing

\* Advance and Fail keep an Action in existence, and one that is begun begun.
LEMMA LifecycleStep ==
    ASSUME Lifecycle!TypeOK, NEW a \in Actions,
           Lifecycle!Advance(a) \/ Lifecycle!Fail(a)
    PROVE  /\ Lifecycle!TypeOK'
           /\ phase[a] # "Absent"
           /\ \A b \in Actions : phase'[b] # "Absent" => phase[b] # "Absent"
           /\ \A b \in Actions : phase[b] \in Begun => phase'[b] \in Begun
  BY DEF Lifecycle!TypeOK, Lifecycle!Advance, Lifecycle!Fail, Lifecycle!Active,
         Lifecycle!NextPhase, Lifecycle!Phases, Lifecycle!Terminal, Begun

\* A step of the reconciler that leaves the Pods and what is seen of them alone.
LEMMA ControlStep ==
    ASSUME IInv, NEW a \in Actions,
           (Lifecycle!Advance(a) \/ Lifecycle!Fail(a)) \/ UNCHANGED phase,
           UNCHANGED <<cluster, agentStore, ctlCache, restarted>>,
           target' \in [Actions -> 0 .. MaxUid],
           \A b \in Actions : target'[b] # 0 => target[b] # 0 \/ phase[b] \in Begun
    PROVE  IInv'
  <1>1. /\ Lifecycle!TypeOK'
        /\ \A b \in Actions : phase'[b] # "Absent" => phase[b] # "Absent"
        /\ \A b \in Actions : phase[b] \in Begun => phase'[b] \in Begun
    <2>1. CASE Lifecycle!Advance(a) \/ Lifecycle!Fail(a)
      BY <2>1, LifecycleStep DEF IInv, TypeOK
    <2>2. CASE UNCHANGED phase
      BY <2>2 DEF IInv, TypeOK, Lifecycle!TypeOK
    <2> QED BY <2>1, <2>2
  <1>2. TypeOK'
    BY <1>1 DEF IInv, TypeOK, cluster, Begun
  <1>3. Young' /\ Sighted' /\ OnlyIllRestarted' /\ stable' \in BOOLEAN
    BY DEF IInv, Young, Sighted, Known, OnlyIllRestarted, cluster
  <1>4. CreatedForIll'
    BY <1>1 DEF IInv, CreatedForIll, cluster
  <1> QED BY <1>2, <1>3, <1>4 DEF IInv

\* Informers only deliver what is known.
LEMMA SyncStep ==
    ASSUME IInv, SyncAgent \/ SyncController
    PROVE  IInv'
  <1> USE DEF IInv, cluster, control
  <1>1. TypeOK'
    BY DEF SyncAgent, SyncController, TypeOK, Lifecycle!TypeOK
  <1>2. Sighted'
    BY DEF SyncAgent, SyncController, Sighted, Known
  <1>3. Young' /\ CreatedForIll' /\ OnlyIllRestarted' /\ stable' \in BOOLEAN
    BY DEF SyncAgent, SyncController, Young, CreatedForIll, OnlyIllRestarted
  <1> QED BY <1>1, <1>2, <1>3

\* An Action is created for a Pod whose symptoms the agent has seen.
LEMMA CreateStep ==
    ASSUME IInv, NEW a \in Actions, CreateAction(a)
    PROVE  IInv'
  <1>1. PICK p \in agentStore : p.name = a[1] /\ a[2] \in Suggested(p)
    BY DEF CreateAction, Named
  <1>2. a[2] \in RestartSymptoms(p.status)
    BY <1>1, SuggestedIsSymptom
  <1>3. Known(p)
    BY <1>1 DEF IInv, Sighted
  <1>4. ~stable => a[1] \in ill
    BY <1>1, <1>2, <1>3 DEF Known
  <1>5. Lifecycle!TypeOK /\ phase[a] = "Absent" /\ phase' = [phase EXCEPT ![a] = ""]
    BY DEF IInv, TypeOK, CreateAction, Lifecycle!Create
  <1>6. TypeOK'
    <2>1. Lifecycle!TypeOK'
      BY <1>5 DEF Lifecycle!TypeOK, Lifecycle!Phases
    <2>2. \A b \in Actions : target'[b] # 0 => phase'[b] \in Begun
      BY <1>5 DEF IInv, TypeOK, CreateAction, Lifecycle!TypeOK, Begun
    <2> QED
      BY <2>1, <2>2 DEF IInv, TypeOK, CreateAction, cluster, Begun
  <1>7. CreatedForIll'
    BY <1>4, <1>5 DEF IInv, CreatedForIll, CreateAction, cluster, Lifecycle!TypeOK
  <1>8. Young' /\ Sighted' /\ OnlyIllRestarted' /\ stable' \in BOOLEAN
    BY DEF IInv, Young, Sighted, Known, OnlyIllRestarted, CreateAction, cluster
  <1> QED BY <1>6, <1>7, <1>8 DEF IInv

\* A deletion hits the Pod of the name, which is the one the Action is for.
LEMMA DeleteStep ==
    ASSUME IInv, NEW a \in Actions, Delete(a)
    PROVE  IInv'
  <1>1. PICK p \in pods :
            /\ p.name = a[1]
            /\ pods' = (pods \ {p}) \cup {[p EXCEPT !.terminating = TRUE]}
            /\ restarted' = IF p.terminating THEN restarted ELSE restarted \cup {p.uid}
    BY DEF Delete, Named
  <1> DEFINE q == [p EXCEPT !.terminating = TRUE]
  <1>2. /\ p \in Pods /\ q \in Pods /\ q.name = p.name /\ q.uid = p.uid
        /\ q.status = p.status
    BY <1>1 DEF IInv, TypeOK, Pods
  <1>3. Known(p)
    BY <1>1 DEF IInv, Sighted
  <1>4. phase[a] = "Running"
    BY DEF Delete, Executing
  <1>5. /\ Lifecycle!TypeOK'
        /\ \A b \in Actions : phase'[b] # "Absent" => phase[b] # "Absent"
        /\ \A b \in Actions : phase[b] \in Begun => phase'[b] \in Begun
    <2>1. CASE Lifecycle!Advance(a)
      BY <2>1, LifecycleStep DEF IInv, TypeOK
    <2>2. CASE UNCHANGED phase
      BY <2>2 DEF IInv, TypeOK, Lifecycle!TypeOK
    <2> QED BY <2>1, <2>2 DEF Delete
  <1>6. UNCHANGED <<stable, lastUid, ill, agentStore, ctlCache, target>>
    BY DEF Delete
  <1> HIDE DEF q
  <1>7. TypeOK'
    <2>1. pods' \subseteq Pods /\ restarted' \subseteq Uids
      BY <1>1, <1>2 DEF IInv, TypeOK, Pods, q
    <2>2. \A r, t \in pods' : r.name = t.name => r = t
      <3>1. \A r, t \in pods : r.name = t.name => r = t
        BY DEF IInv, TypeOK
      <3>2. \A r \in pods' : r = q \/ (r \in pods /\ r # p)
        BY <1>1 DEF q
      <3> QED BY <1>2, <3>1, <3>2
    <2> QED
      BY <2>1, <2>2, <1>5, <1>6 DEF IInv, TypeOK, Begun
  <1>8. Young' /\ Sighted'
    BY <1>1, <1>2, <1>3, <1>6 DEF IInv, Young, Sighted, Known, q
  <1>9. ~stable => p.uid \in ill
    BY <1>1, <1>3, <1>4 DEF IInv, CreatedForIll, Known
  <1>10. CreatedForIll' /\ OnlyIllRestarted' /\ stable' \in BOOLEAN
    BY <1>1, <1>5, <1>6, <1>9 DEF IInv, CreatedForIll, OnlyIllRestarted
  <1> QED BY <1>7, <1>8, <1>10 DEF IInv

\* A new Pod gets a UID and, unless names are used again, a name nobody had.
LEMMA ReplaceStep ==
    ASSUME IInv, Replace
    PROVE  IInv'
  <1>1. PICK s \in PodStates :
            s.containers = {} /\ pods' = pods \cup {NewPod(lastUid + 1, s)}
    BY DEF Replace
  <1>2. /\ lastUid \in Nat /\ lastUid' = lastUid + 1 /\ lastUid' \in Uids
        /\ UNCHANGED <<stable, ill, control, agentStore, ctlCache>>
    BY LoopAssumption DEF IInv, TypeOK, Replace, Uids
  <1>3. PICK q \in Pods :
            /\ pods' = pods \cup {q} /\ q.uid = lastUid + 1 /\ q.status = s
            /\ q.name = IF stable THEN 1 ELSE lastUid + 1
    <2> DEFINE n == NewPod(lastUid + 1, s)
    <2>1. /\ n \in Pods /\ n.uid = lastUid + 1 /\ n.status = s
          /\ n.name = IF stable THEN 1 ELSE lastUid + 1
      BY <1>2, LoopAssumption DEF NewPod, Pods, Uids, IInv
    <2> HIDE DEF n
    <2>2. pods' = pods \cup {n}
      BY <1>1 DEF n
    <2> QED BY <2>1, <2>2
  <1>4. RestartSymptoms(s) = {}
    BY <1>1 DEF RestartSymptoms
  <1>5. \A p \in pods : p \in Pods /\ p.uid <= lastUid /\ p.uid \in Nat /\ p.name # q.name
    <2> SUFFICES ASSUME NEW p \in pods
                 PROVE  p \in Pods /\ p.uid <= lastUid /\ p.uid \in Nat /\ p.name # q.name
      OBVIOUS
    <2>1. p \in Pods /\ p.uid <= lastUid /\ p.uid \in Nat
      BY DEF IInv, TypeOK, Young, Pods, Uids
    <2>2. ~stable
      BY DEF Replace
    <2>3. p.name = p.uid
      BY <2>2 DEF IInv, Sighted, Known
    <2> QED BY <1>2, <1>3, <2>1, <2>2, <2>3
  <1>6. TypeOK'
    <2>1. pods' \subseteq Pods
      BY <1>3, <1>5
    <2>2. \A r, t \in pods' : r.name = t.name => r = t
      <3>1. \A r, t \in pods : r.name = t.name => r = t
        BY DEF IInv, TypeOK
      <3> QED BY <1>3, <1>5, <3>1
    <2> QED
      BY <1>2, <2>1, <2>2 DEF IInv, TypeOK, Lifecycle!TypeOK, control
  <1>7. Young'
    BY <1>2, <1>3, <1>5 DEF Young
  <1>8. Known(q)'
    BY <1>2, <1>3, <1>4 DEF Known
  <1>9. Sighted'
    BY <1>2, <1>3, <1>8 DEF IInv, Sighted, Known
  <1>10. CreatedForIll' /\ OnlyIllRestarted' /\ stable' \in BOOLEAN
    BY <1>2 DEF IInv, CreatedForIll, OnlyIllRestarted, control
  <1> QED BY <1>6, <1>7, <1>9, <1>10 DEF IInv

\* A Pod whose symptoms show is ill.
LEMMA BecomeStep ==
    ASSUME IInv, NEW p \in pods, NEW q \in Pods, Become(p, q),
           q.uid = p.uid, q.name = p.name
    PROVE  IInv'
  <1>1. /\ UNCHANGED <<stable, lastUid, control, agentStore, ctlCache>>
        /\ pods' = (pods \ {p}) \cup {q}
        /\ ill' = IF RestartSymptoms(q.status) = {} THEN ill ELSE ill \cup {q.uid}
    BY DEF Become
  <1>2. TypeOK'
    <2>1. pods' \subseteq Pods /\ ill' \subseteq Uids
      BY <1>1 DEF IInv, TypeOK, Pods
    <2>2. \A r, t \in pods' : r.name = t.name => r = t
      <3>1. \A r, t \in pods : r.name = t.name => r = t
        BY DEF IInv, TypeOK
      <3>2. \A r \in pods' : r = q \/ (r \in pods /\ r # p)
        BY <1>1
      <3> QED BY <3>1, <3>2
    <2> QED
      BY <1>1, <2>1, <2>2 DEF IInv, TypeOK, Lifecycle!TypeOK, control
  <1>3. Young'
    BY <1>1 DEF IInv, Young
  <1>4. ill \subseteq ill'
    BY <1>1
  <1>5. Sighted'
    <2>1. Known(p) /\ \A r \in pods \cup agentStore \cup ctlCache : Known(r)
      BY DEF IInv, Sighted
    <2>2. Known(q)'
      BY <1>1, <2>1 DEF Known
    <2>3. \A r \in pods \cup agentStore \cup ctlCache : Known(r)'
      BY <1>1, <1>4, <2>1 DEF Known
    <2> QED BY <1>1, <2>2, <2>3 DEF Sighted
  <1>6. CreatedForIll' /\ OnlyIllRestarted' /\ stable' \in BOOLEAN
    BY <1>1, <1>4 DEF IInv, CreatedForIll, OnlyIllRestarted, control
  <1> QED BY <1>2, <1>3, <1>5, <1>6 DEF IInv

\* A Pod that is gone is known no less where it is still stored.
LEMMA TerminatedStep ==
    ASSUME IInv, NEW p \in pods, Terminated(p)
    PROVE  IInv'
  <1>1. /\ UNCHANGED <<stable, lastUid, ill, control, agentStore, ctlCache>>
        /\ pods' = pods \ {p}
    BY DEF Terminated
  <1>2. TypeOK'
    BY <1>1 DEF IInv, TypeOK, Lifecycle!TypeOK, control
  <1>3. Young' /\ Sighted'
    BY <1>1 DEF IInv, Young, Sighted, Known
  <1>4. CreatedForIll' /\ OnlyIllRestarted' /\ stable' \in BOOLEAN
    BY <1>1 DEF IInv, CreatedForIll, OnlyIllRestarted, control
  <1> QED BY <1>2, <1>3, <1>4 DEF IInv

\* The first Pod starts without symptoms, and nothing is stored.
LEMMA InitEstablishes ==
    ASSUME Init
    PROVE  IInv
  <1>1. PICK s \in PodStates : s.containers = {} /\ pods = {NewPod(1, s)}
    BY DEF Init
  <1> DEFINE q == NewPod(1, s)
  <1>2. 1 \in Uids /\ stable \in BOOLEAN
    BY LoopAssumption DEF Uids, Init
  <1>3. q \in Pods /\ q.uid = 1 /\ q.name = 1 /\ q.status = s
    BY <1>2 DEF NewPod, Pods
  <1>4. RestartSymptoms(s) = {}
    BY <1>1 DEF RestartSymptoms
  <1> HIDE DEF q
  <1>5. pods = {q} /\ agentStore = {} /\ ctlCache = {} /\ lastUid = 1
    BY <1>1 DEF Init, q
  <1>6. Lifecycle!TypeOK
    BY DEF Init, Lifecycle!Init, Lifecycle!TypeOK
  <1>7. TypeOK
    BY <1>2, <1>3, <1>5, <1>6, LoopAssumption DEF Init, TypeOK
  <1>8. Young /\ Sighted
    BY <1>3, <1>4, <1>5 DEF Young, Sighted, Known
  <1>9. CreatedForIll /\ OnlyIllRestarted
    BY DEF Init, Lifecycle!Init, CreatedForIll, OnlyIllRestarted
  <1> QED BY <1>2, <1>7, <1>8, <1>9 DEF IInv

\* Every step preserves the invariant.
LEMMA NextPreserves ==
    ASSUME IInv, [Next]_vars
    PROVE  IInv'
  <1>1. CASE SyncAgent \/ SyncController
    BY <1>1, SyncStep
  <1>2. ASSUME NEW a \in Actions, CreateAction(a)
        PROVE  IInv'
    BY <1>2, CreateStep
  <1>3. ASSUME NEW a \in Actions, Accept(a) \/ ExecuteAbsent(a) \/ Verify(a) \/ Fail(a)
        PROVE  IInv'
    BY <1>3, ControlStep DEF Accept, ExecuteAbsent, Verify, Fail, IInv, TypeOK
  <1>4. ASSUME NEW a \in Actions, Prepare(a)
        PROVE  IInv'
    <2>1. PICK p \in ctlCache : target' = [target EXCEPT ![a] = p.uid]
      BY <1>4 DEF Prepare, Named
    <2>2. p.uid \in 0 .. MaxUid /\ target \in [Actions -> 0 .. MaxUid]
      BY LoopAssumption DEF IInv, TypeOK, Pods, Uids
    <2>3. phase[a] \in Begun
      BY <1>4 DEF Prepare, Begun
    <2> QED
      BY <1>4, <2>1, <2>2, <2>3, ControlStep DEF Prepare
  <1>5. ASSUME NEW a \in Actions, Delete(a)
        PROVE  IInv'
    BY <1>5, DeleteStep
  <1>6. CASE Replace
    BY <1>6, ReplaceStep
  <1>7. ASSUME NEW p \in pods, ChangeStatus(p)
        PROVE  IInv'
    <2>1. PICK s \in PodStates : Become(p, [p EXCEPT !.status = s, !.ready = FALSE])
      BY <1>7 DEF ChangeStatus
    <2> DEFINE q == [p EXCEPT !.status = s, !.ready = FALSE]
    <2>2. q \in Pods /\ q.uid = p.uid /\ q.name = p.name
      BY DEF IInv, TypeOK, Pods
    <2> QED BY <2>1, <2>2, BecomeStep
  <1>8. ASSUME NEW p \in pods, BecomeReady(p)
        PROVE  IInv'
    <2> DEFINE q == [p EXCEPT !.ready = TRUE]
    <2>1. Become(p, q)
      BY <1>8 DEF BecomeReady
    <2>2. q \in Pods /\ q.uid = p.uid /\ q.name = p.name
      BY DEF IInv, TypeOK, Pods
    <2> QED BY <2>1, <2>2, BecomeStep
  <1>9. ASSUME NEW p \in pods, Terminated(p)
        PROVE  IInv'
    BY <1>9, TerminatedStep
  <1>10. CASE UNCHANGED vars
    BY <1>10 DEF vars, cluster, control, IInv, TypeOK, Lifecycle!TypeOK, Young, Sighted,
                 Known, CreatedForIll, OnlyIllRestarted
  <1> QED
    BY <1>1, <1>2, <1>3, <1>4, <1>5, <1>6, <1>7, <1>8, <1>9, <1>10
    DEF Next, Agent, Controller, Executor, Cluster

\* The invariant: what is stored of a Pod is true of it, and an Action exists only
\* for an ill Pod.
THEOREM Soundness == Spec => []IInv
  <1>1. Init => IInv
    BY InitEstablishes
  <1>2. IInv /\ [Next]_vars => IInv'
    BY NextPreserves
  <1> QED BY <1>1, <1>2, PTL DEF Spec

\* Every variable keeps its shape, names are unique, and only Actions that were
\* started have a target.
THEOREM TypeCorrect == Spec => []TypeOK
  <1>1. IInv => TypeOK
    BY DEF IInv
  <1> QED BY <1>1, Soundness, PTL

\* Where names are not used again, only Pods that were ill are restarted.
THEOREM HealthyPodsSpared == Spec => []OnlyIllRestarted
  <1>1. IInv => OnlyIllRestarted
    BY DEF IInv
  <1> QED BY <1>1, Soundness, PTL
=============================================================================
