-------------------------- MODULE PodRestartProofs --------------------------
(***************************************************************************)
(* Proofs about PodRestart, for every number of controllers, of Actions,   *)
(* of replicas and of Pods ever created.  Three invariants are built on    *)
(* that of ActionController: one of the Pods, the lists that show them and *)
(* the deletions, one of what the Actions claim that were not judged by a  *)
(* list from before the Pod they recorded, and one that says a controller  *)
(* that is alone and never exits judges none like that.                    *)
(***************************************************************************)
EXTENDS PodRestart, FiniteSetTheorems, FunctionTheorems, TLAPS

(***************************************************************************)
(* The reconciler inside PodRestart.                                       *)
(***************************************************************************)

\* The assumptions of ActionController hold of the values it is given here.
LEMMA CtlAssumptions ==
    /\ Actions \subseteq Actions /\ NoAction \notin Actions
    /\ Unprepared \in PodCheckpoints
    /\ PrepareStep \subseteq PodCheckpoints \X PodCheckpoints
    /\ MaxRetries \in Nat \ {0}
    /\ MaxCrashes \in Nat /\ 0 \in Nat /\ 0 \in Nat
BY ControllerAssumption, PodAssumption DEF Unprepared, PrepareStep, PodCheckpoints, Owners

\* The checkpoint of a call to an executor is a checkpoint.
LEMMA CallStatus ==
    ASSUME Ctl!IInv, NEW c \in Controllers, Ctl!At(c, "execute") \/ Ctl!At(c, "verify")
    PROVE  /\ work[c].act \in Actions
           /\ CheckpointOf(c) \in PodCheckpoints
           /\ work[c].st \in Ctl!StatusesOf(work[c].act)
<1>1. Ctl!Busy(c)
  BY DEF Ctl!Busy, Ctl!At
<1>2. work[c].act \in Actions /\ work[c].st \in Ctl!Status
  BY <1>1, CtlAssumptions, Ctl!JobStatus DEF Ctl!IInv
<1>3. CheckpointOf(c) \in PodCheckpoints
  BY <1>2 DEF CheckpointOf, Ctl!Status
<1> QED
  BY <1>2, <1>3 DEF Ctl!StatusesOf

\* Each call of the executor returns as ActionController lets one return; the
\* read before a Delete is inside the call.
LEMMA ExecutorReturns ==
    ASSUME Ctl!IInv, NEW c \in Controllers, ExecutorStep(c)
    PROVE  Ctl!ExecutorReturns(c) \/ UNCHANGED ctlVars
<1>1. ASSUME NEW k, Ctl!ExecuteProgress(c, k) \/ Ctl!ExecuteError(c, k)
      PROVE  Ctl!ExecutorReturns(c)
  <2>1. Ctl!At(c, "execute")
    BY <1>1 DEF Ctl!ExecuteProgress, Ctl!ExecuteError
  <2>2. k = CheckpointOf(c) \/ Ctl!Reach(c, k)
    BY <1>1 DEF Ctl!ExecuteProgress, Ctl!ExecuteError, CheckpointOf
  <2>3. k \in PodCheckpoints
    BY <2>1, <2>2, CallStatus DEF Ctl!Reach, PrepareStep
  <2> QED
    BY <1>1, <2>3 DEF Ctl!ExecutorReturns
<1>2. Ctl!ExecuteDone(c) \/ Ctl!VerifyOk(c) \/ Ctl!VerifyNotYet(c) => Ctl!ExecutorReturns(c)
  BY DEF Ctl!ExecutorReturns
<1> QED
  BY <1>1, <1>2
     DEF ExecutorStep, PrepareMissing, PrepareRecord, PrepareUnmanaged, ExecuteAbsent,
         ExecuteRead, DeleteOk, DeleteLost, DeleteError, VerifyReplaced, VerifyNotReplaced

\* Each step of the executor is a step of ActionController or none.
LEMMA CtlStep ==
    ASSUME Ctl!IInv, [Next]_vars
    PROVE  [Ctl!Next]_(Ctl!vars)
<1>1. UNCHANGED ctlVars => [Ctl!Next]_(Ctl!vars)
  BY DEF ctlVars, Ctl!vars
<1>2. ASSUME NEW c \in Controllers, Controller(c)
      PROVE  [Ctl!Next]_(Ctl!vars)
  <2>1. CASE Reconcile(c)
    BY <2>1 DEF Reconcile, Ctl!Next, Ctl!Controller
  <2>2. CASE ExecutorStep(c)
    BY <1>1, <2>2, ExecutorReturns DEF Ctl!Next, Ctl!Controller
  <2>3. CASE SyncPods(c)
    BY <1>1, <2>3 DEF SyncPods
  <2>4. CASE Start(c) \/ Crash(c)
    BY <2>4 DEF Start, Crash, Ctl!Next, Ctl!Controller
  <2> QED
    BY <1>2, <2>1, <2>2, <2>3, <2>4 DEF Controller
<1>3. CASE Cluster
  BY <1>1, <1>3 DEF Cluster, Replace, BecomeReady, BecomeUnready, Evict, Terminated, Alter,
                    Ctl!Next
<1>4. CASE UNCHANGED vars
  BY <1>1, <1>4 DEF vars
<1> QED
  BY <1>2, <1>3, <1>4 DEF Next

\* The invariant of ActionController, and that every step keeps it.
LEMMA CtlSound ==
    /\ Init => Ctl!IInv
    /\ Ctl!IInv /\ [Next]_vars => Ctl!IInv'
BY CtlAssumptions, Ctl!InitSound, Ctl!NextSound, CtlStep DEF Init

(***************************************************************************)
(* The invariant of the Pods and of the deletions.                         *)
(***************************************************************************)

\* The Pods that some list shows.
Known == UNION {l.pods : l \in past}

\* UIDs are given out in order and name one Pod, however old the list it is in.
UidsSound ==
    /\ lastUid \in 1 .. MaxUid
    /\ \A p \in Known : p.uid <= lastUid
    /\ \A p, q \in Known : p.uid = q.uid => p.name = q.name
    /\ \A p, q \in pods : p.uid = q.uid => p = q
    /\ \A p, q \in Named(pods, "target") : p = q

\* A list shows no Pod created after it was made, and every one created before
\* that has not gone.
ListsSound ==
    \A l \in past :
        /\ l.lastUid <= lastUid
        /\ \A p \in l.pods : p.uid <= l.lastUid
        /\ \A p \in pods : p.uid <= l.lastUid => \E q \in l.pods : q.uid = p.uid

\* A workload that gives new names has its first Pod alone under the name; one
\* that keeps names creates its single Pod only after the one before has gone.
NamesSound ==
    /\ \A p \in Known : p.owner = IF managed THEN "workload" ELSE "none"
    /\ ~StableNames => \A p \in Known : p.name = "target" => p.uid = 1
    /\ (StableNames /\ Replicas = 1) =>
        \A l \in past : \A p \in l.pods : p.uid = l.lastUid

PodInv ==
    /\ IsFiniteSet(pods) /\ pods \subseteq Pods
    /\ past \subseteq Lists /\ List \in past
    /\ podCache \in [Controllers -> past]
    /\ managed \in BOOLEAN
    /\ misread \subseteq Actions
    /\ UidsSound
    /\ ListsSound
    /\ NamesSound

\* Only a controller inside Execute, past Prepare, is about to delete, and what
\* it aims at is stored.
DeleteInv ==
    /\ deleting \subseteq Controllers
    /\ \A c \in deleting : Ctl!At(c, "execute") /\ CheckpointOf(c).uid # 0
    /\ \A d \in deleted : d.act \in Actions
    /\ DeleteAfterCheckpoint

IInv == Ctl!IInv /\ PodInv /\ DeleteInv

(***************************************************************************)
(* The invariant of what the Actions claim.                                *)
(***************************************************************************)

\* A recorded UID is that of a Pod with the target's name.
RecordSound(uid) ==
    /\ uid \in 0 .. lastUid
    /\ ~StableNames => uid <= 1
    /\ \A p \in Known : p.uid = uid => p.name = "target"

\* A status that says the restart was executed, stored or about to be, is right.
ClaimSound(st) ==
    /\ st.phase \in Ctl!Claims => ~Live(st.checkpoint.uid)
    /\ st.phase = "Succeeded" /\ Replicas = 1 => lastUid > st.checkpoint.uid

ClaimInv ==
    \A a \in Actions : \A st \in Ctl!StatusesOf(a) :
        /\ RecordSound(st.checkpoint.uid)
        /\ a \notin misread => ClaimSound(st)

(***************************************************************************)
(* Pods come and go.                                                       *)
(***************************************************************************)

\* How the Pods change: a Pod keeps UID, name, owner and its deletion, or it is
\* new; what is listed next are the Pods there are next.  Who misread stays noted.
Aging ==
    /\ managed' = managed
    /\ lastUid <= lastUid'
    /\ \A p \in pods' :
        \/ \E q \in pods : /\ p.uid = q.uid /\ p.name = q.name /\ p.owner = q.owner
                           /\ q.terminating => p.terminating
        \/ p.uid > lastUid
    /\ past' \subseteq past \cup {List'}
    /\ misread \subseteq misread'

\* The UIDs of listed Pods are numbers up to the last one given.
LEMMA UidTypes ==
    ASSUME PodInv
    PROVE  /\ lastUid \in Nat /\ MaxUid \in Nat
           /\ pods \subseteq Known /\ Known \subseteq Pods
           /\ \A l \in past : l.pods \subseteq Known /\ l.lastUid \in Nat
           /\ \A p \in Known : p.uid \in Nat /\ p.uid >= 1
<1>1. MaxUid \in Nat
  BY PodAssumption
<1>2. pods \subseteq Known /\ \A l \in past : l.pods \subseteq Known
  BY DEF Known, PodInv, List
<1>3. Known \subseteq Pods /\ \A l \in past : l.lastUid \in Nat
  BY <1>1 DEF Known, PodInv, Lists
<1> QED
  BY <1>1, <1>2, <1>3 DEF Pods, PodInv, UidsSound

\* A Pod of the next lists is one of the lists so far or one there is next.
LEMMA KnownGrows ==
    ASSUME PodInv, past' \subseteq past \cup {List'}
    PROVE  Known' \subseteq Known \cup pods'
BY DEF Known, List

\* Some Pods are replaced by later states of them, or go.
LEMMA ChangeKeeps ==
    ASSUME PodInv, NEW p \in pods, NEW set, Become(set, lastUid),
           \/ set = pods \ {p}
           \/ \E q \in Pods : /\ set = (pods \ {p}) \cup {q}
                              /\ q.uid = p.uid /\ q.name = p.name /\ q.owner = p.owner
                              /\ p.terminating => q.terminating,
           UNCHANGED <<podCache, managed>>, misread' = misread
    PROVE  PodInv' /\ Aging
<1>0. /\ pods' = set /\ lastUid' = lastUid
      /\ past' = past \cup {List'}
  BY DEF Become, List
<1>1. \A r \in pods' :
        /\ r \in Pods
        /\ r \in pods \ {p} \/ (r.uid = p.uid /\ r.name = p.name /\ r.owner = p.owner)
  BY <1>0 DEF PodInv
<1>2. Aging
  BY <1>0, UidTypes DEF Aging
<1>3. IsFiniteSet(pods')
  <2>1. IsFiniteSet(pods \ {p})
    BY FS_RemoveElement DEF PodInv
  <2>2. \A q : IsFiniteSet((pods \ {p}) \cup {q})
    BY <2>1, FS_AddElement
  <2> QED
    BY <1>0, <2>1, <2>2
<1>4. \A r \in Known' : \E o \in Known : r.uid = o.uid /\ r.name = o.name /\ r.owner = o.owner
  BY <1>0, <1>1, KnownGrows, UidTypes
<1>5. UidsSound'
  <2>1. \A r, s \in pods' : r.uid = s.uid => r = s
    BY <1>0, <1>1 DEF PodInv, UidsSound
  <2>2. \A r, s \in Named(pods', "target") : r = s
    BY <1>0, <1>1 DEF PodInv, UidsSound, Named
  <2> QED
    BY <1>0, <1>4, <2>1, <2>2 DEF PodInv, UidsSound
<1>6. ListsSound'
  <2>1. List'.pods = pods' /\ List'.lastUid = lastUid
    BY <1>0 DEF List
  <2>2. \A r \in pods' : \E o \in pods : r.uid = o.uid
    BY <1>1
  <2>3. \A r \in pods' : r.uid <= lastUid
    BY <2>2, UidTypes DEF PodInv, UidsSound
  <2> QED
    BY <1>0, <2>1, <2>2, <2>3, UidTypes DEF PodInv, ListsSound
<1>7. NamesSound'
  <2>1. \A r \in Known' : r.owner = IF managed THEN "workload" ELSE "none"
    BY <1>4 DEF PodInv, NamesSound
  <2>2. ~StableNames => \A r \in Known' : r.name = "target" => r.uid = 1
    BY <1>4 DEF PodInv, NamesSound
  <2>3. (StableNames /\ Replicas = 1) => \A l \in past' : \A r \in l.pods : r.uid = l.lastUid
    BY <1>0, <1>1 DEF PodInv, NamesSound, List
  <2> QED
    BY <2>1, <2>2, <2>3 DEF NamesSound
<1>8. past' \subseteq Lists /\ List' \in past' /\ podCache' \in [Controllers -> past']
  <2>1. List' \in Lists
    BY <1>0, <1>1, UidTypes DEF List, Lists, PodInv, UidsSound
  <2> QED
    BY <1>0, <2>1 DEF PodInv
<1> QED
  BY <1>1, <1>2, <1>3, <1>5, <1>6, <1>7, <1>8 DEF PodInv

\* A cache that takes over another list, or none that does, changes no Pod.
LEMMA CachesMove ==
    ASSUME PodInv, podCache' \in [Controllers -> past],
           misread \subseteq misread', misread' \subseteq Actions,
           UNCHANGED <<pods, lastUid, past, managed>>
    PROVE  PodInv' /\ Aging
<1>1. Aging
  BY UidTypes DEF Aging
<1>2. UidsSound' /\ ListsSound' /\ NamesSound' /\ List' = List
  BY DEF PodInv, UidsSound, ListsSound, NamesSound, Known, List
<1> QED
  BY <1>1, <1>2 DEF PodInv

\* The workload controller creates a Pod: its UID is new, and so is its name
\* unless no Pod has the target's.
LEMMA ReplaceKeeps ==
    ASSUME PodInv, Replace
    PROVE  PodInv' /\ Aging
<1> DEFINE owned == {p \in pods : p.owner = "workload" /\ (StableNames \/ ~p.terminating)}
           name == IF StableNames /\ Named(pods, "target") = {} THEN "target" ELSE "other"
           new == [uid |-> lastUid + 1, name |-> name, owner |-> "workload",
                   ready |-> FALSE, terminating |-> FALSE]
<1>1. /\ managed /\ Cardinality(owned) < Replicas
      /\ lastUid < MaxUid /\ lastUid' = lastUid + 1
      /\ pods' = pods \cup {new}
      /\ past' = past \cup {List'}
      /\ podCache' = podCache /\ managed' = managed /\ misread' = misread
  BY DEF Replace, Become, List, auxVars
<1>2. /\ new.uid = lastUid + 1 /\ new.name = name /\ new.owner = "workload"
      /\ new \in Pods
  BY <1>1, UidTypes DEF Pods, Owners
<1>3. name = "target" => StableNames /\ Named(pods, "target") = {}
  OBVIOUS
<1>4. StableNames /\ Replicas = 1 => pods = {}
  <2> SUFFICES ASSUME StableNames, Replicas = 1 PROVE pods = {}
    OBVIOUS
  <2>1. owned = pods
    BY <1>1, UidTypes DEF PodInv, NamesSound
  <2>2. Cardinality(pods) \in Nat /\ Cardinality(pods) < 1
    BY <1>1, <2>1, FS_CardinalityType DEF PodInv
  <2>3. Cardinality(pods) = 0
    BY <2>2
  <2> QED
    BY <2>3, FS_EmptySet DEF PodInv
<1> HIDE DEF new, name, owned
<1>5. IsFiniteSet(pods') /\ pods' \subseteq Pods
  BY <1>1, <1>2, FS_AddElement DEF PodInv
<1>6. \A p \in Known' : p \in Known \/ p = new
  BY <1>1, KnownGrows, UidTypes
<1>7. Aging
  BY <1>1, <1>2, UidTypes DEF Aging
<1>8. UidsSound'
  <2>1. lastUid' \in 1 .. MaxUid
    BY <1>1, UidTypes DEF PodInv, UidsSound
  <2>2. \A p \in Known : p.uid # new.uid /\ p.uid <= lastUid'
    BY <1>1, <1>2, UidTypes DEF PodInv, UidsSound
  <2>3. \A p, q \in Known' : p.uid = q.uid => p.name = q.name
    BY <1>6, <2>2 DEF PodInv, UidsSound
  <2>4. \A p, q \in pods' : p.uid = q.uid => p = q
    BY <1>1, <2>2, UidTypes DEF PodInv, UidsSound
  <2>5. \A p, q \in Named(pods', "target") : p = q
    BY <1>1, <1>2, <1>3 DEF PodInv, UidsSound, Named
  <2>6. \A p \in Known' : p.uid <= lastUid'
    BY <1>1, <1>2, <1>6, <2>2, UidTypes
  <2> QED
    BY <2>1, <2>3, <2>4, <2>5, <2>6 DEF UidsSound
<1>9. ListsSound'
  <2>1. List'.pods = pods' /\ List'.lastUid = lastUid'
    BY DEF List
  <2>2. \A l \in past : l.lastUid <= lastUid /\ l.lastUid \in Nat
    BY UidTypes DEF PodInv, ListsSound
  <2>3. \A l \in past : l.lastUid <= lastUid' /\ ~(new.uid <= l.lastUid)
    BY <1>1, <1>2, <2>2, UidTypes
  <2>4. lastUid' <= lastUid' /\ \A p \in pods' : p.uid <= lastUid'
    <3>1. \A p \in pods : p.uid <= lastUid'
      BY <1>1, UidTypes DEF PodInv, UidsSound
    <3> QED
      BY <1>1, <1>2, <3>1, UidTypes
  <2> QED
    BY <1>1, <2>1, <2>3, <2>4 DEF PodInv, ListsSound
<1>10. NamesSound'
  <2>1. \A p \in Known' : p.owner = IF managed' THEN "workload" ELSE "none"
    BY <1>1, <1>2, <1>6 DEF PodInv, NamesSound
  <2>2. ~StableNames => \A p \in Known' : p.name = "target" => p.uid = 1
    BY <1>1, <1>2, <1>3, <1>6 DEF PodInv, NamesSound
  <2>3. StableNames /\ Replicas = 1 => \A l \in past' : \A p \in l.pods : p.uid = l.lastUid
    BY <1>1, <1>2, <1>4 DEF PodInv, NamesSound, List
  <2> QED
    BY <2>1, <2>2, <2>3 DEF NamesSound
<1>11. past' \subseteq Lists /\ List' \in past' /\ podCache' \in [Controllers -> past']
  <2>1. List' \in Lists
    BY <1>5, <1>8, UidTypes DEF List, Lists, UidsSound
  <2> QED
    BY <1>1, <2>1 DEF PodInv
<1> QED
  BY <1>1, <1>5, <1>7, <1>8, <1>9, <1>10, <1>11 DEF PodInv

(***************************************************************************)
(* Every step keeps the invariant of the Pods and of the deletions.        *)
(***************************************************************************)

\* One Pod has the name: the one that is deleted.
LEMMA DeleteMoves ==
    ASSUME PodInv, NEW c \in Controllers, DeleteTarget(c)
    PROVE  PodInv' /\ Aging
<1>1. PICK p \in Named(pods, "target") :
        Become((pods \ {p}) \cup {[p EXCEPT !.terminating = TRUE]}, lastUid)
  BY DEF DeleteTarget
<1>2. p \in pods /\ p \in Pods
  BY <1>1 DEF Named, PodInv
<1>3. PICK q : q = [p EXCEPT !.terminating = TRUE]
  OBVIOUS
<1>4. /\ q \in Pods /\ q.uid = p.uid /\ q.name = p.name /\ q.owner = p.owner
      /\ q.terminating
  BY <1>2, <1>3 DEF Pods
<1>5. UNCHANGED <<podCache, managed>> /\ misread' = misread
  BY DEF DeleteTarget
<1>6. PICK set : set = (pods \ {p}) \cup {q}
  OBVIOUS
<1>7. Become(set, lastUid)
  BY <1>1, <1>3, <1>6
<1> QED
  BY <1>2, <1>4, <1>5, <1>6, <1>7, ChangeKeeps

\* Kubelets and the workload controller keep it.
LEMMA ClusterMoves ==
    ASSUME PodInv, Replace \/ \E p \in pods :
                BecomeReady(p) \/ BecomeUnready(p) \/ Evict(p) \/ Terminated(p)
    PROVE  PodInv' /\ Aging
<1>1. ASSUME NEW p \in pods, NEW q, Alter(p, q),
             \/ q = [p EXCEPT !.ready = TRUE]
             \/ q = [p EXCEPT !.ready = FALSE]
             \/ q = [p EXCEPT !.terminating = TRUE]
      PROVE  PodInv' /\ Aging
  <2>1. p \in Pods
    BY DEF PodInv
  <2>2. /\ q \in Pods /\ q.uid = p.uid /\ q.name = p.name /\ q.owner = p.owner
        /\ p.terminating => q.terminating
    BY <1>1, <2>1 DEF Pods
  <2>3. PICK set : set = (pods \ {p}) \cup {q}
    OBVIOUS
  <2>4. Become(set, lastUid) /\ UNCHANGED <<podCache, managed>> /\ misread' = misread
    BY <1>1, <2>3 DEF Alter, auxVars
  <2> QED
    BY <2>2, <2>3, <2>4, ChangeKeeps
<1>2. ASSUME NEW p \in pods, Terminated(p)
      PROVE  PodInv' /\ Aging
  <2>1. PICK set : set = pods \ {p}
    OBVIOUS
  <2>2. Become(set, lastUid) /\ UNCHANGED <<podCache, managed>> /\ misread' = misread
    BY <1>2, <2>1 DEF Terminated, auxVars
  <2> QED
    BY <2>1, <2>2, ChangeKeeps
<1> QED
  BY <1>1, <1>2, ReplaceKeeps DEF BecomeReady, BecomeUnready, Evict

\* All that a step does to the Pods.
LEMMA PodStep ==
    ASSUME Ctl!IInv, PodInv, [Next]_vars
    PROVE  PodInv' /\ Aging
<1>1. ASSUME UNCHANGED <<pods, lastUid, past, podCache, managed>>, misread' = misread
      PROVE  PodInv' /\ Aging
  BY <1>1, CachesMove DEF PodInv
<1>2. ASSUME UNCHANGED podVars
      PROVE  PodInv' /\ Aging
  BY <1>1, <1>2 DEF podVars, auxVars
<1>3. ASSUME NEW c \in Controllers, Controller(c)
      PROVE  PodInv' /\ Aging
  <2>1. CASE Reconcile(c)
    BY <1>2, <2>1 DEF Reconcile
  <2>2. CASE ExecuteAbsent(c) \/ VerifyReplaced(c)
    <3>1. UNCHANGED <<pods, lastUid, past, podCache, managed>> /\ Judge(c)
      BY <2>2 DEF ExecuteAbsent, VerifyReplaced
    <3>2. work[c].act \in Actions
      BY <2>2, CallStatus DEF ExecuteAbsent, VerifyReplaced, Executing, Ctl!VerifyOk
    <3>3. misread \subseteq misread' /\ misread' \subseteq Actions
      BY <3>1, <3>2 DEF Judge, PodInv
    <3> QED
      BY <3>1, <3>3, CachesMove DEF PodInv
  <2>3. CASE ExecuteRead(c) \/ DeleteError(c)
    BY <1>1, <2>3 DEF ExecuteRead, DeleteError, auxVars
  <2>4. CASE PrepareMissing(c) \/ PrepareRecord(c) \/ PrepareUnmanaged(c)
                \/ VerifyNotReplaced(c)
    BY <1>2, <2>4 DEF PrepareMissing, PrepareRecord, PrepareUnmanaged, VerifyNotReplaced
  <2>5. CASE DeleteOk(c) \/ DeleteLost(c)
    BY <2>5, DeleteMoves DEF DeleteOk, DeleteLost
  <2>6. CASE SyncPods(c) \/ Start(c)
    <3>1. /\ UNCHANGED <<pods, lastUid, past, managed>> /\ misread' = misread
          /\ \E list \in past : podCache' = [podCache EXCEPT ![c] = list]
      BY <2>6 DEF SyncPods, Start, auxVars, PodInv
    <3>2. podCache' \in [Controllers -> past] /\ misread' \subseteq Actions
      BY <3>1 DEF PodInv
    <3> QED
      BY <3>1, <3>2, CachesMove
  <2>7. CASE Crash(c)
    BY <1>1, <2>7 DEF Crash, auxVars
  <2> QED
    BY <1>3, <2>1, <2>2, <2>3, <2>4, <2>5, <2>6, <2>7 DEF Controller, ExecutorStep
<1>4. CASE Cluster
  BY <1>2, <1>4, ClusterMoves DEF Cluster
<1>5. CASE UNCHANGED vars
  BY <1>2, <1>5 DEF vars
<1> QED
  BY <1>3, <1>4, <1>5 DEF Next

\* A deletion that was made stays explained by the history of its Action.
LEMMA DeletedKept ==
    ASSUME IInv, [Next]_vars, NEW d \in deleted
    PROVE  d.aim # 0 /\ \E i \in DOMAIN log'[d.act] : log'[d.act][i].checkpoint.uid = d.aim
<1>1. d.act \in Actions
  BY DEF IInv, DeleteInv
<1>2. PICK i \in DOMAIN log[d.act] : log[d.act][i].checkpoint.uid = d.aim /\ d.aim # 0
  BY DEF IInv, DeleteInv, DeleteAfterCheckpoint
<1>3. Ctl!Grows /\ Ctl!TypeOK
  BY CtlAssumptions, Ctl!StepGrows, CtlStep DEF IInv, Ctl!IInv
<1>4. /\ Len(log[d.act]) \in Nat /\ Len(log'[d.act]) \in Nat
      /\ Len(log[d.act]) <= Len(log'[d.act])
      /\ \A j \in 1 .. Len(log[d.act]) : log'[d.act][j] = log[d.act][j]
  BY <1>1, <1>3, CtlAssumptions, Ctl!HistoryKept
<1>5. log[d.act] \in Seq(Ctl!Versions) /\ log'[d.act] \in Seq(Ctl!Versions)
  <2>1. Ctl!IInv'
    BY CtlSound DEF IInv
  <2> QED
    BY <1>1, <1>3, <2>1 DEF Ctl!IInv, Ctl!TypeOK
<1>6. i \in 1 .. Len(log[d.act]) /\ i \in DOMAIN log'[d.act]
  BY <1>2, <1>4, <1>5
<1> QED
  BY <1>2, <1>4, <1>6

\* A new deletion aims at the UID in the version its call was started from.
LEMMA NewDeletion ==
    ASSUME IInv, NEW c \in Controllers, DeleteTarget(c), log' = log,
           NEW d \in deleted' \ deleted
    PROVE  /\ d.act \in Actions /\ d.aim # 0
           /\ \E i \in DOMAIN log[d.act] : log[d.act][i].checkpoint.uid = d.aim
<1>1. /\ Ctl!At(c, "execute") /\ CheckpointOf(c).uid # 0
      /\ d.act = work[c].act /\ d.aim = CheckpointOf(c).uid
  BY DEF DeleteTarget, IInv, DeleteInv
<1>2. Ctl!Busy(c) /\ work[c].act \in Actions
  BY <1>1, CallStatus DEF Ctl!Busy, Ctl!At, IInv
<1>3. /\ work[c].ver \in 1 .. Len(log[work[c].act])
      /\ work[c].st = log[work[c].act][work[c].ver]
  BY <1>1, <1>2 DEF IInv, Ctl!IInv, Ctl!WorkSound, Ctl!JobSound, Ctl!At
<1>4. log[work[c].act] \in Seq(Ctl!Versions)
  BY <1>2 DEF IInv, Ctl!IInv, Ctl!TypeOK
<1> QED
  BY <1>1, <1>2, <1>3, <1>4 DEF CheckpointOf

\* A controller leaves the calls of the others alone.
LEMMA OthersKept ==
    ASSUME Ctl!IInv, NEW d \in Controllers, Controller(d), NEW c \in Controllers \ {d}
    PROVE  work'[c] = work[c] /\ (c \in deleting' => c \in deleting)
<1>1. work \in [Controllers -> Ctl!Jobs]
  BY DEF Ctl!IInv, Ctl!TypeOK
<1>2. CASE Reconcile(d)
  BY <1>1, <1>2
     DEF Reconcile, podVars, Ctl!Take, Ctl!Skip, Ctl!RejectUnsupported, Ctl!Accept,
         Ctl!StartExecution, Ctl!FailTimedOut, Ctl!CallExecute, Ctl!CallVerify, Ctl!Begin,
         Ctl!Deliver, Ctl!UpdateReturns, Ctl!UpdateOk, Ctl!UpdateConflict, Ctl!UpdateError,
         Ctl!UpdateLost, Ctl!Return
<1>3. CASE ExecutorStep(d)
  <2>1. Ctl!ExecutorReturns(d) \/ UNCHANGED ctlVars
    BY <1>3, ExecutorReturns
  <2>2. work'[c] = work[c]
    BY <1>1, <2>1
       DEF ctlVars, Ctl!ExecutorReturns, Ctl!ExecuteProgress, Ctl!ExecuteError,
           Ctl!ExecuteInProgress, Ctl!ExecuteDone, Ctl!VerifyError, Ctl!VerifyNotYet,
           Ctl!VerifyOk, Ctl!RetryOrFail, Ctl!Continue, Ctl!Return
  <2> QED
    BY <1>3, <2>2
       DEF ExecutorStep, PrepareMissing, PrepareRecord, PrepareUnmanaged, ExecuteAbsent,
           ExecuteRead, DeleteOk, DeleteLost, DeleteTarget, DeleteError, VerifyReplaced,
           VerifyNotReplaced, podVars
<1>4. CASE SyncPods(d) \/ Start(d) \/ Crash(d)
  BY <1>1, <1>4 DEF SyncPods, ctlVars, Start, Ctl!Start, Crash, Ctl!Crash
<1> QED
  BY <1>2, <1>3, <1>4 DEF Controller

\* A controller that is about to delete is inside Execute, past Prepare.
LEMMA DeletingKept ==
    ASSUME IInv, [Next]_vars, NEW c \in deleting'
    PROVE  c \in Controllers /\ Ctl!At(c, "execute")' /\ CheckpointOf(c)'.uid # 0
<1>t. Ctl!IInv /\ DeleteInv
  BY DEF IInv
<1>1. ASSUME c \in deleting, work' = work
      PROVE  c \in Controllers /\ Ctl!At(c, "execute")' /\ CheckpointOf(c)'.uid # 0
  BY <1>1, <1>t DEF DeleteInv, Ctl!At, CheckpointOf
<1>2. ASSUME NEW d \in Controllers, Controller(d), d # c
      PROVE  c \in Controllers /\ Ctl!At(c, "execute")' /\ CheckpointOf(c)'.uid # 0
  <2>1. c \in Controllers
    <3>1. deleting' \subseteq deleting \cup {d}
      BY <1>2
         DEF Controller, Reconcile, ExecutorStep, PrepareMissing, PrepareRecord,
             PrepareUnmanaged, ExecuteAbsent, ExecuteRead, DeleteOk, DeleteLost,
             DeleteTarget, DeleteError, VerifyReplaced, VerifyNotReplaced, SyncPods,
             Start, Crash, podVars
    <3> QED
      BY <1>t, <3>1 DEF DeleteInv
  <2>2. work'[c] = work[c] /\ c \in deleting
    BY <1>2, <1>t, <2>1, OthersKept
  <2> QED
    BY <1>t, <2>1, <2>2 DEF DeleteInv, Ctl!At, CheckpointOf
<1>3. ASSUME c \in Controllers, Controller(c)
      PROVE  c \in Controllers /\ Ctl!At(c, "execute")' /\ CheckpointOf(c)'.uid # 0
  <2>1. CASE Reconcile(c)
    <3>1. c \in deleting /\ Ctl!At(c, "execute")
      BY <1>t, <2>1 DEF Reconcile, podVars, DeleteInv
    <3>2. PICK a \in Actions : Ctl!Deliver(c, a)
      BY <2>1, <3>1
         DEF Reconcile, Ctl!Take, Ctl!Skip, Ctl!RejectUnsupported, Ctl!Accept,
             Ctl!StartExecution, Ctl!FailTimedOut, Ctl!CallExecute, Ctl!CallVerify,
             Ctl!Begin, Ctl!Get, Ctl!UpdateReturns, Ctl!UpdateOk, Ctl!UpdateConflict,
             Ctl!UpdateError, Ctl!UpdateLost, Ctl!At
    <3> QED
      BY <1>1, <3>1, <3>2 DEF Ctl!Deliver
  <2>2. CASE ExecutorStep(c)
    <3>1. CASE ExecuteRead(c)
      BY <1>3, <3>1 DEF ExecuteRead, Executing, ctlVars, Ctl!At, CheckpointOf
    <3>2. CASE DeleteOk(c) \/ DeleteLost(c) \/ DeleteError(c)
      BY <3>2 DEF DeleteOk, DeleteLost, DeleteTarget, DeleteError
    <3>3. CASE \/ PrepareMissing(c) \/ PrepareRecord(c) \/ PrepareUnmanaged(c)
               \/ ExecuteAbsent(c) \/ VerifyReplaced(c) \/ VerifyNotReplaced(c)
      BY <1>t, <3>3
         DEF PrepareMissing, PrepareRecord, PrepareUnmanaged, Preparing, ExecuteAbsent,
             Executing, VerifyReplaced, VerifyNotReplaced, Ctl!VerifyOk, Ctl!At,
             DeleteInv, podVars
    <3> QED
      BY <2>2, <3>1, <3>2, <3>3 DEF ExecutorStep
  <2>3. CASE SyncPods(c)
    BY <1>1, <2>3 DEF SyncPods, ctlVars
  <2>4. CASE Start(c)
    BY <1>t, <2>4 DEF Start, Ctl!Start, Ctl!At, DeleteInv
  <2>5. CASE Crash(c)
    BY <2>5 DEF Crash
  <2> QED
    BY <1>3, <2>1, <2>2, <2>3, <2>4, <2>5 DEF Controller
<1>4. CASE Cluster
  BY <1>1, <1>4
     DEF Cluster, Ctl!Environment, Ctl!Create, Ctl!Touch, Ctl!Delete, Ctl!Expire, Replace,
         BecomeReady, BecomeUnready, Evict, Terminated, Alter, ctlVars, podVars
<1>5. CASE UNCHANGED vars
  BY <1>1, <1>5 DEF vars, ctlVars, podVars
<1> QED
  BY <1>2, <1>3, <1>4, <1>5 DEF Next

\* Only a Delete adds to the deletions, and it writes no status.
LEMMA WhoDeletes ==
    ASSUME IInv, [Next]_vars
    PROVE  \/ deleted' \subseteq deleted
           \/ log' = log /\ \E c \in Controllers : DeleteTarget(c)
<1>1. ASSUME NEW c \in Controllers, ExecutorStep(c)
      PROVE  deleted' \subseteq deleted \/ (log' = log /\ DeleteTarget(c))
  BY <1>1
     DEF ExecutorStep, PrepareMissing, PrepareRecord, PrepareUnmanaged, ExecuteAbsent,
         ExecuteRead, DeleteOk, DeleteLost, DeleteError, VerifyReplaced,
         VerifyNotReplaced, podVars, auxVars, Ctl!ExecuteDone, Ctl!ExecuteError, Ctl!RetryOrFail,
         Ctl!api
<1>2. ASSUME NEW c \in Controllers, Controller(c), ~ExecutorStep(c)
      PROVE  deleted' \subseteq deleted
  BY <1>2 DEF Controller, Reconcile, SyncPods, Start, Crash, podVars, auxVars
<1>3. Cluster \/ UNCHANGED vars => deleted' \subseteq deleted
  BY DEF Cluster, Replace, BecomeReady, BecomeUnready, Evict, Terminated, Alter, podVars,
         auxVars, vars
<1> QED
  BY <1>1, <1>2, <1>3 DEF Next

\* No step aims a Delete at a UID that is not stored.
LEMMA DeleteStep ==
    ASSUME IInv, [Next]_vars
    PROVE  DeleteInv'
<1>1. \A d \in deleted' :
        /\ d.act \in Actions /\ d.aim # 0
        /\ \E i \in DOMAIN log'[d.act] : log'[d.act][i].checkpoint.uid = d.aim
  <2> SUFFICES ASSUME NEW d \in deleted'
               PROVE  /\ d.act \in Actions /\ d.aim # 0
                      /\ \E i \in DOMAIN log'[d.act] :
                            log'[d.act][i].checkpoint.uid = d.aim
    OBVIOUS
  <2>1. CASE d \in deleted
    BY <2>1, DeletedKept DEF IInv, DeleteInv
  <2>2. CASE d \notin deleted
    <3>1. PICK c \in Controllers : DeleteTarget(c) /\ log' = log
      BY <2>2, WhoDeletes
    <3> QED
      BY <2>2, <3>1, NewDeletion
  <2> QED
    BY <2>1, <2>2
<1>2. DeleteAfterCheckpoint'
  BY <1>1 DEF DeleteAfterCheckpoint
<1> QED
  BY <1>1, <1>2, DeletingKept DEF DeleteInv

(***************************************************************************)
(* The theorems that hold for any number of controllers.                   *)
(***************************************************************************)

\* The Pods the system starts with have the UIDs from 1 on.
LEMMA InitialPodsCounted ==
    ASSUME NEW isManaged \in BOOLEAN
    PROVE  /\ IsFiniteSet(InitialPods(isManaged))
           /\ Cardinality(InitialPods(isManaged)) = IF isManaged THEN Replicas ELSE 1
<1> DEFINE n == IF isManaged THEN Replicas ELSE 1
           S == InitialPods(isManaged)
           f == [i \in 1 .. n |->
                    [uid |-> i, name |-> IF i = 1 THEN "target" ELSE "other",
                     owner |-> IF isManaged THEN "workload" ELSE "none",
                     ready |-> TRUE, terminating |-> FALSE]]
<1>1. n \in Nat \ {0}
  BY PodAssumption
<1>2. \A i \in 1 .. n : f[i].uid = i
  OBVIOUS
<1>3. \A p \in S : \E i \in 1 .. n : f[i] = p
  BY DEF InitialPods
<1>4. f \in [1 .. n -> S]
  BY DEF InitialPods
<1> HIDE DEF f, S, n
<1>5. f \in Bijection(1 .. n, S)
  BY <1>2, <1>3, <1>4, Fun_IsBij
<1>6. ExistsBijection(1 .. n, S)
  BY <1>5 DEF ExistsBijection
<1>7. IsFiniteSet(1 .. n) /\ Cardinality(1 .. n) = n
  BY <1>1, FS_Interval
<1> QED
  BY <1>6, <1>7, FS_Bijection DEF n, S

\* The invariant holds at first.
LEMMA InitInv == Init => IInv
<1> SUFFICES ASSUME Init PROVE IInv
  OBVIOUS
<1>1. Ctl!IInv
  BY CtlSound
<1>2. DeleteInv
  BY DEF Init, DeleteInv, DeleteAfterCheckpoint
<1> DEFINE n == IF managed THEN Replicas ELSE 1
<1>3. /\ IsFiniteSet(pods) /\ lastUid = n /\ managed \in BOOLEAN
      /\ n \in 1 .. MaxUid /\ MaxUid \in Nat
  BY InitialPodsCounted, PodAssumption DEF Init
<1>p. \A p \in pods : \E i \in 1 .. n :
        p = [uid |-> i, name |-> IF i = 1 THEN "target" ELSE "other",
             owner |-> IF managed THEN "workload" ELSE "none",
             ready |-> TRUE, terminating |-> FALSE]
  BY DEF Init, InitialPods
<1> HIDE DEF n
<1>4. \A p \in pods :
        /\ p \in Pods /\ p.uid \in 1 .. n
        /\ p.name = IF p.uid = 1 THEN "target" ELSE "other"
        /\ p.owner = IF managed THEN "workload" ELSE "none"
  <2> SUFFICES ASSUME NEW p \in pods
               PROVE  /\ p \in Pods /\ p.uid \in 1 .. n
                      /\ p.name = IF p.uid = 1 THEN "target" ELSE "other"
                      /\ p.owner = IF managed THEN "workload" ELSE "none"
    OBVIOUS
  <2>1. PICK i \in 1 .. n :
            p = [uid |-> i, name |-> IF i = 1 THEN "target" ELSE "other",
                 owner |-> IF managed THEN "workload" ELSE "none",
                 ready |-> TRUE, terminating |-> FALSE]
    BY <1>p
  <2>2. i \in 1 .. MaxUid
    BY <1>3
  <2> QED
    BY <2>1, <2>2 DEF Pods, Owners
<1>5. \A p, q \in pods : p.uid = q.uid => p = q
  <2> SUFFICES ASSUME NEW p \in pods, NEW q \in pods, p.uid = q.uid
               PROVE  p = q
    OBVIOUS
  <2>1. PICK i \in 1 .. n :
            p = [uid |-> i, name |-> IF i = 1 THEN "target" ELSE "other",
                 owner |-> IF managed THEN "workload" ELSE "none",
                 ready |-> TRUE, terminating |-> FALSE]
    BY <1>p
  <2>2. PICK j \in 1 .. n :
            q = [uid |-> j, name |-> IF j = 1 THEN "target" ELSE "other",
                 owner |-> IF managed THEN "workload" ELSE "none",
                 ready |-> TRUE, terminating |-> FALSE]
    BY <1>p
  <2>3. p.uid = i /\ q.uid = j
    BY <2>1, <2>2
  <2> QED
    BY <2>1, <2>2, <2>3
<1>6. /\ past = {List, [pods |-> {}, lastUid |-> 0]} /\ List \in Lists
      /\ podCache = [c \in Controllers |-> List] /\ misread = {}
      /\ List.pods = pods /\ List.lastUid = n /\ Known = pods
  BY <1>3, <1>4 DEF Init, Known, List, Lists
<1>7. UidsSound
  BY <1>3, <1>4, <1>5, <1>6 DEF UidsSound, Named
<1>8. NamesSound
  <2>1. StableNames /\ Replicas = 1 => n = 1
    BY DEF n
  <2> QED
    BY <1>3, <1>4, <1>5, <1>6, <2>1 DEF NamesSound
<1>9. ListsSound
  BY <1>3, <1>4, <1>6, <1>7 DEF ListsSound, UidsSound
<1>10. PodInv
  <2>1. past \subseteq Lists
    BY <1>3, <1>6 DEF Lists
  <2> QED
    BY <1>3, <1>4, <1>6, <1>7, <1>8, <1>9, <2>1 DEF PodInv
<1> QED
  BY <1>1, <1>2, <1>10 DEF IInv

\* Every step keeps the invariant.
LEMMA NextInv == IInv /\ [Next]_vars => IInv'
BY CtlSound, PodStep, DeleteStep DEF IInv

\* The Pods, their copies and the deletions are related as IInv says, whatever
\* the caches have missed and wherever a controller crashed.
THEOREM Soundness == Spec => []IInv
<1> QED
  BY InitInv, NextInv, PTL DEF Spec

\* The state keeps its shape, and no two Pods ever share a UID or a live name.
THEOREM TypeCorrect == Spec => []TypeOK
<1>1. IInv => TypeOK
  <2> SUFFICES ASSUME IInv PROVE TypeOK
    OBVIOUS
  <2>1. Cardinality(Named(pods, "target")) <= 1
    <3>1. CASE Named(pods, "target") = {}
      BY <3>1, FS_EmptySet
    <3>2. CASE \E p : p \in Named(pods, "target")
      <4>1. PICK p : p \in Named(pods, "target")
        BY <3>2
      <4>2. Named(pods, "target") = {p}
        BY <4>1 DEF IInv, PodInv, UidsSound
      <4> QED
        BY <4>2, FS_Singleton
    <3> QED
      BY <3>1, <3>2
  <2> QED
    BY <2>1 DEF IInv, Ctl!IInv, PodInv, UidsSound, DeleteInv, TypeOK
<1> QED
  BY <1>1, Soundness, PTL

\* No Delete is sent before the UID it aims at is stored, so that a controller
\* that takes over after a crash knows what its predecessor may have deleted.
THEOREM DeletionsRecorded == Spec => []DeleteAfterCheckpoint
<1>1. IInv => DeleteAfterCheckpoint
  BY DEF IInv, DeleteInv
<1> QED
  BY <1>1, Soundness, PTL

(***************************************************************************)
(* What the Actions claim.                                                 *)
(***************************************************************************)

\* A record is never contradicted by the Pods that come or go.
LEMMA RecordKept ==
    ASSUME PodInv, PodInv', Aging, NEW uid, RecordSound(uid)
    PROVE  RecordSound(uid)'
<1>1. /\ uid \in Nat /\ uid <= lastUid /\ lastUid \in Nat /\ lastUid' \in Nat
      /\ lastUid <= lastUid' /\ MaxUid \in Nat
  BY UidTypes, PodAssumption DEF RecordSound, Aging, PodInv, UidsSound
<1>2. \A p \in pods' : p.uid = uid => \E q \in pods : q.uid = uid /\ q.name = p.name
  BY <1>1 DEF Aging
<1>3. \A p \in Known' : p.uid = uid => p.name = "target"
  BY <1>2, KnownGrows, UidTypes DEF Aging, RecordSound
<1> QED
  BY <1>1, <1>3 DEF RecordSound

\* A Pod that is gone, or on its way, does not come back, and UIDs only grow.
LEMMA ClaimKept ==
    ASSUME PodInv, PodInv', Aging, NEW st, RecordSound(st.checkpoint.uid), ClaimSound(st)
    PROVE  ClaimSound(st)'
<1>1. PICK uid : uid = st.checkpoint.uid
  OBVIOUS
<1>2. /\ uid \in Nat /\ uid <= lastUid /\ lastUid <= lastUid'
      /\ lastUid \in Nat /\ lastUid' \in Nat
  BY <1>1, PodAssumption DEF RecordSound, Aging, PodInv, UidsSound
<1>3. Live(uid)' => Live(uid)
  <2> SUFFICES ASSUME NEW p \in pods', p.uid = uid, ~p.terminating
               PROVE  \E q \in pods : q.uid = uid /\ ~q.terminating
    BY DEF Live
  <2> QED
    BY <1>2 DEF Aging
<1>4. lastUid > uid => lastUid' > uid
  BY <1>2
<1> QED
  BY <1>1, <1>3, <1>4 DEF ClaimSound, Live

\* Nothing recorded yet, nothing to get wrong.
LEMMA NothingRecorded ==
    ASSUME PodInv
    PROVE  RecordSound(0)
<1>1. 0 \in 0 .. lastUid /\ \A p \in Known : p.uid # 0
  BY UidTypes
<1> QED
  BY <1>1 DEF RecordSound

\* The claims kept by a step: those statuses inherit, and new ones with proof.
LEMMA ClaimsKept ==
    ASSUME ClaimInv, PodInv, PodInv', Aging,
           \A a \in Actions : \A st \in Ctl!StatusesOf(a)' :
                \/ Ctl!Inherits(a, st)
                \/ RecordSound(st.checkpoint.uid)' /\ (a \notin misread' => ClaimSound(st)')
    PROVE  ClaimInv'
<1> SUFFICES ASSUME NEW a \in Actions, NEW st \in Ctl!StatusesOf(a)', Ctl!Inherits(a, st)
             PROVE  RecordSound(st.checkpoint.uid)' /\ (a \notin misread' => ClaimSound(st)')
  BY DEF ClaimInv
<1>1. CASE st.checkpoint = Unprepared /\ st.phase \notin Ctl!Claims
  <2>1. RecordSound(0)'
    BY NothingRecorded, RecordKept
  <2>2. st.checkpoint.uid = 0 /\ st.phase # "Succeeded"
    BY <1>1 DEF Unprepared, Ctl!Claims
  <2> QED
    BY <1>1, <2>1, <2>2 DEF ClaimSound, RecordSound
<1>2. CASE \E old \in Ctl!StatusesOf(a) :
              /\ st.checkpoint = old.checkpoint
              /\ st.phase \in Ctl!Claims => st.phase = old.phase
  <2>1. PICK old \in Ctl!StatusesOf(a) :
            /\ st.checkpoint = old.checkpoint
            /\ st.phase \in Ctl!Claims => st.phase = old.phase
    BY <1>2
  <2>2. RecordSound(old.checkpoint.uid) /\ RecordSound(old.checkpoint.uid)'
    BY RecordKept DEF ClaimInv
  <2>3. a \notin misread' => ClaimSound(old)'
    BY <2>2, ClaimKept DEF ClaimInv, Aging
  <2>4. st.phase = "Succeeded" => st.phase \in Ctl!Claims
    BY DEF Ctl!Claims
  <2> QED
    BY <2>1, <2>2, <2>3, <2>4 DEF ClaimSound
<1> QED
  BY <1>1, <1>2 DEF Ctl!Inherits

\* A call of the executor that leads to checkpoint k and one of phases has to
\* justify them, unless it has judged by a list from before the recorded Pod.
LEMMA WriteKeeps ==
    ASSUME Ctl!IInv, ClaimInv, PodInv, PodInv', Aging,
           NEW c \in Controllers, NEW k, NEW phases, Ctl!Writes(c, k, phases),
           RecordSound(k.uid)',
           work[c].act \notin misread' =>
              \A phase \in phases :
                 /\ phase \in Ctl!Claims => ~Live(k.uid)'
                 /\ phase = "Succeeded" /\ Replicas = 1 => lastUid' > k.uid
    PROVE  ClaimInv'
<1> SUFFICES ASSUME NEW a \in Actions, NEW st \in Ctl!StatusesOf(a)'
             PROVE  \/ Ctl!Inherits(a, st)
                    \/ /\ RecordSound(st.checkpoint.uid)'
                       /\ a \notin misread' => ClaimSound(st)'
  BY ClaimsKept
<1>1. \/ st \in Ctl!StatusesOf(a)
      \/ a = work[c].act /\ st.checkpoint = k /\ st.phase \in phases
  BY CtlAssumptions, Ctl!WritesStatus
<1>2. CASE st \in Ctl!StatusesOf(a)
  BY <1>2, CtlAssumptions, Ctl!InheritsItself
<1>3. CASE a = work[c].act /\ st.checkpoint = k /\ st.phase \in phases
  BY <1>3 DEF ClaimSound, RecordSound, Live
<1> QED
  BY <1>1, <1>2, <1>3

\* What Prepare reads is the UID of a Pod with the target's name.
LEMMA RecordRead ==
    ASSUME PodInv, NEW c \in Controllers, NEW p \in Target(c)
    PROVE  RecordSound(p.uid) /\ p.uid <= podCache[c].lastUid
<1>1. podCache[c] \in past /\ p \in podCache[c].pods /\ p.name = "target"
  BY DEF Target, Named, PodInv
<1>2. p \in Known
  BY <1>1, UidTypes
<1>3. p.uid \in 0 .. lastUid /\ (~StableNames => p.uid = 1)
  BY <1>1, <1>2, UidTypes DEF PodInv, UidsSound, NamesSound
<1>4. \A q \in Known : q.uid = p.uid => q.name = "target"
  BY <1>1, <1>2 DEF PodInv, UidsSound
<1> QED
  BY <1>1, <1>3, <1>4 DEF RecordSound, PodInv, ListsSound

\* Prepare returns, with a result or an error, the UID it has read.
LEMMA PrepareReads ==
    ASSUME NEW c \in Controllers, PrepareRecord(c) \/ PrepareUnmanaged(c)
    PROVE  \E p \in Target(c) : \E k :
                k.uid = p.uid /\ (Ctl!ExecuteProgress(c, k) \/ Ctl!ExecuteError(c, k))
<1>1. PICK p \in Target(c) : \E owner :
        \/ Ctl!ExecuteProgress(c, [uid |-> p.uid, owner |-> owner])
        \/ Ctl!ExecuteError(c, [uid |-> p.uid, owner |-> owner])
  BY DEF PrepareRecord, PrepareUnmanaged
<1>2. \A owner : [uid |-> p.uid, owner |-> owner].uid = p.uid
  OBVIOUS
<1> QED
  BY <1>1, <1>2

\* A list from after the recorded Pod that does not show it: the Pod is gone.
LEMMA AbsentIsGone ==
    ASSUME PodInv, NEW c \in Controllers, RecordSound(CheckpointOf(c).uid),
           CheckpointOf(c).uid <= podCache[c].lastUid,
           \A p \in Target(c) : p.uid # CheckpointOf(c).uid
    PROVE  ~Live(CheckpointOf(c).uid)
<1>1. podCache[c] \in past
  BY DEF PodInv
<1>2. \A q \in podCache[c].pods : q.uid # CheckpointOf(c).uid
  BY <1>1, UidTypes DEF RecordSound, Target, Named
<1> QED
  BY <1>1, <1>2 DEF Live, PodInv, ListsSound

\* Such a list that shows a single other Pod: that Pod is younger.
LEMMA OtherIsYounger ==
    ASSUME PodInv, NEW c \in Controllers, RecordSound(CheckpointOf(c).uid),
           CheckpointOf(c).uid <= podCache[c].lastUid, Replicas = 1,
           NEW p \in podCache[c].pods, p.uid # CheckpointOf(c).uid
    PROVE  lastUid > CheckpointOf(c).uid
<1>1. podCache[c] \in past /\ podCache[c].lastUid \in Nat /\ podCache[c].lastUid <= lastUid
  BY UidTypes DEF PodInv, ListsSound
<1>2. p \in Known /\ p.uid \in Nat /\ p.uid >= 1 /\ p.uid <= lastUid /\ lastUid \in Nat
  BY <1>1, UidTypes DEF PodInv, UidsSound
<1>3. CheckpointOf(c).uid \in Nat
  BY <1>2 DEF RecordSound
<1>4. CASE StableNames
  <2>1. p.uid = podCache[c].lastUid
    BY <1>1, <1>4 DEF PodInv, NamesSound
  <2> QED
    BY <1>1, <1>2, <1>3, <2>1
<1>5. CASE ~StableNames
  <2>1. CheckpointOf(c).uid <= 1
    BY <1>5 DEF RecordSound
  <2> QED
    BY <1>2, <1>3, <2>1
<1> QED
  BY <1>4, <1>5

\* The checkpoint of a call is as sound as what its Action claims.
LEMMA CallClaims ==
    ASSUME IInv, ClaimInv, PodInv', Aging,
           NEW c \in Controllers, Ctl!At(c, "execute") \/ Ctl!At(c, "verify")
    PROVE  /\ RecordSound(CheckpointOf(c).uid)
           /\ \A k : k = CheckpointOf(c) => RecordSound(k.uid)'
           /\ Ctl!At(c, "verify") /\ work[c].act \notin misread => ~Live(CheckpointOf(c).uid)
<1>1. /\ work[c].act \in Actions /\ work[c].st \in Ctl!StatusesOf(work[c].act)
      /\ PodInv
  BY CallStatus DEF IInv
<1>2. RecordSound(CheckpointOf(c).uid)
  BY <1>1 DEF ClaimInv, CheckpointOf
<1>3. \A k : k = CheckpointOf(c) => RecordSound(k.uid)'
  BY <1>1, <1>2, RecordKept
<1>4. Ctl!At(c, "verify") => work[c].st.phase = "Verifying"
  <2>1. Ctl!Busy(c)
    BY DEF Ctl!Busy, Ctl!At
  <2>2. Ctl!JobSound(c)
    BY <2>1 DEF IInv, Ctl!IInv, Ctl!WorkSound
  <2> QED
    BY <2>2 DEF Ctl!JobSound, Ctl!At
<1> QED
  BY <1>1, <1>2, <1>3, <1>4 DEF ClaimInv, ClaimSound, CheckpointOf, Ctl!Claims

\* Who did not misread had a list that is not from before the recorded Pod.
LEMMA JudgedWell ==
    ASSUME PodInv, NEW c \in Controllers, Judge(c), work[c].act \notin misread',
           CheckpointOf(c).uid \in Nat
    PROVE  CheckpointOf(c).uid <= podCache[c].lastUid /\ work[c].act \notin misread
<1>1. podCache[c].lastUid \in Nat
  BY UidTypes DEF PodInv
<1> QED
  BY <1>1 DEF Judge

\* Prepare and Execute: the Pod that was recorded is gone when they are done.
LEMMA ExecuteKeeps ==
    ASSUME IInv, ClaimInv, PodInv', Aging,
           NEW c \in Controllers, Ctl!At(c, "execute"), ExecutorStep(c)
    PROVE  ClaimInv'
<1>k. PICK k : k = CheckpointOf(c)
  OBVIOUS
<1>t. /\ Ctl!IInv /\ PodInv
      /\ RecordSound(k.uid) /\ RecordSound(k.uid)'
  BY <1>k, CallClaims DEF IInv
<1>1. /\ \A l : Ctl!ExecuteProgress(c, l) => Ctl!Writes(c, l, {"Running"})
      /\ \A l : Ctl!ExecuteError(c, l) => Ctl!Writes(c, l, {"Running", "Failed"})
      /\ Ctl!ExecuteDone(c) => Ctl!Writes(c, k, {"Verifying"})
  BY <1>k, <1>t, CtlAssumptions, Ctl!ExecutorWrites DEF CheckpointOf
<1>2. ASSUME NEW l, RecordSound(l.uid), Ctl!ExecuteProgress(c, l) \/ Ctl!ExecuteError(c, l)
      PROVE  ClaimInv'
  <2>1. \A phase \in {"Running", "Failed"} : phase \notin Ctl!Claims /\ phase # "Succeeded"
    BY DEF Ctl!Claims
  <2>2. RecordSound(l.uid)'
    BY <1>2, <1>t, RecordKept
  <2> QED
    BY <1>1, <1>2, <1>t, <2>1, <2>2, WriteKeeps
<1>3. ASSUME Ctl!ExecuteDone(c), work[c].act \notin misread' => ~Live(k.uid)'
      PROVE  ClaimInv'
  BY <1>1, <1>3, <1>t, WriteKeeps
<1>4. CASE PrepareMissing(c) \/ DeleteLost(c) \/ DeleteError(c)
  BY <1>2, <1>4, <1>k, <1>t DEF PrepareMissing, DeleteLost, DeleteError
<1>5. CASE PrepareRecord(c) \/ PrepareUnmanaged(c)
  <2>1. PICK p \in Target(c) :
            \E l : l.uid = p.uid /\ (Ctl!ExecuteProgress(c, l) \/ Ctl!ExecuteError(c, l))
    BY <1>5, PrepareReads
  <2>2. RecordSound(p.uid)
    BY <1>t, RecordRead
  <2> QED
    BY <1>2, <2>1, <2>2
<1>6. CASE ExecuteAbsent(c)
  <2>1. /\ \A p \in Target(c) : p.uid # CheckpointOf(c).uid
        /\ Judge(c) /\ Ctl!ExecuteDone(c) /\ pods' = pods
    BY <1>6 DEF ExecuteAbsent
  <2>2. work[c].act \notin misread' => ~Live(CheckpointOf(c).uid)
    BY <1>k, <1>t, <2>1, JudgedWell, AbsentIsGone, UidTypes DEF RecordSound
  <2>3. work[c].act \notin misread' => ~Live(k.uid)'
    BY <1>k, <2>1, <2>2 DEF Live
  <2> QED
    BY <1>3, <2>1, <2>3
<1>7. CASE DeleteOk(c)
  <2>p. PICK p \in Named(pods, "target") :
            pods' = (pods \ {p}) \cup {[p EXCEPT !.terminating = TRUE]}
    BY <1>7 DEF DeleteOk, DeleteTarget, Become
  <2>q. PICK q : q = [p EXCEPT !.terminating = TRUE]
    OBVIOUS
  <2>1. pods' = (pods \ {p}) \cup {q}
    BY <2>p, <2>q
  <2>2. q.terminating
    <3>1. p \in Pods
      BY <1>t, <2>p DEF Named, PodInv
    <3> QED
      BY <2>q, <3>1 DEF Pods
  <2>3. \A r \in pods : r.uid = k.uid => r = p
    BY <1>t, UidTypes DEF RecordSound, Named, PodInv, UidsSound
  <2>4. ~Live(k.uid)'
    BY <2>1, <2>2, <2>3 DEF Live
  <2> QED
    BY <1>3, <1>7, <2>4 DEF DeleteOk
<1>8. CASE ExecuteRead(c)
  <2>1. \A a \in Actions : Ctl!StatusesOf(a)' = Ctl!StatusesOf(a)
    BY <1>8 DEF ExecuteRead, ctlVars, Ctl!StatusesOf
  <2>2. \A a \in Actions : \A st \in Ctl!StatusesOf(a)' : Ctl!Inherits(a, st)
    BY <2>1, CtlAssumptions, Ctl!InheritsItself
  <2> QED
    BY <1>t, <2>2, ClaimsKept
<1>9. ~VerifyReplaced(c) /\ ~VerifyNotReplaced(c)
  BY DEF VerifyReplaced, VerifyNotReplaced, Ctl!VerifyOk, Ctl!At
<1> QED
  BY <1>4, <1>5, <1>6, <1>7, <1>8, <1>9 DEF ExecutorStep

\* Verify: what it takes for a replacement is younger than the recorded Pod.
LEMMA VerifyKeeps ==
    ASSUME IInv, ClaimInv, PodInv', Aging,
           NEW c \in Controllers, Ctl!At(c, "verify"), ExecutorStep(c)
    PROVE  ClaimInv'
<1>k. PICK k : k = CheckpointOf(c)
  OBVIOUS
<1>t. /\ Ctl!IInv /\ PodInv
      /\ RecordSound(k.uid) /\ RecordSound(k.uid)'
      /\ work[c].act \notin misread => ~Live(k.uid)
  BY <1>k, CallClaims DEF IInv
<1>1. CASE VerifyReplaced(c)
  <2>1. PICK p \in podCache[c].pods : p.uid # CheckpointOf(c).uid
    BY <1>1 DEF VerifyReplaced, Replacements
  <2>2. Judge(c) /\ lastUid' = lastUid /\ pods' = pods
    BY <1>1 DEF VerifyReplaced
  <2>3. work[c].act \notin misread' =>
            work[c].act \notin misread /\ k.uid <= podCache[c].lastUid
    BY <1>k, <1>t, <2>2, JudgedWell, UidTypes DEF RecordSound
  <2>4. work[c].act \notin misread' /\ Replicas = 1 => lastUid' > k.uid
    BY <1>k, <1>t, <2>1, <2>2, <2>3, OtherIsYounger
  <2>5. work[c].act \notin misread' => ~Live(k.uid)'
    BY <1>t, <2>2, <2>3 DEF Live
  <2>6. Ctl!Writes(c, k, {"Succeeded"})
    BY <1>1, <1>k, <1>t, CtlAssumptions, Ctl!ExecutorWrites DEF VerifyReplaced, CheckpointOf
  <2> QED
    BY <1>t, <2>4, <2>5, <2>6, WriteKeeps
<1>2. CASE VerifyNotReplaced(c)
  <2>1. \A a \in Actions : \A st \in Ctl!StatusesOf(a)' : st \in Ctl!StatusesOf(a)
    BY <1>2, <1>t, CtlAssumptions, Ctl!NotYetDrops DEF VerifyNotReplaced
  <2>2. \A a \in Actions : \A st \in Ctl!StatusesOf(a)' : Ctl!Inherits(a, st)
    BY <2>1, CtlAssumptions, Ctl!InheritsItself
  <2> QED
    BY <1>t, <2>2, ClaimsKept
<1>3. VerifyReplaced(c) \/ VerifyNotReplaced(c)
  BY DEF ExecutorStep, PrepareMissing, PrepareRecord, PrepareUnmanaged, Preparing,
         ExecuteAbsent, ExecuteRead, Executing, DeleteOk, DeleteLost, DeleteTarget,
         DeleteError, Ctl!ExecuteDone, Ctl!ExecuteError, Ctl!At
<1> QED
  BY <1>1, <1>2, <1>3

\* An executor is called by Execute or by Verify.
LEMMA ExecutorCalled ==
    ASSUME NEW c \in Controllers, ExecutorStep(c)
    PROVE  Ctl!At(c, "execute") \/ Ctl!At(c, "verify")
BY DEF ExecutorStep, PrepareMissing, PrepareRecord, PrepareUnmanaged, Preparing,
       ExecuteAbsent, ExecuteRead, Executing, DeleteOk, DeleteLost, DeleteError,
       VerifyReplaced, VerifyNotReplaced, Ctl!ExecuteDone, Ctl!ExecuteError, Ctl!VerifyOk

\* Outside the executor, Actions keep the checkpoints and claims they had.
LEMMA OutsideInherits ==
    ASSUME Ctl!IInv, [Next]_vars, \A c \in Controllers : ~ExecutorStep(c),
           NEW a \in Actions, NEW st \in Ctl!StatusesOf(a)'
    PROVE  Ctl!Inherits(a, st)
<1>1. ASSUME UNCHANGED ctlVars
      PROVE  Ctl!Inherits(a, st)
  <2>1. Ctl!StatusesOf(a)' = Ctl!StatusesOf(a)
    BY <1>1 DEF ctlVars, Ctl!StatusesOf
  <2> QED
    BY <2>1, CtlAssumptions, Ctl!InheritsItself
<1>2. ASSUME Ctl!Passive
      PROVE  Ctl!Inherits(a, st)
  BY <1>2, CtlAssumptions, Ctl!PassiveInherits
<1>3. ASSUME NEW c \in Controllers, Controller(c)
      PROVE  Ctl!Inherits(a, st)
  BY <1>1, <1>2, <1>3 DEF Controller, Reconcile, Start, Crash, SyncPods, Ctl!Passive
<1>4. CASE Cluster
  BY <1>1, <1>2, <1>4
     DEF Cluster, Ctl!Passive, Replace, BecomeReady, BecomeUnready, Evict, Terminated, Alter
<1>5. CASE UNCHANGED vars
  BY <1>1, <1>5 DEF vars
<1> QED
  BY <1>3, <1>4, <1>5 DEF Next

\* Every step keeps what Actions claim.
LEMMA ClaimStep ==
    ASSUME IInv, ClaimInv, [Next]_vars
    PROVE  ClaimInv'
<1>1. Ctl!IInv /\ PodInv /\ PodInv' /\ Aging
  BY PodStep DEF IInv
<1>2. CASE \E c \in Controllers : ExecutorStep(c)
  BY <1>1, <1>2, ExecutorCalled, ExecuteKeeps, VerifyKeeps
<1>3. CASE \A c \in Controllers : ~ExecutorStep(c)
  BY <1>1, <1>3, OutsideInherits, ClaimsKept
<1> QED
  BY <1>2, <1>3

\* No Action has a status at first.
LEMMA NoStatusAtFirst ==
    ASSUME Init, NEW a \in Actions
    PROVE  Ctl!StatusesOf(a) = {}
BY ControllerAssumption DEF Init, Ctl!Init, Ctl!StatusesOf, Ctl!Down, Ctl!Job

\* What Actions claim is right unless it was judged by a list from before the
\* Pod they recorded.
THEOREM ClaimsJustified == Spec => [](IInv /\ ClaimInv)
<1>1. Init => IInv /\ ClaimInv
  BY InitInv, NoStatusAtFirst DEF ClaimInv
<1>2. IInv /\ ClaimInv /\ [Next]_vars => (IInv /\ ClaimInv)'
  BY NextInv, ClaimStep
<1> QED
  BY <1>1, <1>2, PTL DEF Spec

\* The stored status of an Action is one of its statuses.
LEMMA CurrentStatus ==
    ASSUME IInv, NEW a \in Actions, Ctl!PhaseOf(a) \in Ctl!Claims
    PROVE  /\ Ctl!Current(a) \in Ctl!StatusesOf(a)
           /\ Ctl!Current(a).phase = Ctl!PhaseOf(a)
<1>1. log[a] # << >> /\ Ctl!PhaseOf(a) = Ctl!Current(a).phase
  BY DEF Ctl!PhaseOf, Ctl!Claims
<1>2. Ctl!Current(a) # Ctl!Gone
  BY <1>1 DEF Ctl!Gone, Ctl!NewStatus, Ctl!Claims
<1>3. Ctl!Exists(a)
  BY <1>1, <1>2 DEF Ctl!Exists, Ctl!Current
<1>4. Len(log[a]) \in 1 .. Len(log[a]) /\ Ctl!Current(a) = log[a][Len(log[a])]
  BY <1>3, CtlAssumptions, Ctl!CurrentSound DEF IInv
<1> QED
  BY <1>1, <1>4 DEF Ctl!StatusesOf

\* An Action past Execute did get rid of the Pod it recorded, whatever errors,
\* lost answers, conflicts, second controllers and crashes came between, unless
\* it was judged by a list from before that Pod.
THEOREM ExecutedRemoved == Spec => []TargetRemoved
<1>1. IInv /\ ClaimInv => TargetRemoved
  BY CurrentStatus DEF ClaimInv, ClaimSound, TargetRemoved, Ctl!Claims
<1> QED
  BY <1>1, ClaimsJustified, PTL

\* Success with a single Pod means that a younger one has come: no cached copy
\* of the old Pod passes for its replacement, with the same exception.
THEOREM SuccessReplaced == Spec => []SuccessIsReplacement
<1>1. IInv /\ ClaimInv => SuccessIsReplacement
  BY CurrentStatus DEF ClaimInv, ClaimSound, SuccessIsReplacement, Ctl!Claims
<1> QED
  BY <1>1, ClaimsJustified, PTL

(***************************************************************************)
(* A controller that is alone and does not exit.                           *)
(***************************************************************************)

\* The caches are not from before the Pod that is recorded, if one is; then
\* some process has recorded it.
Recalled(uid) ==
    \/ uid = 0
    \/ \A c \in Controllers : ~Ctl!At(c, "down") /\ uid <= podCache[c].lastUid

OwnInv ==
    (OneController /\ crashes = 0) =>
        /\ misread = {}
        /\ \A a \in Actions : \A st \in Ctl!StatusesOf(a) : Recalled(st.checkpoint.uid)

\* Until its process exits, a cache goes forward.
LEMMA CacheForward ==
    ASSUME IInv, PodInv', Aging, [Next]_vars, NEW c \in Controllers, ~Ctl!At(c, "down")
    PROVE  podCache[c].lastUid <= podCache'[c].lastUid
<1>t. /\ PodInv /\ podCache[c] \in past
      /\ podCache[c].lastUid \in Nat /\ podCache[c].lastUid <= lastUid
      /\ List.lastUid = lastUid
  BY UidTypes DEF IInv, PodInv, ListsSound, List
<1>1. ASSUME podCache' = podCache
      PROVE  podCache[c].lastUid <= podCache'[c].lastUid
  BY <1>1, <1>t
<1>2. ASSUME NEW d \in Controllers, Controller(d)
      PROVE  podCache[c].lastUid <= podCache'[c].lastUid
  <2>1. CASE Reconcile(d) \/ ExecutorStep(d) \/ Crash(d)
    BY <1>1, <2>1
       DEF Reconcile, Crash, ExecutorStep, PrepareMissing, PrepareRecord, PrepareUnmanaged,
           ExecuteAbsent, ExecuteRead, DeleteOk, DeleteLost, DeleteTarget, DeleteError,
           VerifyReplaced, VerifyNotReplaced, podVars
  <2>2. CASE SyncPods(d)
    BY <1>t, <2>2 DEF SyncPods, PodInv
  <2>3. CASE Start(d)
    <3>1. d # c
      BY <2>3 DEF Start, Ctl!Start
    <3> QED
      BY <1>t, <2>3, <3>1 DEF Start, PodInv
  <2> QED
    BY <1>2, <2>1, <2>2, <2>3 DEF Controller
<1>3. Cluster \/ UNCHANGED vars => podCache' = podCache
  BY DEF Cluster, Replace, BecomeReady, BecomeUnready, Evict, Terminated, Alter, podVars,
         vars
<1> QED
  BY <1>1, <1>2, <1>3 DEF Next

\* A record that the caches know stays known while no process exits.
LEMMA RecalledKept ==
    ASSUME IInv, PodInv', Aging, [Next]_vars, crashes' = crashes, NEW a \in Actions,
           NEW uid \in Nat, Recalled(uid)
    PROVE  Recalled(uid)'
<1> SUFFICES ASSUME uid # 0, NEW c \in Controllers
             PROVE  ~Ctl!At(c, "down")' /\ uid <= podCache'[c].lastUid
  BY DEF Recalled
<1>1. ~Ctl!At(c, "down") /\ uid <= podCache[c].lastUid
  BY DEF Recalled
<1>2. ~Ctl!At(c, "down")'
  BY <1>1, CtlAssumptions, CtlStep, Ctl!SeenStep DEF IInv
<1>3. podCache[c].lastUid \in Nat /\ podCache'[c].lastUid \in Nat
  BY UidTypes DEF IInv, PodInv, Lists
<1> QED
  BY <1>1, <1>2, <1>3, CacheForward

\* A status has a checkpoint from before, or one that Prepare has just read.
LEMMA CheckpointsFrom ==
    ASSUME IInv, [Next]_vars, NEW a \in Actions, NEW st \in Ctl!StatusesOf(a)'
    PROVE  \/ st.checkpoint = Unprepared
           \/ \E old \in Ctl!StatusesOf(a) : st.checkpoint = old.checkpoint
           \/ \E c \in Controllers : /\ Ctl!At(c, "execute")
                                     /\ \E p \in Target(c) : st.checkpoint.uid = p.uid
<1>0. Ctl!IInv
  BY DEF IInv
<1>1. ASSUME NEW c \in Controllers, ExecutorStep(c)
      PROVE  \/ \E old \in Ctl!StatusesOf(a) : st.checkpoint = old.checkpoint
             \/ Ctl!At(c, "execute") /\ \E p \in Target(c) : st.checkpoint.uid = p.uid
  <2>1. ASSUME NEW k, NEW phases, Ctl!Writes(c, k, phases),
               \/ k = CheckpointOf(c)
               \/ Ctl!At(c, "execute") /\ \E p \in Target(c) : k.uid = p.uid
        PROVE  \/ \E old \in Ctl!StatusesOf(a) : st.checkpoint = old.checkpoint
               \/ Ctl!At(c, "execute") /\ \E p \in Target(c) : st.checkpoint.uid = p.uid
    <3>1. \/ st \in Ctl!StatusesOf(a)
          \/ a = work[c].act /\ st.checkpoint = k
      BY <1>0, <2>1, CtlAssumptions, Ctl!WritesStatus
    <3>2. a = work[c].act => work[c].st \in Ctl!StatusesOf(a)
      BY DEF Ctl!StatusesOf
    <3> QED
      BY <2>1, <3>1, <3>2 DEF CheckpointOf
  <2>2. CASE PrepareRecord(c) \/ PrepareUnmanaged(c)
    <3>1. PICK p \in Target(c) : \E l :
              l.uid = p.uid /\ (Ctl!ExecuteProgress(c, l) \/ Ctl!ExecuteError(c, l))
      BY <2>2, PrepareReads
    <3>2. PICK k : k.uid = p.uid /\ (Ctl!ExecuteProgress(c, k) \/ Ctl!ExecuteError(c, k))
      BY <3>1
    <3>3. \E phases : Ctl!Writes(c, k, phases)
      BY <1>0, <3>2, CtlAssumptions, Ctl!ExecutorWrites
    <3> QED
      BY <2>1, <2>2, <3>2, <3>3 DEF PrepareRecord, PrepareUnmanaged, Preparing
  <2>3. CASE \/ PrepareMissing(c) \/ ExecuteAbsent(c) \/ DeleteOk(c) \/ DeleteLost(c)
             \/ DeleteError(c) \/ VerifyReplaced(c)
    <3>1. PICK k : k = CheckpointOf(c)
      OBVIOUS
    <3>2. \/ Ctl!ExecuteError(c, k) \/ Ctl!ExecuteDone(c) \/ Ctl!VerifyOk(c)
      BY <2>3, <3>1 DEF PrepareMissing, ExecuteAbsent, DeleteOk, DeleteLost, DeleteError,
                        VerifyReplaced
    <3>3. \E phases : Ctl!Writes(c, k, phases)
      BY <1>0, <3>1, <3>2, CtlAssumptions, Ctl!ExecutorWrites DEF CheckpointOf
    <3> QED
      BY <2>1, <3>1, <3>3
  <2>4. CASE ExecuteRead(c)
    BY <2>4 DEF ExecuteRead, ctlVars, Ctl!StatusesOf
  <2>5. CASE VerifyNotReplaced(c)
    BY <1>0, <2>5, CtlAssumptions, Ctl!NotYetDrops DEF VerifyNotReplaced
  <2> QED
    BY <1>1, <2>2, <2>3, <2>4, <2>5 DEF ExecutorStep
<1>2. CASE \A c \in Controllers : ~ExecutorStep(c)
  BY <1>0, <1>2, OutsideInherits DEF Ctl!Inherits
<1> QED
  BY <1>1, <1>2

\* What a controller that is alone has read itself it has not forgotten.
LEMMA OwnStep ==
    ASSUME IInv, ClaimInv, OwnInv, [Next]_vars
    PROVE  OwnInv'
<1> SUFFICES ASSUME OneController, crashes' = 0
             PROVE  /\ misread' = {}
                    /\ \A a \in Actions : \A st \in Ctl!StatusesOf(a)' :
                            Recalled(st.checkpoint.uid)'
  BY DEF OwnInv, OneController
<1>1. PodInv /\ PodInv' /\ Aging /\ Ctl!IInv
  BY PodStep DEF IInv
<1>2. crashes = 0 /\ crashes' = crashes
  <2>1. crashes \in Nat /\ crashes <= crashes'
    BY <1>1, CtlAssumptions, CtlStep, Ctl!CrashesGrow
  <2> QED
    BY <2>1
<1>3. /\ misread = {}
      /\ \A a \in Actions : \A st \in Ctl!StatusesOf(a) : Recalled(st.checkpoint.uid)
  BY <1>2 DEF OwnInv
<1>4. misread' = {}
  <2>1. ASSUME NEW c \in Controllers, Judge(c), Ctl!At(c, "execute") \/ Ctl!At(c, "verify")
        PROVE  misread' = {}
    <3>1. Recalled(CheckpointOf(c).uid)
      BY <1>1, <1>3, <2>1, CallStatus DEF CheckpointOf
    <3>2. CheckpointOf(c).uid \in Nat /\ podCache[c].lastUid \in Nat
      BY <1>1, <2>1, CallStatus, UidTypes DEF PodCheckpoints, PodInv
    <3>3. ~(podCache[c].lastUid < CheckpointOf(c).uid)
      BY <3>1, <3>2 DEF Recalled
    <3> QED
      BY <1>3, <2>1, <3>3 DEF Judge
  <2>2. ASSUME NEW c \in Controllers, Controller(c)
        PROVE  misread' = misread \/ (ExecutorStep(c) /\ Judge(c))
    BY <2>2
       DEF Controller, Reconcile, SyncPods, Start, Crash, ExecutorStep, PrepareMissing,
           PrepareRecord, PrepareUnmanaged, ExecuteAbsent, ExecuteRead, DeleteOk,
           DeleteLost, DeleteTarget, DeleteError, VerifyReplaced, VerifyNotReplaced,
           podVars, auxVars
  <2>3. Cluster \/ UNCHANGED vars => misread' = misread
    BY DEF Cluster, Replace, BecomeReady, BecomeUnready, Evict, Terminated, Alter, podVars,
           auxVars, vars
  <2> QED
    BY <1>3, <2>1, <2>2, <2>3, ExecutorCalled DEF Next
<1>5. ASSUME NEW a \in Actions, NEW st \in Ctl!StatusesOf(a)'
      PROVE  Recalled(st.checkpoint.uid)'
  <2>1. PICK uid : uid = st.checkpoint.uid
    OBVIOUS
  <2>2. uid \in Nat /\ Recalled(uid)
    <3>1. CASE st.checkpoint = Unprepared
      BY <2>1, <3>1 DEF Unprepared, Recalled
    <3>2. CASE \E old \in Ctl!StatusesOf(a) : st.checkpoint = old.checkpoint
      BY <1>1, <1>3, <2>1, <3>2, UidTypes DEF ClaimInv, RecordSound
    <3>3. CASE \E c \in Controllers : /\ Ctl!At(c, "execute")
                                      /\ \E p \in Target(c) : st.checkpoint.uid = p.uid
      <4>1. PICK c \in Controllers : /\ Ctl!At(c, "execute")
                                     /\ \E p \in Target(c) : st.checkpoint.uid = p.uid
        BY <3>3
      <4>2. uid \in Nat /\ uid <= podCache[c].lastUid
        BY <1>1, <2>1, <4>1, RecordRead, UidTypes DEF RecordSound
      <4>3. ~Ctl!At(c, "down")
        BY <4>1 DEF Ctl!At
      <4> QED
        BY <4>2, <4>3 DEF Recalled, OneController
    <3> QED
      BY <3>1, <3>2, <3>3, CheckpointsFrom
  <2> QED
    BY <1>1, <1>2, <2>1, <2>2, RecalledKept
<1> QED
  BY <1>4, <1>5

\* A single process never takes a list from before a Pod for one that the Pod
\* has left: that takes a second controller or a restart.
THEOREM OwnRecordsKnown == Spec => []OwnRecordKnown
<1>1. Init => OwnInv
  BY NoStatusAtFirst DEF Init, OwnInv
<1>2. IInv /\ ClaimInv /\ OwnInv /\ [Next]_vars => OwnInv'
  BY OwnStep
<1>3. OwnInv => OwnRecordKnown
  BY DEF OwnInv, OwnRecordKnown
<1> QED
  BY <1>1, <1>2, <1>3, ClaimsJustified, PTL DEF Spec
=============================================================================
