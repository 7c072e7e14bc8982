------------------------ MODULE NodeMaintenanceProofs ------------------------
(***************************************************************************)
(* Proofs about NodeMaintenance, for every number of Pods and of crashes.  *)
(* Until some controller uncordons the node, every cordon it had and every *)
(* checkpoint past the cordon is true of the node.  Who uncordons has read *)
(* a version that is past the health check; with one Action, nothing older *)
(* is current then, and with one controller that never restarts, nothing   *)
(* older is read again.                                                    *)
(***************************************************************************)
EXTENDS NodeMaintenance, SequenceTheorems, TLAPS

(***************************************************************************)
(* The invariants.                                                         *)
(***************************************************************************)

\* The stages from the cordon to the health check, and those after it.
Maintained(k) == k \in {"Cordoned", "Drained", "HookCompleted"}

Late(k) == k \in {"HealthChecked", "Uncordoned"}

\* The node takes no Pods.
Closed == node.present => node.cordoned

\* Nothing read or recorded about the cordon is wrong.
CordonKnown ==
    /\ \A n \in pastNodes : n.cordoned => Closed
    /\ \A a \in Actions : \A st \in Ctl!StatusesOf(a) : Maintained(st.checkpoint) => Closed

\* An Action is past the health check for good, at the API server.
StagesOrdered ==
    \A a \in Actions : \A i, j \in 1 .. Len(log[a]) :
        (i <= j /\ Late(log[a][i].checkpoint)) =>
            Late(log[a][j].checkpoint) \/ log[a][j] = Ctl!Gone

\* An Action has reached the last stages.
SomeLate ==
    \E a \in Actions : \E i \in 1 .. Len(log[a]) : Late(log[a][i].checkpoint)

NodeTypes ==
    /\ pastNodes \subseteq Nodes /\ node \in pastNodes
    /\ nodeCache \in [Controllers -> pastNodes]
    /\ pods \in [PodNames -> Places]
    /\ pastLists \subseteq SUBSET PodNames /\ OnNode \in pastLists
    /\ listed \in [Controllers -> pastLists]
    /\ unmanaged \subseteq PodNames
    /\ moves \in 0 .. MaxMoves

IInv ==
    /\ Ctl!IInv
    /\ NodeTypes
    /\ StagesOrdered
    /\ CordonKnown \/ SomeLate

\* Before a controller has exited, its cache and its call are not older than
\* what it has seen of the Action.
CallSeen ==
    \A c \in Controllers :
        /\ Ctl!At(c, "down") => \A a \in Actions : seen[c][a] = 0
        /\ Ctl!Busy(c) => work[c].ver <= seen[c][work[c].act]

\* c has seen the last stages of a, and so has its call in progress.
SeenLate(c, a) ==
    /\ \E i \in 1 .. Len(log[a]) : i <= seen[c][a] /\ Late(log[a][i].checkpoint)
    /\ Ctl!Busy(c) => Late(log[work[c].act][work[c].ver].checkpoint)

EvictInv ==
    crashes = 0 =>
        /\ CallSeen
        /\ CordonKnown \/ \A c \in Controllers, a \in Actions : SeenLate(c, a)

\* One Action maintains the node.
OneAction == \A a, b \in Actions : a = b

OneController == \A c, d \in Controllers : c = d

(***************************************************************************)
(* The reconciler inside NodeMaintenance.                                  *)
(***************************************************************************)

\* The stages by name.
LEMMA StageFacts ==
    /\ Checkpoints = {"", "PreChecked", "Cordoned", "Drained", "HookCompleted",
                      "HealthChecked", "Uncordoned"}
    /\ StageStep = {<<"", "PreChecked">>, <<"PreChecked", "Cordoned">>,
                    <<"Cordoned", "Drained">>, <<"Drained", "HookCompleted">>,
                    <<"HookCompleted", "HealthChecked">>,
                    <<"HealthChecked", "Uncordoned">>}
<1>1. DOMAIN Stages = 1 .. 7 /\ Len(Stages) = 7
  BY DEF Stages
<1>2. \A i \in 1 .. 7 : i \in {1, 2, 3, 4, 5, 6, 7}
  OBVIOUS
<1>4. /\ Stages[1] = "" /\ Stages[2] = "PreChecked" /\ Stages[3] = "Cordoned"
      /\ Stages[4] = "Drained" /\ Stages[5] = "HookCompleted"
      /\ Stages[6] = "HealthChecked" /\ Stages[7] = "Uncordoned"
  BY DEF Stages
<1> HIDE DEF Stages
<1>5. Checkpoints = {Stages[1], Stages[2], Stages[3], Stages[4], Stages[5], Stages[6],
                     Stages[7]}
  BY <1>1, <1>2 DEF Checkpoints
<1>6. StageStep = {<<Stages[i], Stages[i + 1]>> : i \in 1 .. 6}
  BY <1>1 DEF StageStep
<1>7. StageStep = {<<Stages[1], Stages[2]>>, <<Stages[2], Stages[3]>>,
                   <<Stages[3], Stages[4]>>, <<Stages[4], Stages[5]>>,
                   <<Stages[5], Stages[6]>>, <<Stages[6], Stages[7]>>}
  <2>1. 1 .. 6 = {1, 2, 3, 4, 5, 6}
    OBVIOUS
  <2>2. StageStep = {<<Stages[i], Stages[i + 1]>> : i \in {1, 2, 3, 4, 5, 6}}
    BY <1>6, <2>1
  <2>3. /\ 1 + 1 = 2 /\ 2 + 1 = 3 /\ 3 + 1 = 4 /\ 4 + 1 = 5 /\ 5 + 1 = 6 /\ 6 + 1 = 7
    OBVIOUS
  <2> QED
    BY <2>2, <2>3, Zenon
<1> QED
  BY <1>4, <1>5, <1>7

\* The assumptions of ActionController hold of the values it is given here.
LEMMA CtlAssumptions ==
    /\ Actions \subseteq Actions /\ NoAction \notin Actions
    /\ "" \in Checkpoints
    /\ StageStep \subseteq Checkpoints \X Checkpoints
    /\ MaxRetries \in Nat \ {0}
    /\ MaxCrashes \in Nat /\ 0 \in Nat /\ 0 \in Nat
<1>1. StageStep \subseteq Checkpoints \X Checkpoints
  <2>1. DOMAIN Stages = 1 .. 7 /\ Len(Stages) = 7
    BY DEF Stages
  <2> HIDE DEF Stages
  <2>2. \A i \in 1 .. Len(Stages) - 1 :
            Stages[i] \in Checkpoints /\ Stages[i + 1] \in Checkpoints
    BY <2>1 DEF Checkpoints
  <2> QED
    BY <2>2 DEF StageStep
<1>2. "" \in Checkpoints
  BY StageFacts
<1> QED
  BY <1>1, <1>2, ControllerAssumption

\* A call to the executor works on a stored version of its Action.
LEMMA CallStatus ==
    ASSUME Ctl!IInv, NEW c \in Controllers, Ctl!At(c, "execute") \/ Ctl!At(c, "verify")
    PROVE  /\ Ctl!Busy(c) /\ work[c].act \in Actions
           /\ work[c].st.checkpoint \in Checkpoints
           /\ work[c].st \in Ctl!StatusesOf(work[c].act)
           /\ work[c].ver \in 1 .. Len(log[work[c].act])
           /\ work[c].st = log[work[c].act][work[c].ver]
<1>1. Ctl!Busy(c)
  BY DEF Ctl!Busy, Ctl!At
<1>2. work[c].act \in Actions /\ work[c].st \in Ctl!Status
  BY <1>1, CtlAssumptions, Ctl!JobStatus DEF Ctl!IInv
<1>3. Ctl!JobSound(c)
  BY <1>1 DEF Ctl!IInv, Ctl!WorkSound
<1>4. work[c].st.checkpoint \in Checkpoints
  BY <1>2 DEF Ctl!Status
<1> QED
  BY <1>1, <1>2, <1>3, <1>4 DEF Ctl!JobSound, Ctl!At, Ctl!StatusesOf

\* Every step of the executor is within a call to it.
LEMMA ExecutorCall ==
    ASSUME NEW c \in Controllers, ExecutorStep(c)
    PROVE  Ctl!At(c, "execute") \/ Ctl!At(c, "verify")
BY DEF ExecutorStep, GetMissing, PreCheck, Cordon, DrainWaiting, DrainFailed, DrainDone,
       RunHook, CheckHealth, Uncordon, Finish, Verify, At

\* Each call of the executor returns as ActionController lets one return.
LEMMA ExecutorReturns ==
    ASSUME Ctl!IInv, NEW c \in Controllers, ExecutorStep(c)
    PROVE  Ctl!ExecutorReturns(c)
<1>1. work[c].st.checkpoint \in Checkpoints
  BY ExecutorCall, CallStatus
<1>2. Retry(c) => Ctl!ExecutorReturns(c)
  BY <1>1 DEF Retry, Ctl!ExecutorReturns
<1>3. ASSUME NEW k \in {"PreChecked", "Cordoned", "Drained", "HookCompleted",
                        "HealthChecked", "Uncordoned"},
             Ctl!ExecuteProgress(c, k)
      PROVE  Ctl!ExecutorReturns(c)
  <2>1. k \in Checkpoints
    BY StageFacts
  <2> QED
    BY <1>3, <2>1 DEF Ctl!ExecutorReturns
<1>4. (\/ Ctl!ExecuteInProgress(c) \/ Ctl!ExecuteDone(c)
       \/ Ctl!VerifyError(c) \/ Ctl!VerifyNotYet(c) \/ Ctl!VerifyOk(c))
        => Ctl!ExecutorReturns(c)
  BY DEF Ctl!ExecutorReturns
<1>5. GetMissing(c) \/ DrainFailed(c) \/ DrainWaiting(c) \/ Finish(c) \/ Verify(c)
        => Ctl!ExecutorReturns(c)
  BY <1>2, <1>4 DEF GetMissing, DrainFailed, DrainWaiting, Finish, Verify
<1>6. PreCheck(c) \/ DrainDone(c) \/ RunHook(c) \/ CheckHealth(c) => Ctl!ExecutorReturns(c)
  BY <1>2, <1>3, <1>4 DEF PreCheck, DrainDone, RunHook, CheckHealth
<1>7. Cordon(c) \/ Uncordon(c) => Ctl!ExecutorReturns(c)
  BY <1>2, <1>3 DEF Cordon, Uncordon, SetCordon
<1> QED
  BY <1>5, <1>6, <1>7 DEF ExecutorStep

\* Every step is one of ActionController, or leaves it alone.
LEMMA CtlStep ==
    ASSUME Ctl!IInv, [Next]_vars
    PROVE  [Ctl!Next]_(Ctl!vars)
<1>1. UNCHANGED ctlVars => [Ctl!Next]_(Ctl!vars)
  BY DEF ctlVars, Ctl!vars
<1>2. ASSUME NEW c \in Controllers, Controller(c)
      PROVE  [Ctl!Next]_(Ctl!vars)
  <2>1. CASE Reconcile(c)
    BY <2>1 DEF Reconcile, Ctl!Next, Ctl!Controller
  <2>2. CASE ExecutorStep(c)
    BY <2>2, ExecutorReturns DEF Ctl!Next, Ctl!Controller
  <2>3. CASE SyncNode(c) \/ SyncPods(c)
    BY <1>1, <2>3 DEF SyncNode, SyncPods
  <2>4. CASE Start(c) \/ Crash(c)
    BY <2>4 DEF Start, Crash, Ctl!Next, Ctl!Controller
  <2> QED
    BY <1>2, <2>1, <2>2, <2>3, <2>4 DEF Controller
<1>3. CASE Cluster
  BY <1>1, <1>3 DEF Cluster, Place, Stop, ChangeHealth, Ctl!Next
<1>4. CASE UNCHANGED vars
  BY <1>1, <1>4 DEF vars
<1> QED
  BY <1>2, <1>3, <1>4 DEF Next

\* The invariant of ActionController, and that every step keeps it.
LEMMA CtlSound ==
    /\ Init => Ctl!IInv
    /\ Ctl!IInv /\ [Next]_vars => Ctl!IInv'
BY CtlAssumptions, Ctl!InitSound, Ctl!NextSound, CtlStep DEF Init

(***************************************************************************)
(* The node and its cached copies.                                         *)
(***************************************************************************)

\* What a step does to the node: only an uncordon opens it, and no cache can get
\* to see another node than there is or was.
NodeStep ==
    /\ (Closed => Closed') \/ \E c \in Controllers : Uncordon(c)
    /\ pastNodes' \subseteq pastNodes \cup {node'}

\* A node that is present, which Removed is not.
LEMMA PresentNode ==
    ASSUME node \in Nodes, node.present
    PROVE  node \in [present : {TRUE}, ready : BOOLEAN, cordoned : BOOLEAN]
<1>1. ~Removed.present
  BY DEF Removed
<1> QED
  BY <1>1 DEF Nodes

\* A patch that reaches the node.
LEMMA PatchSets ==
    ASSUME NodeTypes, NEW cordoned \in BOOLEAN, Patch(cordoned)
    PROVE  /\ NodeTypes' /\ pastNodes' = pastNodes \cup {node'}
           /\ node'.cordoned = cordoned
<1>1. node \in [present : {TRUE}, ready : BOOLEAN, cordoned : BOOLEAN]
  BY PresentNode DEF Patch, NodeTypes
<1>2. /\ node' \in [present : {TRUE}, ready : BOOLEAN, cordoned : BOOLEAN]
      /\ node'.cordoned = cordoned
  BY <1>1 DEF Patch, NodeBecomes
<1> QED
  BY <1>2 DEF Patch, NodeBecomes, podApi, NodeTypes, Nodes, OnNode, Here

\* While the node and its Pods are left alone, nothing is opened.
LEMMA NothingMoved ==
    ASSUME NodeTypes, UNCHANGED nodeVars
    PROVE  NodeTypes' /\ NodeStep
BY DEF nodeVars, nodeApi, podApi, NodeTypes, NodeStep, Closed, OnNode, Here

\* The executor patches the node and evicts Pods.
LEMMA ExecutorMoves ==
    ASSUME NodeTypes, NEW c \in Controllers, ExecutorStep(c)
    PROVE  NodeTypes' /\ NodeStep
<1>1. CASE UNCHANGED nodeVars
  BY <1>1, NothingMoved
<1>2. CASE \E set \in SUBSET PodNames : Evict(set)
  <2>1. pods' \in [PodNames -> Places] /\ pastLists' = pastLists \cup {OnNode'}
    BY <1>2 DEF Evict, PodsBecome, OnNode, Here, NodeTypes, Places
  <2>2. UNCHANGED <<node, pastNodes, nodeCache, listed, unmanaged, moves>>
    BY <1>2 DEF Evict, nodeApi
  <2> QED
    BY <2>1, <2>2 DEF NodeTypes, NodeStep, Closed, OnNode, Here
<1>3. CASE Cordon(c) /\ Patch(TRUE)
  BY <1>3, PatchSets DEF NodeStep, Closed
<1>4. CASE Uncordon(c) /\ Patch(FALSE)
  BY <1>4, PatchSets DEF NodeStep
<1>5. \/ UNCHANGED nodeVars
      \/ \E set \in SUBSET PodNames : Evict(set)
      \/ Cordon(c) /\ Patch(TRUE)
      \/ Uncordon(c) /\ Patch(FALSE)
  BY DEF ExecutorStep, GetMissing, PreCheck, Cordon, DrainWaiting, DrainFailed, DrainDone,
         RunHook, CheckHealth, Uncordon, Finish, Verify, SetCordon, NodeTypes, OnNode, Here
<1> QED
  BY <1>1, <1>2, <1>3, <1>4, <1>5

\* Informers, and lists at the start of a process.
LEMMA SyncMoves ==
    ASSUME NodeTypes, NEW c \in Controllers,
           \/ \E n \in pastNodes : nodeCache' = [nodeCache EXCEPT ![c] = n]
           \/ nodeCache' = nodeCache,
           \/ \E set \in pastLists : listed' = [listed EXCEPT ![c] = set]
           \/ listed' = listed,
           UNCHANGED <<nodeApi, podApi, unmanaged, moves>>
    PROVE  NodeTypes' /\ NodeStep
<1>1. /\ nodeCache' \in [Controllers -> pastNodes]
      /\ listed' \in [Controllers -> pastLists]
  BY DEF NodeTypes
<1> QED
  BY <1>1 DEF NodeTypes, NodeStep, Closed, OnNode, Here, nodeApi, podApi

\* Pods and nodes come and go.
LEMMA ClusterMoves ==
    ASSUME Ctl!IInv, NodeTypes,
           ChangeHealth \/ \E p \in PodNames : Place(p) \/ Stop(p)
    PROVE  NodeTypes' /\ NodeStep
<1>1. Move => moves' \in 0 .. MaxMoves
  BY ControllerAssumption, MovesAssumption DEF Move, NodeTypes, Ctl!IInv, Ctl!TypeOK
<1>2. CASE \E p \in PodNames : Place(p) \/ Stop(p)
  <2>1. PICK p \in PodNames : Place(p) \/ Stop(p)
    BY <1>2
  <2>2. /\ UNCHANGED <<node, pastNodes, nodeCache, listed, unmanaged>>
        /\ moves' \in 0 .. MaxMoves
    BY <1>1, <2>1 DEF Place, Stop, NodeTypes, nodeApi
  <2>3. \E place \in Places : PodsBecome([pods EXCEPT ![p] = place])
    BY <2>1 DEF Place, Stop, Places
  <2>4. pods' \in [PodNames -> Places] /\ pastLists' = pastLists \cup {OnNode'}
    BY <2>3 DEF PodsBecome, OnNode, Here, NodeTypes
  <2> QED
    BY <2>2, <2>4 DEF NodeTypes, NodeStep, Closed, OnNode, Here
<1>3. CASE ChangeHealth
  <2>1. node \in [present : {TRUE}, ready : BOOLEAN, cordoned : BOOLEAN]
    BY <1>3, PresentNode DEF ChangeHealth, NodeTypes
  <2>0. pastNodes' = pastNodes \cup {node'}
    BY <1>3 DEF ChangeHealth, NodeBecomes
  <2>2. node' \in Nodes /\ (Closed => Closed')
    <3>1. CASE node' = Removed
      <4>1. ~Removed.present
        BY DEF Removed
      <4> QED
        BY <3>1, <4>1 DEF Nodes, Closed
    <3>2. CASE node' = [node EXCEPT !.ready = ~@]
      <4>1. /\ node' \in [present : {TRUE}, ready : BOOLEAN, cordoned : BOOLEAN]
            /\ node'.cordoned = node.cordoned
        BY <2>1, <3>2
      <4> QED
        BY <2>1, <4>1 DEF Nodes, Closed
    <3> QED
      BY <1>3, <3>1, <3>2 DEF ChangeHealth, NodeBecomes
  <2> QED
    BY <1>1, <1>3, <2>0, <2>2 DEF ChangeHealth, NodeTypes, NodeStep, podApi, OnNode, Here
<1> QED
  BY <1>2, <1>3

\* All that a step does to the node and the Pods.
LEMMA NodeStepTaken ==
    ASSUME Ctl!IInv, NodeTypes, [Next]_vars
    PROVE  NodeTypes' /\ NodeStep
<1>1. ASSUME NEW c \in Controllers, Controller(c)
      PROVE  NodeTypes' /\ NodeStep
  <2>1. CASE Reconcile(c) \/ Crash(c)
    BY <2>1, NothingMoved DEF Reconcile, Crash
  <2>2. CASE ExecutorStep(c)
    BY <2>2, ExecutorMoves
  <2>3. CASE SyncNode(c) \/ SyncPods(c) \/ Start(c)
    BY <2>3, SyncMoves DEF SyncNode, SyncPods, Start, NodeTypes
  <2> QED
    BY <1>1, <2>1, <2>2, <2>3 DEF Controller
<1>2. CASE Cluster
  BY <1>2, NothingMoved, ClusterMoves DEF Cluster
<1>3. CASE UNCHANGED vars
  BY <1>3, NothingMoved DEF vars
<1> QED
  BY <1>1, <1>2, <1>3 DEF Next

(***************************************************************************)
(* The cordon, as read and as recorded.                                    *)
(***************************************************************************)

\* A status past the cordon follows one that is, or the cordon itself.
LEMMA StageWrites ==
    ASSUME Ctl!IInv, NodeTypes, NEW c \in Controllers, ExecutorStep(c),
           NEW a \in Actions, NEW st \in Ctl!StatusesOf(a)', Maintained(st.checkpoint)
    PROVE  \/ \E old \in Ctl!StatusesOf(a) : Maintained(old.checkpoint)
           \/ nodeCache[c].cordoned
           \/ Closed'
<1> DEFINE Goal == \/ \E old \in Ctl!StatusesOf(a) : Maintained(old.checkpoint)
                   \/ nodeCache[c].cordoned
                   \/ Closed'
<1> SUFFICES Goal
  OBVIOUS
<1>k. PICK k : k = work[c].st.checkpoint
  OBVIOUS
<1>1. ASSUME NEW l, NEW phases, Ctl!Writes(c, l, phases),
             Maintained(l) => Maintained(k) \/ nodeCache[c].cordoned \/ Closed'
      PROVE  Goal
  <2>1. \/ st \in Ctl!StatusesOf(a)
        \/ a = work[c].act /\ st.checkpoint = l
    BY <1>1, CtlAssumptions, Ctl!WritesStatus
  <2>2. a = work[c].act => work[c].st \in Ctl!StatusesOf(a)
    BY DEF Ctl!StatusesOf
  <2> QED
    BY <1>k, <1>1, <2>1, <2>2
<1>2. /\ \A l : Ctl!ExecuteProgress(c, l) => Ctl!Writes(c, l, {"Running"})
      /\ Retry(c) => Ctl!Writes(c, k, {"Running", "Failed"})
      /\ Ctl!ExecuteInProgress(c) => Ctl!Writes(c, k, {"Running"})
      /\ Ctl!ExecuteDone(c) => Ctl!Writes(c, k, {"Verifying"})
      /\ Ctl!VerifyError(c) => Ctl!Writes(c, k, {"Verifying", "Failed"})
      /\ Ctl!VerifyOk(c) => Ctl!Writes(c, k, {"Succeeded"})
  BY <1>k, CtlAssumptions, Ctl!ExecutorWrites DEF Retry
<1>3. (\/ Retry(c) \/ Ctl!ExecuteInProgress(c) \/ Ctl!ExecuteDone(c)
       \/ Ctl!VerifyError(c) \/ Ctl!VerifyOk(c)) => Goal
  BY <1>1, <1>2
<1>4. ASSUME NEW l, Ctl!ExecuteProgress(c, l),
             Maintained(l) => Maintained(k) \/ nodeCache[c].cordoned \/ Closed'
      PROVE  Goal
  BY <1>1, <1>2, <1>4
<1>5. Ctl!VerifyNotYet(c) => Goal
  BY CtlAssumptions, Ctl!NotYetDrops
<1> HIDE DEF Goal
<1>6. CASE GetMissing(c) \/ DrainFailed(c) \/ DrainWaiting(c) \/ Finish(c) \/ Verify(c)
  BY <1>3, <1>5, <1>6 DEF GetMissing, DrainFailed, DrainWaiting, Finish, Verify
<1>7. CASE PreCheck(c)
  <2>1. ~Maintained("PreChecked")
    BY DEF Maintained
  <2> QED
    BY <1>3, <1>4, <1>7, <2>1 DEF PreCheck
<1>8. CASE Cordon(c)
  <2>1. Patch(TRUE) => Closed'
    BY PatchSets DEF Closed
  <2> QED
    BY <1>3, <1>4, <1>8, <2>1 DEF Cordon, SetCordon
<1>9. CASE DrainDone(c) \/ RunHook(c)
  <2>1. Maintained(k)
    BY <1>9, <1>k DEF DrainDone, RunHook, At, Maintained
  <2> QED
    BY <1>3, <1>4, <1>9, <2>1 DEF DrainDone, RunHook
<1>10. CASE CheckHealth(c) \/ Uncordon(c)
  <2>1. ~Maintained("HealthChecked") /\ ~Maintained("Uncordoned")
    BY DEF Maintained
  <2> QED
    BY <1>3, <1>4, <1>10, <2>1 DEF CheckHealth, Uncordon, SetCordon
<1> QED
  BY <1>6, <1>7, <1>8, <1>9, <1>10 DEF ExecutorStep

\* Until someone uncordons the node, what is known of the cordon stays true.
LEMMA CordonStep ==
    ASSUME Ctl!IInv, NodeTypes, CordonKnown, [Next]_vars
    PROVE  CordonKnown' \/ \E c \in Controllers : Uncordon(c)
<1> SUFFICES ASSUME ~\E c \in Controllers : Uncordon(c)
             PROVE  CordonKnown'
  OBVIOUS
<1>1. /\ Closed => Closed'
      /\ pastNodes' \subseteq pastNodes \cup {node'}
  BY NodeStepTaken DEF NodeStep
<1>2. \A n \in pastNodes' : n.cordoned => Closed'
  BY <1>1 DEF CordonKnown, Closed
<1>3. ASSUME \A a \in Actions : \A st \in Ctl!StatusesOf(a)' : Ctl!Inherits(a, st)
      PROVE  \A a \in Actions : \A st \in Ctl!StatusesOf(a)' :
                Maintained(st.checkpoint) => Closed'
  BY <1>1, <1>3 DEF Ctl!Inherits, CordonKnown, Maintained
<1>4. UNCHANGED ctlVars =>
        \A a \in Actions : \A st \in Ctl!StatusesOf(a)' : Ctl!Inherits(a, st)
  <2>1. UNCHANGED ctlVars => \A a \in Actions : Ctl!StatusesOf(a)' = Ctl!StatusesOf(a)
    BY DEF ctlVars, Ctl!StatusesOf
  <2> QED
    BY <2>1, CtlAssumptions, Ctl!InheritsItself
<1>5. Ctl!Passive =>
        \A a \in Actions : \A st \in Ctl!StatusesOf(a)' : Ctl!Inherits(a, st)
  BY CtlAssumptions, Ctl!PassiveInherits
<1>6. ASSUME NEW c \in Controllers, ExecutorStep(c)
      PROVE  \A a \in Actions : \A st \in Ctl!StatusesOf(a)' :
                Maintained(st.checkpoint) => Closed'
  BY <1>1, <1>6, StageWrites DEF CordonKnown, NodeTypes
<1>7. \/ \E c \in Controllers : ExecutorStep(c)
      \/ Ctl!Passive
      \/ UNCHANGED ctlVars
  BY DEF Next, Controller, Reconcile, SyncNode, SyncPods, Start, Crash, Cluster, Place,
         Stop, ChangeHealth, Ctl!Passive, vars
<1> QED
  BY <1>2, <1>3, <1>4, <1>5, <1>6, <1>7 DEF CordonKnown

\* Who uncordons has read a version past the health check.
LEMMA UncordonReads ==
    ASSUME Ctl!IInv, NEW c \in Controllers, Uncordon(c)
    PROVE  /\ Ctl!Busy(c) /\ work[c].act \in Actions
           /\ work[c].ver \in 1 .. Len(log[work[c].act])
           /\ Late(log[work[c].act][work[c].ver].checkpoint)
BY CallStatus DEF Uncordon, At, Late

(***************************************************************************)
(* The stages of an Action, as stored.                                     *)
(***************************************************************************)

\* A history keeps the versions it has.
LEMMA VersionsKept ==
    ASSUME Ctl!IInv, [Next]_vars, NEW a \in Actions
    PROVE  /\ Len(log[a]) \in Nat /\ Len(log'[a]) \in Nat
           /\ Len(log[a]) <= Len(log'[a])
           /\ \A i \in 1 .. Len(log[a]) : log'[a][i] = log[a][i]
<1>1. Ctl!Grows /\ Ctl!TypeOK
  BY CtlAssumptions, Ctl!StepGrows, CtlStep DEF Ctl!IInv
<1> QED
  BY <1>1, CtlAssumptions, Ctl!HistoryKept

\* The stage after a late one is late.
LEMMA LateFollows ==
    ASSUME NEW k, NEW l, Late(k), l = k \/ <<k, l>> \in StageStep
    PROVE  Late(l)
BY StageFacts DEF Late

\* No update takes an Action back behind the health check.
LEMMA StagesKept ==
    ASSUME Ctl!IInv, StagesOrdered, [Next]_vars
    PROVE  StagesOrdered'
<1> SUFFICES ASSUME NEW a \in Actions,
                    NEW i \in 1 .. Len(log'[a]), NEW j \in 1 .. Len(log'[a]),
                    i <= j, Late(log'[a][i].checkpoint)
             PROVE  Late(log'[a][j].checkpoint) \/ log'[a][j] = Ctl!Gone
  BY DEF StagesOrdered, Ctl!Gone, Ctl!NewStatus
<1>1. Ctl!HistoryStep(a)
  BY CtlAssumptions, Ctl!NextStep, CtlStep
<1>2. log[a] \in Seq(Ctl!Versions)
  BY DEF Ctl!IInv, Ctl!TypeOK
<1>3. CASE log'[a] = log[a]
  BY <1>3 DEF StagesOrdered
<1>4. CASE log'[a] = <<Ctl!NewStatus>>
  <2>1. Len(log'[a]) = 1 /\ log'[a][1] = Ctl!NewStatus
    BY <1>4
  <2>2. i = 1
    BY <2>1
  <2>3. Ctl!NewStatus.checkpoint = ""
    BY DEF Ctl!NewStatus
  <2>4. ~Late(Ctl!NewStatus.checkpoint)
    BY <2>3 DEF Late
  <2> QED
    BY <2>1, <2>2, <2>4
<1>5. ASSUME NEW v \in Ctl!Versions, Ctl!Exists(a), log'[a] = Append(log[a], v),
             v = Ctl!Current(a) \/ v = Ctl!Gone \/ Ctl!Follows(Ctl!Current(a), v)
      PROVE  Late(log'[a][j].checkpoint) \/ log'[a][j] = Ctl!Gone
  <2> DEFINE n == Len(log[a])
  <2>1. /\ n \in 1 .. n /\ Ctl!Current(a) = log[a][n] /\ log[a][n] # Ctl!Gone
    BY <1>5, CtlAssumptions, Ctl!CurrentSound DEF Ctl!Exists
  <2>2. /\ Len(log'[a]) = n + 1 /\ log'[a][n + 1] = v
        /\ \A m \in 1 .. n : log'[a][m] = log[a][m]
    BY <1>2, <1>5, AppendProperties, LenProperties
  <2> HIDE DEF n
  <2>3. CASE j <= n
    <3>1. /\ i \in 1 .. n /\ j \in 1 .. n
          /\ log'[a][i] = log[a][i] /\ log'[a][j] = log[a][j]
      BY <2>1, <2>2, <2>3
    <3> QED
      BY <3>1 DEF StagesOrdered, n
  <2>4. CASE j = n + 1 /\ i = n + 1
    BY <2>4
  <2>5. CASE j = n + 1 /\ i <= n
    <3>1. i \in 1 .. n /\ n \in 1 .. n /\ i <= n /\ log'[a][i] = log[a][i]
      BY <2>1, <2>2, <2>5
    <3>2. Late(Ctl!Current(a).checkpoint)
      BY <2>1, <3>1 DEF StagesOrdered, n
    <3>3. v = Ctl!Gone \/ Late(v.checkpoint)
      BY <1>5, <3>2, LateFollows DEF Ctl!Follows
    <3> QED
      BY <2>2, <2>5, <3>3
  <2> QED
    BY <2>1, <2>2, <2>3, <2>4, <2>5
<1>6. \/ log'[a] = log[a]
      \/ log'[a] = <<Ctl!NewStatus>>
      \/ /\ Ctl!Exists(a)
         /\ \E v \in Ctl!Versions :
              /\ log'[a] = Append(log[a], v)
              /\ v = Ctl!Current(a) \/ v = Ctl!Gone \/ Ctl!Follows(Ctl!Current(a), v)
  BY <1>1 DEF Ctl!HistoryStep, Ctl!Written
<1> QED
  BY <1>3, <1>4, <1>5, <1>6

(***************************************************************************)
(* The theorems that hold for any number of controllers.                   *)
(***************************************************************************)

\* The invariant holds at first.
LEMMA InitInv == Init => IInv
<1> SUFFICES ASSUME Init PROVE IInv
  OBVIOUS
<1>1. Ctl!IInv
  BY CtlSound
<1>2. NodeTypes
  BY MovesAssumption DEF Init, NodeTypes, Nodes, Places, OnNode, Here, Removed
<1>3. StagesOrdered
  BY DEF Init, Ctl!Init, StagesOrdered
<1>4. CordonKnown
  <2>1. \A a \in Actions : Ctl!StatusesOf(a) = {}
    BY ControllerAssumption DEF Init, Ctl!Init, Ctl!StatusesOf, Ctl!Down, Ctl!Job
  <2> QED
    BY <2>1 DEF Init, CordonKnown, Removed
<1> QED
  BY <1>1, <1>2, <1>3, <1>4 DEF IInv

\* Every step keeps the invariant.
LEMMA NextInv == IInv /\ [Next]_vars => IInv'
<1> SUFFICES ASSUME IInv, [Next]_vars PROVE IInv'
  OBVIOUS
<1>1. Ctl!IInv /\ NodeTypes /\ StagesOrdered
  BY DEF IInv
<1>2. Ctl!IInv' /\ NodeTypes' /\ StagesOrdered'
  BY <1>1, CtlSound, NodeStepTaken, StagesKept
<1>3. SomeLate => SomeLate'
  <2> SUFFICES ASSUME NEW a \in Actions, NEW i \in 1 .. Len(log[a]),
                      Late(log[a][i].checkpoint)
               PROVE  i \in 1 .. Len(log'[a]) /\ Late(log'[a][i].checkpoint)
    BY DEF SomeLate
  <2> QED
    BY <1>1, VersionsKept
<1>4. (\E c \in Controllers : Uncordon(c)) => SomeLate
  BY <1>1, UncordonReads DEF SomeLate
<1> QED
  BY <1>1, <1>2, <1>3, <1>4, CordonStep DEF IInv

\* What the caches and the checkpoints say of the cordon is true until some
\* Action has passed the health check, and no Action goes back behind it.
THEOREM Soundness == Spec => []IInv
<1> QED
  BY InitInv, NextInv, PTL DEF Spec

\* The state keeps its shape.
THEOREM TypeCorrect == Spec => []TypeOK
<1>1. IInv => TypeOK
  BY DEF IInv, Ctl!IInv, NodeTypes, TypeOK
<1> QED
  BY <1>1, Soundness, PTL

\* The stored status of an Action is one of its statuses, and the last version.
LEMMA CurrentStatus ==
    ASSUME IInv, NEW a \in Actions, Ctl!PhaseOf(a) = "Running"
    PROVE  /\ Len(log[a]) \in 1 .. Len(log[a])
           /\ Ctl!Current(a) = log[a][Len(log[a])]
           /\ Ctl!Current(a) # Ctl!Gone
           /\ Ctl!Current(a) \in Ctl!StatusesOf(a)
<1>1. log[a] # << >> /\ Ctl!Current(a).phase = "Running"
  BY DEF Ctl!PhaseOf
<1>2. Ctl!Current(a) # Ctl!Gone
  BY <1>1 DEF Ctl!Gone, Ctl!NewStatus
<1>3. Ctl!Exists(a)
  BY <1>1, <1>2 DEF Ctl!Exists, Ctl!Current
<1>4. Len(log[a]) \in 1 .. Len(log[a]) /\ Ctl!Current(a) = log[a][Len(log[a])]
  BY <1>3, CtlAssumptions, Ctl!CurrentSound DEF IInv
<1> QED
  BY <1>2, <1>4 DEF Ctl!StatusesOf

\* A node under maintenance takes no Pods, whatever stale caches, lost answers,
\* conflicts, crashes and further controllers come between patch and checkpoint.
THEOREM CordonHeld == ASSUME OneAction PROVE Spec => []CordonedWhileMaintained
<1>1. ASSUME IInv, NEW a \in Actions, Ctl!PhaseOf(a) = "Running",
             Maintained(Ctl!Current(a).checkpoint)
      PROVE  Closed
  <2>1. CASE CordonKnown
    BY <1>1, <2>1, CurrentStatus DEF CordonKnown
  <2>2. CASE SomeLate
    <3>1. PICK i \in 1 .. Len(log[a]) : Late(log[a][i].checkpoint)
      BY <2>2 DEF SomeLate, OneAction
    <3>2. Late(Ctl!Current(a).checkpoint)
      BY <1>1, <3>1, CurrentStatus DEF IInv, StagesOrdered
    <3> QED
      BY <1>1, <3>2 DEF Late, Maintained
  <2> QED
    BY <1>1, <2>1, <2>2 DEF IInv
<1>2. IInv => CordonedWhileMaintained
  BY <1>1 DEF CordonedWhileMaintained, Maintained, Closed
<1> QED
  BY <1>2, Soundness, PTL

(***************************************************************************)
(* One controller, before its first exit.                                  *)
(***************************************************************************)

\* Neither the cache nor the call in progress goes back in time.
LEMMA CallSeenKept ==
    ASSUME Ctl!IInv, CallSeen, [Next]_vars, crashes' = crashes
    PROVE  CallSeen'
<1>1. Ctl!IInv' /\ [Ctl!Next]_(Ctl!vars) /\ Ctl!TypeOK
  BY CtlSound, CtlStep DEF Ctl!IInv
<1>2. ASSUME NEW c \in Controllers, NEW a \in Actions
      PROVE  /\ ~Ctl!At(c, "down") => seen[c][a] <= seen'[c][a]
             /\ Ctl!At(c, "down")' => Ctl!At(c, "down") /\ seen'[c] = seen[c]
             /\ seen[c][a] \in Nat /\ seen'[c][a] \in Nat
  <2>1. seen[c][a] \in Nat /\ seen'[c][a] \in Nat
    BY <1>1 DEF Ctl!IInv, Ctl!TypeOK
  <2> QED
    BY <1>1, <2>1, CtlAssumptions, Ctl!SeenStep
<1>3. ASSUME NEW c \in Controllers, Ctl!At(c, "down")', NEW a \in Actions
      PROVE  seen'[c][a] = 0
  BY <1>2, <1>3 DEF CallSeen
<1>4. ASSUME NEW c \in Controllers, Ctl!Busy(c)'
      PROVE  work'[c].ver <= seen'[c][work'[c].act]
  <2>1. CASE /\ Ctl!Busy(c)
             /\ work'[c].act = work[c].act /\ work'[c].ver = work[c].ver
    <3>1. PICK a \in Actions : a = work[c].act
      BY <2>1, CtlAssumptions, Ctl!JobStatus DEF Ctl!IInv
    <3>2. work[c].ver <= seen[c][a] /\ ~Ctl!At(c, "down")
      BY <2>1, <3>1 DEF CallSeen, Ctl!Busy, Ctl!At
    <3>3. work[c].ver \in Nat
      BY <1>1, <2>1, CtlAssumptions, Ctl!BusyJob
    <3>4. seen[c][a] <= seen'[c][a] /\ seen[c][a] \in Nat /\ seen'[c][a] \in Nat
      BY <1>2, <3>2
    <3> QED
      BY <2>1, <3>1, <3>2, <3>3, <3>4
  <2>2. CASE \E a \in Actions :
                /\ seen' = seen
                /\ work'[c].act = a /\ work'[c].ver = seen[c][a]
    BY <1>2, <2>2
  <2> QED
    BY <1>1, <1>4, <2>1, <2>2, CtlAssumptions, Ctl!CallStep
<1> QED
  BY <1>3, <1>4 DEF CallSeen

\* A call that has seen the last stages is followed by calls that have.
LEMMA SeenLateKept ==
    ASSUME OneAction, IInv, CallSeen, [Next]_vars,
           NEW c \in Controllers, NEW a \in Actions, SeenLate(c, a)
    PROVE  SeenLate(c, a)'
<1>1. Ctl!IInv /\ Ctl!IInv' /\ [Ctl!Next]_(Ctl!vars) /\ Ctl!TypeOK /\ Ctl!HistorySound
  BY CtlSound, CtlStep DEF IInv, Ctl!IInv
<1>2. PICK i \in 1 .. Len(log[a]) : i <= seen[c][a] /\ Late(log[a][i].checkpoint)
  BY DEF SeenLate
<1>3. /\ Len(log[a]) \in Nat /\ Len(log'[a]) \in Nat
      /\ Len(log[a]) <= Len(log'[a])
      /\ \A j \in 1 .. Len(log[a]) : log'[a][j] = log[a][j]
  BY <1>1, VersionsKept
<1>4. seen[c][a] \in Nat /\ seen'[c][a] \in Nat
  BY <1>1 DEF Ctl!IInv, Ctl!TypeOK
<1>5. ~Ctl!At(c, "down")
  BY <1>2, <1>4 DEF CallSeen
<1>6. /\ i \in 1 .. Len(log'[a]) /\ i <= seen'[c][a]
      /\ Late(log'[a][i].checkpoint)
  <2>1. seen[c][a] <= seen'[c][a]
    BY <1>1, <1>5, CtlAssumptions, Ctl!SeenStep
  <2> QED
    BY <1>2, <1>3, <1>4, <2>1
<1>7. ASSUME Ctl!Busy(c)'
      PROVE  Late(log'[work'[c].act][work'[c].ver].checkpoint)
  <2>1. CASE /\ Ctl!Busy(c)
             /\ work'[c].act = work[c].act /\ work'[c].ver = work[c].ver
    <3>1. work[c].act = a
      BY <2>1, CtlAssumptions, Ctl!JobStatus DEF IInv, Ctl!IInv, OneAction
    <3>2. work[c].ver \in 1 .. Len(log[a])
      BY <1>1, <2>1, <3>1 DEF Ctl!IInv, Ctl!WorkSound, Ctl!JobSound
    <3> QED
      BY <1>3, <2>1, <3>1, <3>2 DEF SeenLate
  <2>2. CASE \E b \in Actions :
                /\ log' = log /\ work'[c].act = b /\ work'[c].ver = seen[c][b]
                /\ Ctl!Unsettled(Ctl!Cached(c, b))
    <3>1. /\ log' = log /\ work'[c].act = a /\ work'[c].ver = seen[c][a]
          /\ Ctl!Unsettled(Ctl!Cached(c, a))
      BY <2>2 DEF OneAction
    <3>2. seen[c][a] \in 1 .. Len(log[a]) /\ Ctl!Cached(c, a) = log[a][seen[c][a]]
      BY <1>1, <3>1, CtlAssumptions, Ctl!CachedSound
    <3>3. log[a][seen[c][a]] # Ctl!Gone
      BY <3>1, <3>2, CtlAssumptions, Ctl!GoneType
    <3>4. Late(log[a][seen[c][a]].checkpoint)
      BY <1>2, <3>2, <3>3 DEF IInv, StagesOrdered
    <3> QED
      BY <3>1, <3>4
  <2> QED
    BY <1>1, <1>7, <2>1, <2>2, CtlAssumptions, Ctl!CallStep
<1> QED
  BY <1>6, <1>7 DEF SeenLate

\* The node is uncordoned by a call that has seen the last stages.
LEMMA EvictStep ==
    ASSUME OneAction, OneController, IInv, EvictInv, [Next]_vars
    PROVE  EvictInv'
<1> SUFFICES ASSUME crashes' = 0
             PROVE  /\ CallSeen'
                    /\ \/ CordonKnown'
                       \/ \A c \in Controllers, a \in Actions : SeenLate(c, a)'
  BY DEF EvictInv
<1>1. Ctl!IInv /\ NodeTypes /\ [Ctl!Next]_(Ctl!vars)
  BY CtlStep DEF IInv
<1>2. crashes = 0
  <2>1. crashes \in Nat /\ crashes <= crashes'
    BY <1>1, CtlAssumptions, Ctl!CrashesGrow DEF Ctl!IInv, Ctl!TypeOK
  <2> QED
    BY <2>1
<1>3. CallSeen /\ CallSeen'
  BY <1>1, <1>2, CallSeenKept DEF EvictInv
<1>4. CASE CordonKnown
  <2>1. CASE \E e \in Controllers : Uncordon(e)
    <3> SUFFICES ASSUME NEW c \in Controllers, NEW a \in Actions
                 PROVE  SeenLate(c, a)'
      BY <1>3
    <3>1. Uncordon(c)
      BY <2>1 DEF OneController
    <3>2. /\ Ctl!Busy(c) /\ work[c].act = a
          /\ work[c].ver \in 1 .. Len(log[a]) /\ Late(log[a][work[c].ver].checkpoint)
      BY <1>1, <3>1, UncordonReads DEF OneAction
    <3>3. work[c].ver <= seen[c][a]
      BY <1>3, <3>2 DEF CallSeen
    <3>4. SeenLate(c, a)
      BY <3>2, <3>3 DEF SeenLate
    <3> QED
      BY <1>3, <3>4, SeenLateKept
  <2> QED
    BY <1>1, <1>3, <1>4, <2>1, CordonStep
<1>5. CASE \A c \in Controllers, a \in Actions : SeenLate(c, a)
  BY <1>3, <1>5, SeenLateKept
<1> QED
  BY <1>2, <1>3, <1>4, <1>5 DEF EvictInv

\* An eviction is made by a call at the cordon, and so is the checkpoint it read.
LEMMA EvictionsGuarded ==
    ASSUME IInv, EvictInv, [Next]_vars, crashes = 0,
           NEW p \in PodNames, pods[p] = "here", pods'[p] = "evicted"
    PROVE  Closed
<1>1. PICK c \in Controllers : At(c, "Cordoned")
  <2>1. ASSUME NEW c \in Controllers, Controller(c), ~At(c, "Cordoned")
        PROVE  pods' = pods
    BY <2>1 DEF Controller, Reconcile, ExecutorStep, GetMissing, PreCheck, Cordon,
                DrainWaiting, DrainFailed, DrainDone, RunHook, CheckHealth, Uncordon,
                Finish, Verify, SetCordon, Patch, SyncNode, SyncPods, Start, Crash, nodeVars,
                podApi
  <2>2. Cluster => pods'[p] # "evicted" \/ pods' = pods
    BY DEF Cluster, Place, Stop, PodsBecome, ChangeHealth, nodeVars, podApi, IInv, NodeTypes
  <2>3. UNCHANGED vars => pods' = pods
    BY DEF vars, nodeVars, podApi
  <2> QED
    BY <2>1, <2>2, <2>3 DEF Next
<1>2. Ctl!IInv /\ Ctl!At(c, "execute") /\ work[c].st.checkpoint = "Cordoned"
  BY <1>1 DEF At, IInv
<1>3. /\ Ctl!Busy(c) /\ work[c].act \in Actions
      /\ work[c].st \in Ctl!StatusesOf(work[c].act)
      /\ log[work[c].act][work[c].ver].checkpoint = "Cordoned"
  BY <1>2, CallStatus
<1>4. ~SeenLate(c, work[c].act)
  BY <1>3 DEF SeenLate, Late
<1> QED
  BY <1>2, <1>3, <1>4 DEF EvictInv, CordonKnown, Maintained

\* While one controller runs without a restart, it evicts no Pod from a node
\* that takes new ones, however old its copies of the node, the Pods and the
\* Action are.
THEOREM EvictionsCordoned == ASSUME OneAction, OneController PROVE Spec => EvictsCordoned
<1>1. Init => IInv /\ EvictInv
  <2>1. ASSUME Init PROVE EvictInv
    <3>1. CordonKnown
      <4>1. \A a \in Actions : Ctl!StatusesOf(a) = {}
        BY <2>1, ControllerAssumption DEF Init, Ctl!Init, Ctl!StatusesOf, Ctl!Down, Ctl!Job
      <4> QED
        BY <2>1, <4>1 DEF Init, CordonKnown, Removed
    <3>2. CallSeen
      BY <2>1 DEF Init, Ctl!Init, CallSeen, Ctl!Busy, Ctl!Down, Ctl!Job
    <3> QED
      BY <3>1, <3>2 DEF EvictInv
  <2> QED
    BY <2>1, InitInv
<1>2. IInv /\ EvictInv /\ [Next]_vars => (IInv /\ EvictInv)'
  BY NextInv, EvictStep
<1>3. IInv /\ EvictInv /\ [Next]_vars =>
        [crashes = 0 =>
            \A p \in PodNames :
                (pods[p] = "here" /\ pods'[p] = "evicted" /\ node.present)
                    => node.cordoned]_vars
  BY EvictionsGuarded DEF Closed
<1> QED
  BY <1>1, <1>2, <1>3, PTL DEF Spec, EvictsCordoned
==============================================================================
