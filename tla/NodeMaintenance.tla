--------------------------- MODULE NodeMaintenance ---------------------------
(***************************************************************************)
(* NodeMaintenanceExecutor (src/internal/action/node_maintenance.go) under *)
(* the reconciler of ActionController.  All Actions maintain one node: it  *)
(* is cordoned, drained by evictions, handed to the maintenance hook,      *)
(* checked and uncordoned, one stored checkpoint per stage.                *)
(*                                                                         *)
(* The executor reads the node and the Pods on it from informer caches,    *)
(* earlier values of node and pods, and acts at the API server: by merge   *)
(* patch on the node, by eviction on a Pod that has a name.  A cache goes  *)
(* forward while its process lives; the next one may begin with an older.  *)
(***************************************************************************)
EXTENDS Naturals, Sequences

CONSTANTS
    Controllers, Actions, NoAction, MaxRetries, MaxCrashes,
    PodNames,  \* names of Pods
    MaxMoves   \* bound: Pods placed, node conditions changed, and crashes

ASSUME ControllerAssumption ==
    NoAction \notin Actions /\ MaxRetries \in Nat \ {0} /\ MaxCrashes \in Nat
ASSUME MovesAssumption == MaxMoves \in Nat

VARIABLES
    log, expired, seen, queue, work, audit, metric, crashes, touches,
    node,       \* the Node at the API server, or Removed
    pastNodes,  \* every Node the API server has had, the current one too
    nodeCache,  \* per controller, the Node its cache holds
    pods,       \* per name, where the Pod is
    pastLists,  \* every set of Pods the API server has had on the node
    listed,     \* per controller, the Pods its cache has on the node, not terminating
    unmanaged,  \* the names of Pods without a controller
    moves       \* steps of the cluster so far that MaxMoves bounds

ctlVars  == <<log, expired, seen, queue, work, audit, metric, crashes, touches>>
nodeApi  == <<node, pastNodes>>
podApi   == <<pods, pastLists>>
nodeVars == <<nodeApi, nodeCache, podApi, listed, unmanaged, moves>>
vars     == <<ctlVars, nodeVars>>

(***************************************************************************)
(* The checkpoints of status.executionState, in order.                     *)
(***************************************************************************)

Stages == <<"", "PreChecked", "Cordoned", "Drained", "HookCompleted",
            "HealthChecked", "Uncordoned">>

Checkpoints == {Stages[i] : i \in DOMAIN Stages}

StageStep == {<<Stages[i], Stages[i + 1]>> : i \in 1 .. Len(Stages) - 1}

\* ActionController, and the theorems about it.
Ctl == INSTANCE ActionStatuses WITH
    Supported      <- Actions,
    NoCheckpoint   <- "",
    CheckpointStep <- StageStep,
    MaxTouches     <- 0,
    MetricCap      <- 0

(***************************************************************************)
(* The node and its Pods.  Pods of DaemonSets, mirror Pods and finished    *)
(* Pods, which a drain skips, are left out.                                *)
(***************************************************************************)

Removed == [present |-> FALSE, ready |-> FALSE, cordoned |-> FALSE]

Nodes == [present : {TRUE}, ready : BOOLEAN, cordoned : BOOLEAN] \cup {Removed}

\* On this node, evicted from it and terminating, on another node, nowhere.
Places == {"here", "evicted", "elsewhere", "nowhere"}

\* What the informer lists for the node, less the Pods on their way out.
Here(places) == {p \in PodNames : places[p] = "here"}

OnNode == Here(pods)

\* The API server has another Node, or other Pods.
NodeBecomes(n) == node' = n /\ pastNodes' = pastNodes \cup {n}

PodsBecome(places) == pods' = places /\ pastLists' = pastLists \cup {Here(places)}

(***************************************************************************)
(* Execute: a cached Get, then the stage the checkpoint names.             *)
(***************************************************************************)

At(c, stage) ==
    /\ Ctl!At(c, "execute")
    /\ nodeCache[c].present
    /\ work[c].st.checkpoint = stage

Retry(c) == Ctl!ExecuteError(c, work[c].st.checkpoint)

GetMissing(c) ==
    /\ Ctl!At(c, "execute")
    /\ ~nodeCache[c].present
    /\ Retry(c)
    /\ UNCHANGED nodeVars

PreCheck(c) ==
    /\ At(c, "")
    /\ \/ nodeCache[c].ready /\ Ctl!ExecuteProgress(c, "PreChecked")
       \/ ~nodeCache[c].ready /\ Retry(c)
    /\ UNCHANGED nodeVars

\* Mutant of Patch: an apply, which creates what is missing.
PatchMissing(cordoned) ==
    /\ NodeBecomes([node EXCEPT !.cordoned = cordoned])
    /\ UNCHANGED <<nodeCache, podApi, listed, unmanaged, moves>>

\* The merge patch of spec.unschedulable.
Patch(cordoned) ==
    /\ node.present
    /\ NodeBecomes([node EXCEPT !.cordoned = cordoned])
    /\ UNCHANGED <<nodeCache, podApi, listed, unmanaged, moves>>

\* The node is patched unless the cache has it patched already; the patch may
\* fail, or be applied while its answer is lost.
SetCordon(c, cordoned, next) ==
    \/ /\ nodeCache[c].cordoned = cordoned
       /\ Ctl!ExecuteProgress(c, next)
       /\ UNCHANGED nodeVars
    \/ /\ nodeCache[c].cordoned # cordoned
       /\ Patch(cordoned)
       /\ Ctl!ExecuteProgress(c, next) \/ Retry(c)
    \/ /\ nodeCache[c].cordoned # cordoned
       /\ Retry(c)
       /\ UNCHANGED nodeVars

\* Mutant of Cordon: the patch is left to the drain.
CordonSkipped(c) ==
    /\ At(c, "PreChecked")
    /\ Ctl!ExecuteProgress(c, "Cordoned")
    /\ UNCHANGED nodeVars

Cordon(c) == At(c, "PreChecked") /\ SetCordon(c, TRUE, "Cordoned")

Uncordon(c) == At(c, "HealthChecked") /\ SetCordon(c, FALSE, "Uncordoned")

(***************************************************************************)
(* The drain.  Pods on their way out are not listed.                       *)
(***************************************************************************)

\* Evictions of the Pods in set, by name: the Pod that has the name now goes,
\* wherever it is; a missing one is forgiven, and those a disruption budget
\* refuses are outside set.
Evict(set) ==
    /\ PodsBecome([p \in PodNames |->
                     CASE p \in set /\ pods[p] = "here"      -> "evicted"
                       [] p \in set /\ pods[p] = "elsewhere" -> "nowhere"
                       [] OTHER                              -> pods[p]])
    /\ UNCHANGED <<nodeApi, nodeCache, listed, unmanaged, moves>>

DrainWaiting(c) ==
    /\ At(c, "Cordoned")
    /\ listed[c] # {} /\ listed[c] \cap unmanaged = {}
    /\ \E set \in SUBSET listed[c] : Evict(set)
    /\ Ctl!ExecuteInProgress(c)

\* An unmanaged Pod or a failed request, after some Pods have been evicted.
DrainFailed(c) ==
    /\ At(c, "Cordoned")
    /\ listed[c] # {}
    /\ \E set \in SUBSET (listed[c] \ unmanaged) : Evict(set)
    /\ Retry(c)

DrainDone(c) ==
    /\ At(c, "Cordoned")
    /\ listed[c] = {}
    /\ Ctl!ExecuteProgress(c, "Drained")
    /\ UNCHANGED nodeVars

(***************************************************************************)
(* Hook, health check, end.                                                *)
(***************************************************************************)

\* The hook given to the controller does nothing; another one may fail.
RunHook(c) ==
    /\ At(c, "Drained")
    /\ Ctl!ExecuteProgress(c, "HookCompleted") \/ Retry(c)
    /\ UNCHANGED nodeVars

CheckHealth(c) ==
    /\ At(c, "HookCompleted")
    /\ \/ nodeCache[c].ready /\ Ctl!ExecuteProgress(c, "HealthChecked")
       \/ ~nodeCache[c].ready /\ Ctl!ExecuteInProgress(c)
    /\ UNCHANGED nodeVars

Finish(c) ==
    /\ At(c, "Uncordoned")
    /\ Ctl!ExecuteDone(c)
    /\ UNCHANGED nodeVars

Verify(c) ==
    /\ Ctl!At(c, "verify")
    /\ LET cached    == nodeCache[c]
           recovered == cached.ready /\ ~cached.cordoned
       IN  \/ ~cached.present /\ Ctl!VerifyError(c)
           \/ cached.present /\ recovered /\ Ctl!VerifyOk(c)
           \/ cached.present /\ ~recovered /\ Ctl!VerifyNotYet(c)
    /\ UNCHANGED nodeVars

(***************************************************************************)
(* The rest of the cluster.                                                *)
(***************************************************************************)

SyncNode(c) ==
    /\ ~Ctl!At(c, "down")
    /\ nodeCache' = [nodeCache EXCEPT ![c] = node]
    /\ UNCHANGED <<ctlVars, nodeApi, podApi, listed, unmanaged, moves>>

SyncPods(c) ==
    /\ ~Ctl!At(c, "down")
    /\ listed' = [listed EXCEPT ![c] = OnNode]
    /\ UNCHANGED <<ctlVars, nodeApi, nodeCache, podApi, unmanaged, moves>>

Move == moves + crashes < MaxMoves /\ moves' = moves + 1

\* A Pod with the name is created on a node that takes Pods.
Place(p) ==
    /\ Move
    /\ pods[p] = "nowhere"
    /\ \E place \in {"here", "elsewhere"} :
        /\ place = "here" => node.present /\ ~node.cordoned
        /\ PodsBecome([pods EXCEPT ![p] = place])
    /\ UNCHANGED <<ctlVars, nodeApi, nodeCache, listed, unmanaged>>

\* A Pod stops: the kubelet has finished an eviction, or somebody deleted it.
Stop(p) ==
    /\ pods[p] # "nowhere"
    /\ PodsBecome([pods EXCEPT ![p] = "nowhere"])
    /\ UNCHANGED <<ctlVars, nodeApi, nodeCache, listed, unmanaged, moves>>

ChangeHealth ==
    /\ Move
    /\ node.present
    /\ \E n \in {[node EXCEPT !.ready = ~@], Removed} : NodeBecomes(n)
    /\ UNCHANGED <<ctlVars, nodeCache, podApi, listed, unmanaged>>

(***************************************************************************)
(* Specification.                                                          *)
(***************************************************************************)

\* A list may be from before the node, or before its Pods.
Init ==
    /\ Ctl!Init
    /\ node = [present |-> TRUE, ready |-> TRUE, cordoned |-> FALSE]
    /\ pastNodes = {node, Removed}
    /\ nodeCache = [c \in Controllers |-> node]
    /\ pods = [p \in PodNames |-> "here"]
    /\ pastLists = {OnNode, {}}
    /\ listed = [c \in Controllers |-> OnNode]
    /\ unmanaged \in SUBSET PodNames
    /\ moves = 0

Reconcile(c) ==
    /\ (\E a \in Actions : Ctl!Take(c, a) \/ Ctl!Deliver(c, a)) \/ Ctl!UpdateReturns(c)
    /\ UNCHANGED nodeVars

ExecutorStep(c) ==
    \/ GetMissing(c)
    \/ PreCheck(c)
    \/ Cordon(c)
    \/ DrainWaiting(c)
    \/ DrainFailed(c)
    \/ DrainDone(c)
    \/ RunHook(c)
    \/ CheckHealth(c)
    \/ Uncordon(c)
    \/ Finish(c)
    \/ Verify(c)

\* A new process lists the Nodes and the Pods, each possibly as they were some
\* time ago.
Start(c) ==
    /\ Ctl!Start(c)
    /\ \E n \in pastNodes : nodeCache' = [nodeCache EXCEPT ![c] = n]
    /\ \E set \in pastLists : listed' = [listed EXCEPT ![c] = set]
    /\ UNCHANGED <<nodeApi, podApi, unmanaged, moves>>

Crash(c) ==
    /\ moves + crashes < MaxMoves
    /\ Ctl!Crash(c)
    /\ UNCHANGED nodeVars

Controller(c) ==
    \/ Reconcile(c)
    \/ ExecutorStep(c)
    \/ SyncNode(c)
    \/ SyncPods(c)
    \/ Start(c)
    \/ Crash(c)

Cluster ==
    \/ Ctl!Environment /\ UNCHANGED nodeVars
    \/ \E p \in PodNames : Place(p) \/ Stop(p)
    \/ ChangeHealth

Next == (\E c \in Controllers : Controller(c)) \/ Cluster

Spec == Init /\ [][Next]_vars

(***************************************************************************)
(* Properties.                                                             *)
(***************************************************************************)

\* Every variable keeps its shape.
TypeOK ==
    /\ Ctl!TypeOK
    /\ pastNodes \subseteq Nodes /\ node \in pastNodes
    /\ nodeCache \in [Controllers -> pastNodes]
    /\ pods \in [PodNames -> Places]
    /\ pastLists \subseteq SUBSET PodNames
    /\ listed \in [Controllers -> pastLists]
    /\ unmanaged \subseteq PodNames
    /\ moves \in 0 .. MaxMoves

\* While the stored checkpoint lies between the cordon and the uncordon, the
\* node takes no Pods: the patches and the checkpoints, written one after the
\* other by any number of controllers that read stale caches, retry lost
\* answers, overwrite each other and crash, never get out of step.
CordonedWhileMaintained ==
    \A a \in Actions :
        (/\ Ctl!PhaseOf(a) = "Running"
         /\ Ctl!Current(a).checkpoint \in {"Cordoned", "Drained", "HookCompleted"}
         /\ node.present) => node.cordoned

\* No Pod is evicted from a node that takes Pods, though checkpoint, node and
\* Pods are all read from caches of different age.  A controller restarted on
\* an old list of Actions may do so: it takes an earlier checkpoint for the
\* current one, and only its status update is refused.
EvictsCordoned ==
    [][crashes = 0 =>
        \A p \in PodNames :
            (pods[p] = "here" /\ pods'[p] = "evicted" /\ node.present) => node.cordoned]_vars

\* The message of the drain (node_maintenance.go:60), "waiting for evicted
\* pods to terminate": the hook runs on a node no evicted Pod is still on.
HookAfterTermination ==
    [][(\E c \in Controllers : RunHook(c)) => \A p \in PodNames : pods[p] # "evicted"]_vars
==============================================================================
