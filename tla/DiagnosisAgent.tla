--------------------------- MODULE DiagnosisAgent ---------------------------
(***************************************************************************)
(* The diagnosis agent (src/cmd/agent/main.go): the handlers of the Pod,   *)
(* Node, Deployment and Event informers, each in a goroutine of its own,   *)
(* diagnose an object, tell the DiagnosisTracker (internal/metrics) what   *)
(* they found and pass each result to the policy (internal/policy), which  *)
(* creates Actions.  Pods are diagnosed by two handlers, Nodes and         *)
(* Deployments by one.                                                     *)
(*                                                                         *)
(* An informer updates its store first and notifies its handler later.  A  *)
(* handler reads the stores, then observes, then handles: another one may  *)
(* step in between, and only ObserveResource holds a lock.                 *)
(***************************************************************************)
EXTENDS Detectors, Sequences, FiniteSets

CONSTANTS
    Names,                  \* names of objects
    PodStates,              \* the statuses Pods take
    NodeStates,             \* the sets of conditions Nodes take
    DeploymentStates,       \* the statuses Deployments take
    AutoPodRestart,         \* the flags of these names
    AutoDeploymentRestart,
    MaxChanges,             \* bound: changes of objects and Events
    MaxRestarts             \* bound: exits of the agent

ASSUME StatesAssumption ==
    /\ PodStates \subseteq PodStatuses
    /\ NodeStates \subseteq SUBSET Conditions
    /\ DeploymentStates \subseteq DeploymentStatuses
ASSUME FlagAssumption == AutoPodRestart \in BOOLEAN /\ AutoDeploymentRestart \in BOOLEAN
ASSUME ChangesAssumption == MaxChanges \in Nat /\ MaxRestarts \in Nat
ASSUME NamesAssumption == IsFiniteSet(Names)

VARIABLES
    kind,        \* per name, the kind of the object
    object,      \* per name, the object at the API server, or NoObject
    events,      \* the Events at the API server: <<name, UID>> of the Pod
    store,       \* per name, the object in the store of its informer
    eventStore,  \* the Events in the store of the Event informer
    notes,       \* per kind, notifications its handler has not taken
    eventNotes,  \* notifications the Event handler has not taken
    call,        \* per handler, the diagnosis in progress
    resources,   \* the tracker: per name, the results last observed
    counts,      \* the tracker: per result, the active diagnoses
    actions,     \* Actions at the API server: <<name, reason>>
    had,         \* <<name, reason>>: the Pod had the problem at some time
    excluded,    \* the names in ExcludedNamespaces, chosen when the agent is set up
    changes, restarts

cluster == <<kind, object, events, had, changes, excluded>>
stores  == <<store, eventStore>>
tracker == <<resources, counts>>
vars    == <<cluster, stores, notes, eventNotes, call, tracker, actions, restarts>>

(***************************************************************************)
(* Objects and what the detectors say of them.                             *)
(***************************************************************************)

Kinds == {"Pod", "Node", "Deployment"}

NoObject == [uid |-> 0]

States(k) == CASE k = "Pod" -> PodStates
               [] k = "Node" -> NodeStates
               [] k = "Deployment" -> DeploymentStates

Objects(k) == [uid : 1 .. MaxChanges, state : States(k)] \cup {NoObject}

Diagnose(n, o, evs) ==
    CASE kind[n] = "Pod" -> DiagnosePod(o.state, <<n, o.uid>> \in evs)
      [] kind[n] = "Node" -> DiagnoseNode(o.state)
      [] kind[n] = "Deployment" -> DiagnoseDeployment(o.state)

Handlers == Kinds \cup {"Event"}

\* A handler is idle, about to observe the results, or handling them.
Idle == [pc |-> "idle", results |-> {}]
Busy == [pc : {"observe", "handle"}, name : Names, results : SUBSET Results]

(***************************************************************************)
(* The policy.                                                             *)
(***************************************************************************)

ShouldAutoCreate(action) ==
    \/ action = "PodRestart" /\ AutoPodRestart
    \/ action = "DeploymentRestart" /\ AutoDeploymentRestart

\* Mutant of ShouldCreate: the namespace is not looked at.
ShouldCreateAnywhere(n, r) == r.action # "" /\ ShouldAutoCreate(r.action)

\* Handle goes as far as createIfNoActive.
ShouldCreate(n, r) ==
    /\ n \notin excluded
    /\ r.action # ""
    /\ ShouldAutoCreate(r.action)

(***************************************************************************)
(* The handlers.                                                           *)
(***************************************************************************)

\* Mutant of Observe: the labels of the last observation stay counted.
ObserveNew(n, results) ==
    /\ resources' = [resources EXCEPT ![n] = results]
    /\ counts' = [r \in Results |-> IF r \in results THEN counts[r] + 1 ELSE counts[r]]

\* ObserveResource, under the mutex of the tracker.  Kinds share no reason, so
\* a result stands for its label.
Observe(n, results) ==
    LET was(r) == IF r \in resources[n] THEN 1 ELSE 0
        is(r)  == IF r \in results THEN 1 ELSE 0
    IN  /\ resources' = [resources EXCEPT ![n] = results]
        /\ counts' = [r \in Results |-> counts[r] - was(r) + is(r)]

\* diagnosePod and its siblings with an object: the detector runs, for Pods
\* with the Events that are stored.
BeginDiagnosis(h, n, o) ==
    call' = [call EXCEPT ![h] =
                [pc |-> "observe", name |-> n, results |-> Diagnose(n, o, eventStore)]]

\* The handler of kind k takes the notification that n has become o.
TakeNote(k, n, o) ==
    /\ call[k] = Idle /\ notes[k] # << >>
    /\ Head(notes[k]) = <<n, o>>
    /\ notes' = [notes EXCEPT ![k] = Tail(@)]

\* Mutant of Changed: an object with a known diagnosis is not diagnosed again.
ChangedOnce(k, n, o) ==
    /\ TakeNote(k, n, o) /\ o # NoObject
    /\ IF resources[n] = {} THEN BeginDiagnosis(k, n, o) ELSE UNCHANGED call
    /\ UNCHANGED <<cluster, stores, eventNotes, tracker, actions, restarts>>

\* AddFunc and UpdateFunc.
Changed(k, n, o) ==
    /\ TakeNote(k, n, o) /\ o # NoObject
    /\ BeginDiagnosis(k, n, o)
    /\ UNCHANGED <<cluster, stores, eventNotes, tracker, actions, restarts>>

\* Mutant of Deleted: no DeleteFunc.
DeletedIgnored(k, n) ==
    /\ TakeNote(k, n, NoObject)
    /\ UNCHANGED <<cluster, stores, eventNotes, call, tracker, actions, restarts>>

\* DeleteFunc.
Deleted(k, n) ==
    /\ TakeNote(k, n, NoObject)
    /\ Observe(n, {})
    /\ UNCHANGED <<cluster, stores, eventNotes, call, actions, restarts>>

\* The handler of new Events: the Pod is taken from the store, if it is there.
EventAdded(n) ==
    /\ call["Event"] = Idle /\ eventNotes # << >>
    /\ Head(eventNotes) = n
    /\ eventNotes' = Tail(eventNotes)
    /\ \/ store[n] = NoObject /\ UNCHANGED call
       \/ store[n] # NoObject /\ BeginDiagnosis("Event", n, store[n])
    /\ UNCHANGED <<cluster, stores, notes, tracker, actions, restarts>>

\* The handler goes on with the results it still has to handle.
Handle(h, results) ==
    call' = [call EXCEPT ![h] = IF results = {} THEN Idle
                                ELSE [@ EXCEPT !.pc = "handle", !.results = results]]

\* Of the results handed to the sinks, those the policy makes no Action of
\* leave nothing but a log line.
ObserveResults(h) ==
    /\ call[h].pc = "observe"
    /\ Observe(call[h].name, call[h].results)
    /\ Handle(h, {r \in call[h].results : ShouldCreate(call[h].name, r)})
    /\ UNCHANGED <<cluster, stores, notes, eventNotes, actions, restarts>>

Handling(h, r) ==
    /\ call[h].pc = "handle"
    /\ r \in call[h].results
    /\ Handle(h, call[h].results \ {r})
    /\ UNCHANGED <<cluster, stores, notes, eventNotes, tracker, restarts>>

\* The name of the Action is a hash of target and reason: with an Action that
\* has the name, active or not, AlreadyExists is no error and nothing changes.
CreateOk(h, r) ==
    /\ Handling(h, r)
    /\ actions' = actions \cup {<<call[h].name, r.reason>>}

\* The error is logged and the result is dropped.
CreateError(h, r) == Handling(h, r) /\ UNCHANGED actions

(***************************************************************************)
(* The informers and the process.                                          *)
(***************************************************************************)

Sync(n) ==
    /\ store[n] # object[n]
    /\ store' = [store EXCEPT ![n] = object[n]]
    /\ notes' = [notes EXCEPT ![kind[n]] = Append(@, <<n, object[n]>>)]
    /\ UNCHANGED <<cluster, eventStore, eventNotes, call, tracker, actions, restarts>>

\* New Events are notified; those that went away have no handler.
SyncEvent(n, uid) ==
    /\ \/ /\ <<n, uid>> \in events \ eventStore
          /\ eventStore' = eventStore \cup {<<n, uid>>}
          /\ eventNotes' = Append(eventNotes, n)
       \/ /\ <<n, uid>> \in eventStore \ events
          /\ eventStore' = eventStore \ {<<n, uid>>}
          /\ UNCHANGED eventNotes
    /\ UNCHANGED <<cluster, store, notes, call, tracker, actions, restarts>>

\* Mutant of Resync: UpdateFunc drops an update that changes nothing.
ResyncDropped(n) == store[n] # NoObject /\ UNCHANGED vars

\* The resync replays what is stored; it is far slower than the handlers.
Resync(n) ==
    /\ store[n] # NoObject
    /\ notes[kind[n]] = << >> /\ call[kind[n]] = Idle
    /\ notes' = [notes EXCEPT ![kind[n]] = << <<n, store[n]>> >>]
    /\ UNCHANGED <<cluster, stores, eventNotes, call, tracker, actions, restarts>>

\* What a new process holds.
EmptyAgent ==
    /\ store' = [n \in Names |-> NoObject] /\ eventStore' = {}
    /\ notes' = [k \in Kinds |-> << >>] /\ eventNotes' = << >>
    /\ call' = [h \in Handlers |-> Idle]
    /\ resources' = [n \in Names |-> {}] /\ counts' = [r \in Results |-> 0]

Restart ==
    /\ restarts < MaxRestarts
    /\ restarts' = restarts + 1
    /\ EmptyAgent
    /\ UNCHANGED <<cluster, actions>>

(***************************************************************************)
(* The cluster.                                                            *)
(***************************************************************************)

Change ==
    /\ changes < MaxChanges
    /\ changes' = changes + 1
    /\ UNCHANGED <<kind, stores, notes, eventNotes, call, tracker, actions, restarts, excluded>>

\* The problems of a Pod that a restart may answer, said without the detector:
\* a container that was restarted and waits to be again, or ran out of memory.
RestartSymptoms(pod) ==
    {reason \in {"CrashLoopBackOff", "OOMKilled"} : \E c \in pod.containers :
        \/ reason = "CrashLoopBackOff" /\ c.waiting = reason /\ c.restarted
        \/ reason = "OOMKilled" /\ c.last = reason}

Become(n, o) ==
    /\ Change
    /\ object' = [object EXCEPT ![n] = o]
    /\ had' = IF kind[n] = "Pod" /\ o # NoObject
              THEN had \cup ({n} \X RestartSymptoms(o.state)) ELSE had
    /\ UNCHANGED events

\* A Pod starts pending without container statuses, a Deployment without a
\* status for its generation.
Fresh(k, s) == /\ k = "Pod" => s.pending /\ s.containers = {}
               /\ k = "Deployment" => ~s.observed

CreateObject(n) ==
    /\ object[n] = NoObject
    /\ \E s \in States(kind[n]) :
        /\ Fresh(kind[n], s)
        /\ Become(n, [uid |-> changes + 1, state |-> s])

UpdateObject(n) ==
    /\ object[n] # NoObject
    /\ \E s \in States(kind[n]) \ {object[n].state} :
        /\ kind[n] = "Pod" => (s.pending => object[n].state.pending)
        /\ Become(n, [object[n] EXCEPT !.state = s])

DeleteObject(n) == object[n] # NoObject /\ Become(n, NoObject)

FailScheduling(n) ==
    /\ Change
    /\ kind[n] = "Pod" /\ object[n] # NoObject /\ object[n].state.pending
    /\ <<n, object[n].uid>> \notin events
    /\ events' = events \cup {<<n, object[n].uid>>}
    /\ UNCHANGED <<object, had>>

ExpireEvent(e) ==
    /\ Change
    /\ e \in events
    /\ events' = events \ {e}
    /\ UNCHANGED <<object, had>>

(***************************************************************************)
(* Specification.                                                          *)
(***************************************************************************)

\* Nodes have no namespace, so none is excluded.
Init ==
    /\ kind \in [Names -> Kinds]
    /\ object = [n \in Names |-> NoObject] /\ events = {} /\ had = {}
    /\ store = [n \in Names |-> NoObject] /\ eventStore = {}
    /\ notes = [k \in Kinds |-> << >>] /\ eventNotes = << >>
    /\ call = [h \in Handlers |-> Idle]
    /\ resources = [n \in Names |-> {}] /\ counts = [r \in Results |-> 0]
    /\ actions = {}
    /\ excluded \in SUBSET {n \in Names : kind[n] # "Node"}
    /\ changes = 0 /\ restarts = 0

Step(h) ==
    \/ ObserveResults(h)
    \/ \E r \in Results : CreateOk(h, r) \/ CreateError(h, r)

Notified(n) ==
    \/ \E o \in Objects(kind[n]) : Changed(kind[n], n, o)
    \/ Deleted(kind[n], n)
    \/ EventAdded(n)

Agent ==
    \/ \E h \in Handlers : Step(h)
    \/ \E n \in Names : Notified(n) \/ Sync(n) \/ Resync(n)
    \/ \E n \in Names, uid \in 1 .. MaxChanges : SyncEvent(n, uid)
    \/ Restart

Cluster ==
    \/ \E n \in Names :
        CreateObject(n) \/ UpdateObject(n) \/ DeleteObject(n) \/ FailScheduling(n)
    \/ \E e \in events : ExpireEvent(e)

Next == Agent \/ Cluster

Spec == Init /\ [][Next]_vars

\* Handlers run, watches deliver, the resync period comes round for every
\* object, and the API server does not refuse every Create of one Action.
Fairness ==
    /\ \A h \in Handlers : WF_vars(Step(h))
    /\ \A n \in Names, r \in {s \in PodResults : s.action = "PodRestart"} :
        SF_vars(\E h \in {"Pod", "Event"} :
            call[h].pc = "handle" /\ call[h].name = n /\ CreateOk(h, r))
    /\ \A n \in Names :
        /\ WF_vars(\E o \in Objects(kind[n]) : Changed(kind[n], n, o))
        /\ WF_vars(Deleted(kind[n], n))
        /\ WF_vars(EventAdded(n))
        /\ WF_vars(Sync(n))
        /\ SF_vars(Resync(n))
        /\ \A uid \in 1 .. MaxChanges : WF_vars(SyncEvent(n, uid))

FairSpec == Spec /\ Fairness

(***************************************************************************)
(* Properties.                                                             *)
(***************************************************************************)

\* Every variable keeps its shape.
TypeOK ==
    /\ kind \in [Names -> Kinds]
    /\ \A n \in Names : object[n] \in Objects(kind[n]) /\ store[n] \in Objects(kind[n])
    /\ events \subseteq Names \X (1 .. MaxChanges)
    /\ eventStore \subseteq Names \X (1 .. MaxChanges)
    /\ \A k \in Kinds : \A i \in DOMAIN notes[k] :
        \E n \in Names : kind[n] = k /\ notes[k][i] \in {n} \X Objects(k)
    /\ eventNotes \in Seq({n \in Names : kind[n] = "Pod"})
    /\ call \in [Handlers -> Busy \cup {Idle}]
    /\ resources \in [Names -> SUBSET Results]
    /\ counts \in [Results -> 0 .. Cardinality(Names)]
    /\ actions \subseteq Names \X {"CrashLoopBackOff", "OOMKilled"}
    /\ excluded \subseteq Names

\* The active gauge counts each tracked resource once per label, whichever
\* handler observed it last, and never goes below zero.
GaugeCountsTracked ==
    \A r \in Results : counts[r] = Cardinality({n \in Names : r \in resources[n]})

\* Every Action answers a problem its Pod really had, out of stale stores or
\* not: never a Node's, for which no Action is made, nor a first crash.  No
\* Action is created for an excluded namespace or without the flag.
ActionsJustified ==
    \A a \in actions : a \in had /\ AutoPodRestart /\ a[1] \notin excluded

\* Nodes and Deployments have one handler: as soon as it has nothing more to
\* observe, the tracker holds the diagnosis of what is stored, through changes
\* of severity, deletions and restarts.
TrackedIsStored ==
    \A n \in Names : LET k == kind[n] IN
        (k # "Pod" /\ notes[k] = << >> /\ call[k].pc # "observe") =>
            resources[n] = IF store[n] = NoObject THEN {} ELSE Diagnose(n, store[n], {})

\* Once the cluster no longer changes, what is tracked for an existing object
\* becomes and stays its diagnosis: a resync repairs what a slow handler
\* overwrote and what an expired Event left behind.
EventuallyAccurate ==
    \A n \in Names :
        <>[](object[n] # NoObject => resources[n] = Diagnose(n, object[n], events))

\* A problem that lasts gets its Action in the end, though a failed Create is
\* only logged: the next resync asks for it again.
EventuallyRemediated ==
    \A n \in Names, reason \in {"CrashLoopBackOff", "OOMKilled"} :
        <>[](/\ kind[n] = "Pod" /\ n \notin excluded /\ object[n] # NoObject
             /\ reason \in RestartSymptoms(object[n].state))
            => <>(AutoPodRestart => <<n, reason>> \in actions)

Quiet ==
    /\ store = object /\ eventStore = events
    /\ \A k \in Kinds : notes[k] = << >>
    /\ eventNotes = << >>
    /\ \A h \in Handlers : call[h] = Idle

\* The help text of the gauge (metrics.go:17), "Current diagnosed resources":
\* when all handlers are done, no Pod that is gone is counted.
GaugeCountsCurrent ==
    Quiet => \A n \in Names : object[n] = NoObject => resources[n] = {}
=============================================================================
