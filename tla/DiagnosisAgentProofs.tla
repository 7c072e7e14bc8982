------------------------ MODULE DiagnosisAgentProofs ------------------------
(***************************************************************************)
(* Proofs about DiagnosisAgent, for any number of objects, changes and     *)
(* restarts: the safety properties the run "agent" checks.                 *)
(***************************************************************************)
EXTENDS DiagnosisAgent, DetectorsProofs, FiniteSetTheorems, SequenceTheorems, TLAPS

(***************************************************************************)
(* Types.                                                                  *)
(***************************************************************************)

AnyObject == UNION {Objects(k) : k \in Kinds}

\* What may be said of an object of kind k.
Notes(k) == {note \in Names \X AnyObject : kind[note[1]] = k /\ note[2] \in Objects(k)}

PodNames == {n \in Names : kind[n] = "Pod"}

ObjectType ==
    /\ kind \in [Names -> Kinds]
    /\ object \in [Names -> AnyObject] /\ store \in [Names -> AnyObject]
    /\ \A n \in Names : object[n] \in Objects(kind[n]) /\ store[n] \in Objects(kind[n])
    /\ changes \in 0 .. MaxChanges
    /\ excluded \subseteq Names

EventType ==
    /\ events \subseteq PodNames \X (1 .. MaxChanges)
    /\ eventStore \subseteq PodNames \X (1 .. MaxChanges)
    /\ eventNotes \in Seq(PodNames)

NoteType ==
    /\ notes \in [Kinds -> Seq(Names \X AnyObject)]
    /\ \A k \in Kinds : notes[k] \in Seq(Notes(k))

CallType ==
    /\ call \in [Handlers -> Busy \cup {Idle}]
    /\ \A h \in Handlers : call[h] # Idle =>
            kind[call[h].name] = IF h = "Event" THEN "Pod" ELSE h

TrackerType == resources \in [Names -> SUBSET Results]

TypeInv == ObjectType /\ EventType /\ NoteType /\ CallType /\ TrackerType

\* Detectors give results.
LEMMA DiagnoseType ==
    ASSUME TypeInv, NEW n \in Names, NEW o, NEW evs
    PROVE  Diagnose(n, o, evs) \subseteq Results
  <1>1. kind[n] \in Kinds
    BY DEF TypeInv, ObjectType
  <1>2. /\ DiagnosePod(o.state, <<n, o.uid>> \in evs) \subseteq PodResults
        /\ DiagnoseNode(o.state) \subseteq NodeResults
        /\ DiagnoseDeployment(o.state) \subseteq DeploymentResults
    BY DEF DiagnosePod, DiagnoseNode, DiagnoseDeployment
  <1> QED BY <1>1, <1>2 DEF Diagnose, Kinds, Results

\* A handler that is not idle has a name and results.
LEMMA BusyType ==
    ASSUME TypeInv, NEW h \in Handlers, call[h].pc # "idle"
    PROVE  /\ call[h] \in Busy /\ call[h] # Idle
           /\ call[h].name \in Names
           /\ call[h].results \subseteq Results
  <1>1. call[h] \in Busy \cup {Idle}
    BY DEF TypeInv, CallType
  <1>2. call[h] # Idle
    BY DEF Idle
  <1> QED BY <1>1, <1>2 DEF Busy

\* The initial state is well typed.
LEMMA TypeInit ==
    ASSUME Init
    PROVE  TypeInv
  <1>1. NoObject \in AnyObject /\ \A k \in Kinds : NoObject \in Objects(k)
    BY DEF AnyObject, Objects, Kinds
  <1>2. 0 \in 0 .. MaxChanges
    BY ChangesAssumption
  <1>3. kind \in [Names -> Kinds] /\ \A n \in Names : kind[n] \in Kinds
    BY DEF Init
  <1>4. ObjectType
    BY <1>1, <1>2, <1>3 DEF Init, ObjectType
  <1>5. EventType /\ NoteType
    BY DEF Init, EventType, NoteType
  <1>6. CallType /\ TrackerType
    BY DEF Init, CallType, TrackerType
  <1> QED BY <1>4, <1>5, <1>6 DEF TypeInv

\* Types of notifications and names stay when kinds do.
LEMMA KindKept ==
    ASSUME UNCHANGED kind
    PROVE  PodNames' = PodNames /\ \A k : Notes(k)' = Notes(k)
  BY DEF PodNames, Notes

\* A step that leaves objects and their stores alone keeps their types.
LEMMA SameCluster ==
    ASSUME TypeInv, UNCHANGED <<cluster, store>>
    PROVE  ObjectType'
  BY DEF TypeInv, ObjectType, cluster

\* A step that leaves Events and their notifications alone keeps their types.
LEMMA SameEvents ==
    ASSUME TypeInv, UNCHANGED <<kind, events, eventStore, eventNotes>>
    PROVE  EventType'
  BY KindKept DEF TypeInv, EventType

\* A step that leaves the notifications alone keeps their types.
LEMMA SameNotes ==
    ASSUME TypeInv, UNCHANGED <<kind, notes>>
    PROVE  NoteType'
  BY KindKept DEF TypeInv, NoteType

\* A step that leaves the diagnoses in progress alone keeps their types.
LEMMA SameCalls ==
    ASSUME TypeInv, UNCHANGED <<kind, call>>
    PROVE  CallType'
  BY DEF TypeInv, CallType

\* A handler that takes a notification leaves the rest of the queue.
LEMMA TakeNoteType ==
    ASSUME TypeInv, NEW n \in Names, NEW o, TakeNote(kind[n], n, o), UNCHANGED kind
    PROVE  NoteType' /\ o \in Objects(kind[n])
  <1> DEFINE k == kind[n]
  <1>1. k \in Kinds
    BY DEF TypeInv, ObjectType
  <1>2. /\ notes[k] \in Seq(Names \X AnyObject) /\ notes[k] \in Seq(Notes(k))
        /\ notes[k] # << >> /\ Head(notes[k]) = <<n, o>>
    BY <1>1 DEF TypeInv, NoteType, TakeNote
  <1>3. /\ Tail(notes[k]) \in Seq(Names \X AnyObject) /\ Tail(notes[k]) \in Seq(Notes(k))
        /\ Head(notes[k]) \in Notes(k)
    BY <1>2, HeadTailProperties
  <1>4. notes' = [notes EXCEPT ![k] = Tail(@)]
    BY DEF TakeNote
  <1>5. NoteType'
    BY <1>1, <1>3, <1>4, KindKept DEF TypeInv, NoteType
  <1>6. o \in Objects(k)
    BY <1>2, <1>3 DEF Notes
  <1> QED BY <1>5, <1>6

\* A diagnosis begins with the results of a detector.
LEMMA BeginType ==
    ASSUME TypeInv, NEW h \in Handlers, NEW n \in Names, NEW o, BeginDiagnosis(h, n, o),
           UNCHANGED kind, kind[n] = IF h = "Event" THEN "Pod" ELSE h
    PROVE  CallType'
  <1> DEFINE job == [pc |-> "observe", name |-> n, results |-> Diagnose(n, o, eventStore)]
  <1>1. job \in Busy /\ job.name = n
    BY DiagnoseType DEF Busy
  <1>2. call' = [call EXCEPT ![h] = job]
    BY DEF BeginDiagnosis
  <1> HIDE DEF job
  <1> QED BY <1>1, <1>2 DEF TypeInv, CallType

\* A handler that goes on is idle or busy with fewer results of the same object.
LEMMA HandleType ==
    ASSUME TypeInv, NEW h \in Handlers, call[h].pc # "idle",
           NEW results \in SUBSET call[h].results, Handle(h, results), UNCHANGED kind
    PROVE  CallType'
  <1> DEFINE job == IF results = {} THEN Idle
                    ELSE [call[h] EXCEPT !.pc = "handle", !.results = results]
  <1>1. call[h] \in Busy /\ call[h].results \subseteq Results
    BY BusyType
  <1>2. job = Idle \/ (job \in Busy /\ job.name = call[h].name)
    <2>1. CASE results = {}
      BY <2>1
    <2>2. CASE results # {}
      BY <1>1, <2>2 DEF Busy
    <2> QED BY <2>1, <2>2
  <1>3. call' = [call EXCEPT ![h] = job]
    BY DEF Handle
  <1>4. call[h] # Idle
    BY BusyType
  <1> HIDE DEF job
  <1> QED BY <1>2, <1>3, <1>4 DEF TypeInv, CallType

\* What is known of one object may be notified.
LEMMA NoteOfObject ==
    ASSUME TypeInv, NEW n \in Names, NEW o \in Objects(kind[n])
    PROVE  <<n, o>> \in Names \X AnyObject /\ <<n, o>> \in Notes(kind[n])
  <1>1. o \in AnyObject
    BY DEF TypeInv, ObjectType, AnyObject
  <1> QED BY <1>1 DEF Notes

\* The steps of the agent keep the types.
LEMMA TypeAgent ==
    ASSUME TypeInv, Agent
    PROVE  TypeInv'
  <1>1. ASSUME NEW n \in Names, NEW o \in Objects(kind[n]), Changed(kind[n], n, o)
        PROVE  TypeInv'
    <2>1. kind[n] \in Handlers /\ kind[n] # "Event"
      BY DEF TypeInv, ObjectType, Handlers, Kinds
    <2>2. UNCHANGED <<cluster, stores, eventNotes, tracker>>
      BY <1>1 DEF Changed
    <2>3. NoteType'
      BY <1>1, <2>2, TakeNoteType DEF Changed, cluster
    <2>4. CallType'
      BY <1>1, <2>1, <2>2, BeginType DEF Changed, cluster
    <2> QED
      BY <2>2, <2>3, <2>4, SameCluster, SameEvents
      DEF TypeInv, TrackerType, cluster, stores, tracker
  <1>2. ASSUME NEW n \in Names, Deleted(kind[n], n)
        PROVE  TypeInv'
    <2>1. UNCHANGED <<cluster, stores, eventNotes, call>>
      BY <1>2 DEF Deleted
    <2>2. NoteType'
      BY <1>2, <2>1, TakeNoteType DEF Deleted, cluster
    <2>3. TrackerType'
      BY <1>2 DEF Deleted, Observe, TypeInv, TrackerType
    <2> QED
      BY <2>1, <2>2, <2>3, SameCluster, SameEvents, SameCalls DEF TypeInv, cluster, stores
  <1>3. ASSUME NEW n \in Names, EventAdded(n)
        PROVE  TypeInv'
    <2>1. UNCHANGED <<cluster, stores, notes, tracker>>
      BY <1>3 DEF EventAdded
    <2>2. /\ eventNotes \in Seq(PodNames) /\ eventNotes # << >>
          /\ Head(eventNotes) = n /\ eventNotes' = Tail(eventNotes)
      BY <1>3 DEF EventAdded, TypeInv, EventType
    <2>3. n \in PodNames /\ eventNotes' \in Seq(PodNames)
      BY <2>2, HeadTailProperties
    <2>4. EventType'
      BY <2>1, <2>3, KindKept DEF TypeInv, EventType, cluster, stores
    <2>5. CallType'
      <3>1. CASE UNCHANGED call
        BY <2>1, <3>1, SameCalls DEF cluster
      <3>2. CASE BeginDiagnosis("Event", n, store[n])
        BY <2>1, <2>3, <3>2, BeginType DEF Handlers, PodNames, cluster
      <3> QED BY <1>3, <3>1, <3>2 DEF EventAdded
    <2> QED
      BY <2>1, <2>4, <2>5, SameCluster, SameNotes DEF TypeInv, TrackerType, cluster, stores, tracker
  <1>4. ASSUME NEW h \in Handlers, ObserveResults(h)
        PROVE  TypeInv'
    <2>1. UNCHANGED <<cluster, stores, notes, eventNotes>> /\ call[h].pc # "idle"
      BY <1>4 DEF ObserveResults
    <2>2. CallType'
      BY <1>4, <2>1, HandleType DEF ObserveResults, cluster
    <2>3. TrackerType'
      BY <1>4, <2>1, BusyType DEF ObserveResults, Observe, TypeInv, TrackerType
    <2> QED
      BY <2>1, <2>2, <2>3, SameCluster, SameEvents, SameNotes DEF TypeInv, cluster, stores
  <1>5. ASSUME NEW h \in Handlers, NEW r \in Results, CreateOk(h, r) \/ CreateError(h, r)
        PROVE  TypeInv'
    <2>1. Handling(h, r)
      BY <1>5 DEF CreateOk, CreateError
    <2>2. UNCHANGED <<cluster, stores, notes, eventNotes, tracker>> /\ call[h].pc # "idle"
      BY <2>1 DEF Handling
    <2>3. CallType'
      BY <2>1, <2>2, HandleType DEF Handling, cluster
    <2> QED
      BY <2>2, <2>3, SameCluster, SameEvents, SameNotes
      DEF TypeInv, TrackerType, cluster, stores, tracker
  <1>6. ASSUME NEW n \in Names, Sync(n) \/ Resync(n)
        PROVE  TypeInv'
    <2> DEFINE k == kind[n]
    <2>1. k \in Kinds /\ object[n] \in Objects(k) /\ store[n] \in Objects(k)
      BY DEF TypeInv, ObjectType
    <2>2. UNCHANGED <<cluster, eventStore, eventNotes, call, tracker>>
      BY <1>6 DEF Sync, Resync, stores
    <2>3. NoteType'
      <3>1. notes[k] \in Seq(Names \X AnyObject) /\ notes[k] \in Seq(Notes(k))
        BY <2>1 DEF TypeInv, NoteType
      <3>2. PICK s : /\ notes' = [notes EXCEPT ![k] = s]
                     /\ s \in Seq(Names \X AnyObject) /\ s \in Seq(Notes(k))
        <4>1. CASE Sync(n)
          <5> DEFINE s == Append(notes[k], <<n, object[n]>>)
          <5>1. s \in Seq(Names \X AnyObject) /\ s \in Seq(Notes(k))
            BY <2>1, <3>1, NoteOfObject, AppendProperties
          <5>2. notes' = [notes EXCEPT ![k] = s]
            BY <4>1 DEF Sync
          <5> QED BY <5>1, <5>2
        <4>2. CASE Resync(n)
          <5> DEFINE s == << <<n, store[n]>> >>
          <5>1. s \in Seq(Names \X AnyObject) /\ s \in Seq(Notes(k))
            BY <2>1, NoteOfObject
          <5>2. notes' = [notes EXCEPT ![k] = s]
            BY <4>2 DEF Resync
          <5> QED BY <5>1, <5>2
        <4> QED BY <1>6, <4>1, <4>2
      <3> QED BY <2>1, <2>2, <3>2, KindKept DEF TypeInv, NoteType, cluster
    <2>4. ObjectType'
      BY <1>6, <2>1, <2>2 DEF Sync, Resync, TypeInv, ObjectType, cluster, stores
    <2> QED
      BY <2>2, <2>3, <2>4, SameEvents, SameCalls DEF TypeInv, TrackerType, cluster, tracker
  <1>7. ASSUME NEW n \in Names, NEW uid \in 1 .. MaxChanges, SyncEvent(n, uid)
        PROVE  TypeInv'
    <2>1. UNCHANGED <<cluster, store, notes, call, tracker>>
      BY <1>7 DEF SyncEvent
    <2>2. EventType'
      <3>1. CASE /\ <<n, uid>> \in events /\ eventNotes' = Append(eventNotes, n)
                 /\ eventStore' = eventStore \cup {<<n, uid>>}
        <4>1. n \in PodNames /\ eventNotes \in Seq(PodNames)
          BY <3>1 DEF TypeInv, EventType
        <4> QED BY <2>1, <3>1, <4>1, KindKept, AppendProperties DEF TypeInv, EventType, cluster
      <3>2. CASE UNCHANGED eventNotes /\ eventStore' = eventStore \ {<<n, uid>>}
        BY <2>1, <3>2, KindKept DEF TypeInv, EventType, cluster
      <3> QED BY <1>7, <3>1, <3>2 DEF SyncEvent
    <2> QED
      BY <2>1, <2>2, SameCluster, SameNotes, SameCalls DEF TypeInv, TrackerType, cluster, tracker
  <1>8. CASE Restart
    <2>1. UNCHANGED cluster /\ EmptyAgent
      BY <1>8 DEF Restart
    <2>2. NoObject \in AnyObject /\ \A k \in Kinds : NoObject \in Objects(k)
      BY DEF AnyObject, Objects, Kinds
    <2>3. ObjectType'
      BY <2>1, <2>2 DEF EmptyAgent, TypeInv, ObjectType, cluster
    <2>4. EventType' /\ NoteType'
      BY <2>1, KindKept DEF EmptyAgent, TypeInv, EventType, NoteType, cluster
    <2>5. CallType' /\ TrackerType'
      BY <2>1 DEF EmptyAgent, CallType, TrackerType
    <2> QED BY <2>3, <2>4, <2>5 DEF TypeInv
  <1> QED
    BY <1>1, <1>2, <1>3, <1>4, <1>5, <1>6, <1>7, <1>8 DEF Agent, Step, Notified

\* The objects a change may leave under a name.
LEMMA ChangedObjects ==
    ASSUME TypeInv, NEW n \in Names,
           CreateObject(n) \/ UpdateObject(n) \/ DeleteObject(n)
    PROVE  \E o \in Objects(kind[n]) : Become(n, o)
  <1>1. changes < MaxChanges
    BY DEF CreateObject, UpdateObject, DeleteObject, Become, Change
  <1>2. object[n] \in Objects(kind[n])
    BY DEF TypeInv, ObjectType
  <1>3. CASE CreateObject(n)
    <2>1. PICK s \in States(kind[n]) : Become(n, [uid |-> changes + 1, state |-> s])
      BY <1>3 DEF CreateObject
    <2>2. changes + 1 \in 1 .. MaxChanges
      BY <1>1, ChangesAssumption DEF TypeInv, ObjectType
    <2>3. [uid |-> changes + 1, state |-> s] \in Objects(kind[n])
      BY <2>2 DEF Objects
    <2> QED BY <2>1, <2>3
  <1>4. CASE UpdateObject(n)
    <2>1. PICK s \in States(kind[n]) : Become(n, [object[n] EXCEPT !.state = s])
      BY <1>4 DEF UpdateObject
    <2>2. object[n] \in [uid : 1 .. MaxChanges, state : States(kind[n])]
      BY <1>2, <1>4 DEF UpdateObject, Objects
    <2>3. [object[n] EXCEPT !.state = s] \in [uid : 1 .. MaxChanges, state : States(kind[n])]
      BY <2>2
    <2>4. [object[n] EXCEPT !.state = s] \in Objects(kind[n])
      BY <2>3 DEF Objects
    <2> QED BY <2>1, <2>4
  <1>5. CASE DeleteObject(n)
    BY <1>5 DEF DeleteObject, Objects
  <1> QED BY <1>3, <1>4, <1>5

\* The steps of the cluster keep the types.
LEMMA TypeCluster ==
    ASSUME TypeInv, Cluster
    PROVE  TypeInv'
  <1>1. Change
    BY DEF Cluster, CreateObject, UpdateObject, DeleteObject, Become, FailScheduling, ExpireEvent
  <1>2. /\ UNCHANGED <<kind, stores, notes, eventNotes, call, tracker, excluded>>
        /\ changes' \in 0 .. MaxChanges
    BY <1>1, ChangesAssumption DEF Change, TypeInv, ObjectType
  <1>3. NoteType' /\ CallType' /\ TrackerType'
    BY <1>2, SameNotes, SameCalls DEF TypeInv, TrackerType, tracker
  <1>4. ASSUME NEW n \in Names, CreateObject(n) \/ UpdateObject(n) \/ DeleteObject(n)
        PROVE  ObjectType' /\ EventType'
    <2>1. PICK o \in Objects(kind[n]) : Become(n, o)
      BY <1>4, ChangedObjects
    <2>2. o \in AnyObject
      BY DEF TypeInv, ObjectType, AnyObject
    <2>3. object' = [object EXCEPT ![n] = o] /\ UNCHANGED events
      BY <2>1 DEF Become
    <2>4. ObjectType'
      BY <1>2, <2>2, <2>3 DEF TypeInv, ObjectType, stores
    <2>5. EventType'
      BY <1>2, <2>3, SameEvents DEF stores
    <2> QED BY <2>4, <2>5
  <1>5. ASSUME NEW n \in Names, FailScheduling(n)
        PROVE  ObjectType' /\ EventType'
    <2>1. object[n] \in Objects(kind[n]) /\ object[n] # NoObject
      BY <1>5 DEF FailScheduling, TypeInv, ObjectType
    <2>2. object[n].uid \in 1 .. MaxChanges /\ n \in PodNames
      BY <1>5, <2>1 DEF FailScheduling, Objects, PodNames
    <2>3. ObjectType'
      BY <1>2, <1>5 DEF FailScheduling, TypeInv, ObjectType, stores
    <2>4. events' = events \cup {<<n, object[n].uid>>}
      BY <1>5 DEF FailScheduling
    <2>5. EventType'
      BY <1>2, <2>2, <2>4, KindKept DEF TypeInv, EventType, stores
    <2> QED BY <2>3, <2>5
  <1>6. ASSUME NEW e \in events, ExpireEvent(e)
        PROVE  ObjectType' /\ EventType'
    <2>1. ObjectType'
      BY <1>2, <1>6 DEF ExpireEvent, TypeInv, ObjectType, stores
    <2>2. EventType'
      BY <1>2, <1>6, KindKept DEF ExpireEvent, TypeInv, EventType, stores
    <2> QED BY <2>1, <2>2
  <1> QED
    BY <1>3, <1>4, <1>5, <1>6 DEF Cluster, TypeInv

\* Types are kept by every step.
LEMMA TypeNext ==
    ASSUME TypeInv, [Next]_vars
    PROVE  TypeInv'
  <1>1. CASE UNCHANGED vars
    BY <1>1, SameCluster, SameEvents, SameNotes, SameCalls
    DEF vars, cluster, stores, tracker, TypeInv, TrackerType
  <1> QED BY <1>1, TypeAgent, TypeCluster DEF Next

(***************************************************************************)
(* The gauge.                                                              *)
(***************************************************************************)

Holders(r) == {n \in Names : r \in resources[n]}

GaugeInv == counts \in [Results -> Int] /\ GaugeCountsTracked

\* The labels of a resource are counted out and in again.
LEMMA ObserveCounts ==
    ASSUME TypeInv, GaugeInv, NEW n \in Names, NEW results \in SUBSET Results,
           Observe(n, results)
    PROVE  GaugeInv'
  <1>1. /\ resources' = [resources EXCEPT ![n] = results]
        /\ counts' = [r \in Results |->
                        counts[r] - (IF r \in resources[n] THEN 1 ELSE 0)
                                  + (IF r \in results THEN 1 ELSE 0)]
    BY DEF Observe
  <1>2. counts' \in [Results -> Int]
    BY <1>1 DEF GaugeInv
  <1>3. ASSUME NEW r \in Results
        PROVE  counts'[r] = Cardinality(Holders(r)')
    <2>1. IsFiniteSet(Holders(r))
      BY NamesAssumption, FS_Subset DEF Holders
    <2>2. counts[r] = Cardinality(Holders(r)) /\ counts[r] \in Int
      BY DEF GaugeInv, GaugeCountsTracked, Holders
    <2>3. /\ n \in Holders(r) <=> r \in resources[n]
          /\ Holders(r)' = IF r \in results THEN Holders(r) \cup {n} ELSE Holders(r) \ {n}
      BY <1>1 DEF Holders, TypeInv, TrackerType
    <2>4. /\ Cardinality(Holders(r) \cup {n}) =
                IF n \in Holders(r) THEN Cardinality(Holders(r)) ELSE Cardinality(Holders(r)) + 1
          /\ Cardinality(Holders(r) \ {n}) =
                IF n \in Holders(r) THEN Cardinality(Holders(r)) - 1 ELSE Cardinality(Holders(r))
      BY <2>1, FS_AddElement, FS_RemoveElement
    <2>5. counts'[r] = counts[r] - (IF r \in resources[n] THEN 1 ELSE 0)
                                 + (IF r \in results THEN 1 ELSE 0)
      BY <1>1
    <2> QED BY <2>2, <2>3, <2>4, <2>5
  <1> QED BY <1>2, <1>3 DEF GaugeInv, GaugeCountsTracked, Holders

\* Only ObserveResource and a restart touch the tracker.
LEMMA GaugeNext ==
    ASSUME TypeInv, GaugeInv, [Next]_vars
    PROVE  GaugeInv'
  <1>1. CASE UNCHANGED tracker
    BY <1>1 DEF tracker, GaugeInv, GaugeCountsTracked
  <1>2. ASSUME NEW n \in Names, Deleted(kind[n], n)
        PROVE  GaugeInv'
    BY <1>2, ObserveCounts DEF Deleted
  <1>3. ASSUME NEW h \in Handlers, ObserveResults(h)
        PROVE  GaugeInv'
    BY <1>3, BusyType, ObserveCounts DEF ObserveResults
  <1>4. CASE Restart
    <2>1. resources' = [n \in Names |-> {}] /\ counts' = [r \in Results |-> 0]
      BY <1>4 DEF Restart, EmptyAgent
    <2>2. Cardinality({}) = 0
      BY FS_EmptySet
    <2>3. \A r \in Results : {n \in Names : r \in resources'[n]} = {}
      BY <2>1
    <2>4. counts' \in [Results -> Int] /\ \A r \in Results : counts'[r] = 0
      BY <2>1
    <2>5. GaugeCountsTracked'
      BY <2>2, <2>3, <2>4, Zenon DEF GaugeCountsTracked
    <2> QED BY <2>4, <2>5 DEF GaugeInv
  <1>5. CASE UNCHANGED vars
    BY <1>1, <1>5 DEF vars
  <1>6. CASE Cluster
    BY <1>1, <1>6 DEF Cluster, CreateObject, UpdateObject, DeleteObject, Become,
                      FailScheduling, ExpireEvent, Change
  <1>7. CASE Agent
    <2>1. ASSUME NEW n \in Names, NEW o, Changed(kind[n], n, o)
          PROVE  UNCHANGED tracker
      BY <2>1 DEF Changed
    <2>2. ASSUME NEW n \in Names, EventAdded(n) \/ Sync(n) \/ Resync(n)
          PROVE  UNCHANGED tracker
      BY <2>2 DEF EventAdded, Sync, Resync
    <2>3. ASSUME NEW n \in Names, NEW uid, SyncEvent(n, uid)
          PROVE  UNCHANGED tracker
      BY <2>3 DEF SyncEvent
    <2>4. ASSUME NEW h \in Handlers, NEW r, CreateOk(h, r) \/ CreateError(h, r)
          PROVE  UNCHANGED tracker
      BY <2>4 DEF CreateOk, CreateError, Handling
    <2> QED
      BY <1>1, <1>2, <1>3, <1>4, <1>7, <2>1, <2>2, <2>3, <2>4 DEF Agent, Step, Notified
  <1> QED BY <1>5, <1>6, <1>7 DEF Next

\* Nothing is tracked at first.
LEMMA GaugeInit ==
    ASSUME Init
    PROVE  GaugeInv
  <1>1. Cardinality({}) = 0
    BY FS_EmptySet
  <1>2. resources = [n \in Names |-> {}] /\ counts = [r \in Results |-> 0]
    BY DEF Init
  <1>3. \A r \in Results : {n \in Names : r \in resources[n]} = {}
    BY <1>2
  <1> QED BY <1>1, <1>2, <1>3 DEF GaugeInv, GaugeCountsTracked

(***************************************************************************)
(* The Actions.                                                            *)
(***************************************************************************)

\* Pod n did have the problems that o shows.
Seen(n, o) ==
    (kind[n] = "Pod" /\ o # NoObject) =>
        \A reason \in RestartSymptoms(o.state) : <<n, reason>> \in had

SeenObjects == \A n \in Names : Seen(n, object[n]) /\ Seen(n, store[n])

SeenNotes ==
    \A k \in Kinds : \A i \in 1 .. Len(notes[k]) : Seen(notes[k][i][1], notes[k][i][2])

SeenResults ==
    \A h \in Handlers : \A r \in call[h].results :
        /\ r.action = "PodRestart" => <<call[h].name, r.reason>> \in had
        /\ call[h].pc = "handle" => ShouldCreate(call[h].name, r)

HadType == had \subseteq Names \X {"CrashLoopBackOff", "OOMKilled"}

JustInv == SeenObjects /\ SeenNotes /\ SeenResults /\ ActionsJustified

\* A restart is suggested only of a Pod, for a symptom it shows.
LEMMA SuggestedIsSeen ==
    ASSUME TypeInv, NEW n \in Names, NEW o, Seen(n, o), o # NoObject, NEW evs,
           NEW r \in Diagnose(n, o, evs), r.action = "PodRestart"
    PROVE  <<n, r.reason>> \in had
  <1>1. kind[n] \in Kinds
    BY DEF TypeInv, ObjectType
  <1>2. kind[n] # "Node"
    BY SuggestedActions DEF Diagnose, DiagnoseNode
  <1>3. kind[n] # "Deployment"
    BY SuggestedActions DEF Diagnose, DiagnoseDeployment
  <1>4. kind[n] = "Pod"
    BY <1>1, <1>2, <1>3 DEF Kinds
  <1>5. r \in DiagnosePod(o.state, <<n, o.uid>> \in evs)
    BY <1>4 DEF Diagnose
  <1>6. r.reason \in RestartSymptoms(o.state)
    BY <1>5, RestartReason DEF RestartSymptoms, Crashing
  <1> QED BY <1>4, <1>6 DEF Seen

\* Of the results, the policy makes Actions only of suggested PodRestarts.
LEMMA CreatedIsRestart ==
    ASSUME NEW n, NEW r \in Results, ShouldCreate(n, r)
    PROVE  r.action = "PodRestart" /\ AutoPodRestart /\ n \notin excluded
  BY SuggestedActions DEF ShouldCreate, ShouldAutoCreate, Results

\* What was seen of one object stays seen.
LEMMA SeenKept ==
    ASSUME UNCHANGED kind, had \subseteq had', NEW n, NEW o, Seen(n, o)
    PROVE  Seen(n, o)'
  BY DEF Seen

\* Objects and stores that stay were seen before.
LEMMA SameObjectsSeen ==
    ASSUME JustInv, UNCHANGED <<kind, object, store>>, had \subseteq had'
    PROVE  SeenObjects'
  BY DEF JustInv, SeenObjects, Seen

\* Notifications that stay were seen before.
LEMMA SameNotesSeen ==
    ASSUME JustInv, UNCHANGED <<kind, notes>>, had \subseteq had'
    PROVE  SeenNotes'
  BY DEF JustInv, SeenNotes, Seen

\* Diagnoses in progress that stay were seen before.
LEMMA SameResultsSeen ==
    ASSUME JustInv, UNCHANGED <<kind, call, excluded>>, had \subseteq had'
    PROVE  SeenResults'
  BY DEF JustInv, SeenResults, ShouldCreate

\* Actions that stay were justified before.
LEMMA SameActionsJust ==
    ASSUME JustInv, UNCHANGED <<actions, excluded>>, had \subseteq had'
    PROVE  ActionsJustified'
  BY DEF JustInv, ActionsJustified

\* Notifications seen before a step are seen after it.
LEMMA NotesStaySeen ==
    ASSUME \A k \in Kinds : \A i \in 1 .. Len(notes'[k]) : Seen(notes'[k][i][1], notes'[k][i][2]),
           UNCHANGED kind, had \subseteq had'
    PROVE  SeenNotes'
  BY DEF SeenNotes, Seen

\* What is left of a queue was seen, and so was what is taken.
LEMMA TakeNoteSeen ==
    ASSUME TypeInv, JustInv, NEW n \in Names, NEW o, TakeNote(kind[n], n, o),
           UNCHANGED <<kind, had>>
    PROVE  SeenNotes' /\ Seen(n, o)
  <1> DEFINE k == kind[n]
  <1>1. k \in Kinds
    BY DEF TypeInv, ObjectType
  <1>2. /\ notes[k] \in Seq(Names \X AnyObject) /\ notes[k] # << >>
        /\ Head(notes[k]) = <<n, o>> /\ notes' = [notes EXCEPT ![k] = Tail(notes[k])]
    BY <1>1 DEF TypeInv, NoteType, TakeNote
  <1>3. \A i \in 1 .. Len(notes[k]) : Seen(notes[k][i][1], notes[k][i][2])
    BY <1>1 DEF JustInv, SeenNotes
  <1>4. Seen(n, o)
    <2>1. notes[k][1] = <<n, o>> /\ 1 \in 1 .. Len(notes[k])
      BY <1>2
    <2> QED BY <1>3, <2>1
  <1>5. ASSUME NEW i \in 1 .. Len(Tail(notes[k]))
        PROVE  Seen(Tail(notes[k])[i][1], Tail(notes[k])[i][2])
    <2>1. i + 1 \in 1 .. Len(notes[k]) /\ Tail(notes[k])[i] = notes[k][i + 1]
      BY <1>2, HeadTailProperties
    <2> QED BY <1>3, <2>1
  <1>6. ASSUME NEW l \in Kinds, NEW i \in 1 .. Len(notes'[l])
        PROVE  Seen(notes'[l][i][1], notes'[l][i][2])
    <2>1. CASE l = k
      <3>1. notes'[l] = Tail(notes[k])
        BY <1>1, <1>2, <2>1 DEF TypeInv, NoteType
      <3> QED BY <1>5, <1>6, <3>1
    <2>2. CASE l # k
      <3>1. notes'[l] = notes[l]
        BY <1>2, <2>2 DEF TypeInv, NoteType
      <3> QED BY <1>6, <3>1 DEF JustInv, SeenNotes
    <2> QED BY <2>1, <2>2
  <1> QED BY <1>4, <1>6, NotesStaySeen

\* A diagnosis of something seen gives results that were seen.
LEMMA BeginSeen ==
    ASSUME TypeInv, JustInv, NEW h \in Handlers, NEW n \in Names, NEW o, o # NoObject,
           Seen(n, o), BeginDiagnosis(h, n, o), UNCHANGED <<kind, had, excluded>>
    PROVE  SeenResults'
  <1> DEFINE job == [pc |-> "observe", name |-> n, results |-> Diagnose(n, o, eventStore)]
  <1>1. \A r \in job.results : r.action = "PodRestart" => <<job.name, r.reason>> \in had
    BY SuggestedIsSeen
  <1>2. call' = [call EXCEPT ![h] = job] /\ job.pc = "observe"
    BY DEF BeginDiagnosis
  <1> HIDE DEF job
  <1>3. call \in [Handlers -> Busy \cup {Idle}]
    BY DEF TypeInv, CallType
  <1>4. ASSUME NEW g \in Handlers, NEW r \in call'[g].results
        PROVE  /\ r.action = "PodRestart" => <<call'[g].name, r.reason>> \in had
               /\ call'[g].pc = "handle" => ShouldCreate(call'[g].name, r)
    BY <1>1, <1>2, <1>3 DEF JustInv, SeenResults
  <1> QED BY <1>4 DEF SeenResults, ShouldCreate

\* The results still to be handled were seen, and the policy wants them.
LEMMA HandleSeen ==
    ASSUME TypeInv, JustInv, NEW h \in Handlers, call[h].pc # "idle",
           NEW results \in SUBSET call[h].results,
           \A r \in results : ShouldCreate(call[h].name, r),
           Handle(h, results), UNCHANGED <<kind, had, excluded>>
    PROVE  SeenResults'
  <1> DEFINE job == IF results = {} THEN Idle
                    ELSE [call[h] EXCEPT !.pc = "handle", !.results = results]
  <1>1. call[h] \in Busy
    BY BusyType
  <1>2. job.results = results /\ (results # {} => job.name = call[h].name)
    BY <1>1 DEF Busy, Idle
  <1>3. call' = [call EXCEPT ![h] = job]
    BY DEF Handle
  <1> HIDE DEF job
  <1>4. call \in [Handlers -> Busy \cup {Idle}]
    BY DEF TypeInv, CallType
  <1>5. ASSUME NEW g \in Handlers, NEW r \in call'[g].results
        PROVE  /\ r.action = "PodRestart" => <<call'[g].name, r.reason>> \in had
               /\ call'[g].pc = "handle" => ShouldCreate(call'[g].name, r)
    <2>1. CASE g = h
      <3>1. r \in results /\ call'[g].name = call[h].name
        BY <1>2, <1>3, <1>4, <2>1
      <3> QED BY <3>1 DEF JustInv, SeenResults
    <2>2. CASE g # h
      BY <1>3, <1>4, <2>2 DEF JustInv, SeenResults
    <2> QED BY <2>1, <2>2
  <1> QED BY <1>5 DEF SeenResults, ShouldCreate

\* The handlers keep it.
LEMMA JustHandlers ==
    ASSUME TypeInv, JustInv, NEW h \in Handlers, Step(h)
    PROVE  JustInv'
  <1>1. CASE ObserveResults(h)
    <2>1. UNCHANGED <<cluster, stores, notes, actions>> /\ call[h].pc # "idle"
      BY <1>1 DEF ObserveResults
    <2>2. SeenResults'
      BY <1>1, <2>1, HandleSeen DEF ObserveResults, cluster
    <2> QED
      BY <2>1, <2>2, SameObjectsSeen, SameNotesSeen, SameActionsJust DEF JustInv, cluster, stores
  <1>2. ASSUME NEW r \in Results, CreateOk(h, r) \/ CreateError(h, r)
        PROVE  JustInv'
    <2>1. Handling(h, r)
      BY <1>2 DEF CreateOk, CreateError
    <2>2. UNCHANGED <<cluster, stores, notes>> /\ call[h].pc = "handle" /\ r \in call[h].results
      BY <2>1 DEF Handling
    <2>3. \A q \in call[h].results : ShouldCreate(call[h].name, q)
      BY <2>2 DEF JustInv, SeenResults
    <2>4. SeenResults'
      BY <2>1, <2>2, <2>3, HandleSeen DEF Handling, cluster
    <2>5. ActionsJustified'
      <3>1. CASE UNCHANGED actions
        BY <2>2, <3>1, SameActionsJust DEF cluster
      <3>2. CASE actions' = actions \cup {<<call[h].name, r.reason>>}
        <4>1. r.action = "PodRestart" /\ AutoPodRestart /\ call[h].name \notin excluded
          BY <2>2, <2>3, CreatedIsRestart
        <4>2. <<call[h].name, r.reason>> \in had
          BY <2>2, <4>1 DEF JustInv, SeenResults
        <4>3. UNCHANGED <<had, excluded>>
          BY <2>2 DEF cluster
        <4> QED BY <3>2, <4>1, <4>2, <4>3 DEF JustInv, ActionsJustified
      <3> QED BY <1>2, <3>1, <3>2 DEF CreateOk, CreateError
    <2> QED
      BY <2>2, <2>4, <2>5, SameObjectsSeen, SameNotesSeen DEF JustInv, cluster, stores
  <1> QED BY <1>1, <1>2 DEF Step

\* The handlers that take a notification keep it.
LEMMA JustNotified ==
    ASSUME TypeInv, JustInv, NEW n \in Names, Notified(n)
    PROVE  JustInv'
  <1>1. UNCHANGED <<cluster, stores, actions>>
    BY DEF Notified, Changed, Deleted, EventAdded
  <1>2. SeenObjects' /\ ActionsJustified'
    BY <1>1, SameObjectsSeen, SameActionsJust DEF cluster, stores
  <1>3. ASSUME NEW o, Changed(kind[n], n, o)
        PROVE  SeenNotes' /\ SeenResults'
    <2>1. kind[n] \in Handlers
      BY DEF TypeInv, ObjectType, Handlers
    <2>2. SeenNotes' /\ Seen(n, o)
      BY <1>1, <1>3, TakeNoteSeen DEF Changed, cluster
    <2> QED BY <1>1, <1>3, <2>1, <2>2, BeginSeen DEF Changed, cluster
  <1>4. CASE Deleted(kind[n], n)
    BY <1>1, <1>2, <1>4, TakeNoteSeen, SameResultsSeen DEF Deleted, JustInv, cluster
  <1>5. CASE EventAdded(n)
    <2>1. SeenNotes'
      BY <1>1, <1>5, SameNotesSeen DEF EventAdded, cluster
    <2>2. CASE UNCHANGED call
      BY <1>1, <1>2, <2>1, <2>2, SameResultsSeen DEF JustInv, cluster
    <2>3. CASE store[n] # NoObject /\ BeginDiagnosis("Event", n, store[n])
      <3>1. Seen(n, store[n]) /\ "Event" \in Handlers
        BY DEF JustInv, SeenObjects, Handlers
      <3> QED BY <1>1, <1>2, <2>1, <2>3, <3>1, BeginSeen DEF JustInv, cluster
    <2> QED BY <1>5, <2>2, <2>3 DEF EventAdded
  <1> QED BY <1>2, <1>3, <1>4, <1>5 DEF Notified, JustInv

\* The informers keep it: they pass on what was seen.
LEMMA JustInformers ==
    ASSUME TypeInv, JustInv, NEW n \in Names, Sync(n) \/ Resync(n)
    PROVE  JustInv'
  <1> DEFINE k == kind[n]
  <1>1. UNCHANGED <<cluster, call, actions>>
    BY DEF Sync, Resync
  <1>2. SeenResults' /\ ActionsJustified'
    BY <1>1, SameResultsSeen, SameActionsJust DEF cluster
  <1>3. k \in Kinds /\ Seen(n, object[n]) /\ Seen(n, store[n])
    BY DEF TypeInv, ObjectType, JustInv, SeenObjects
  <1>4. SeenObjects'
    <2>1. \A m \in Names : store'[m] \in {store[m], object[m]}
      BY DEF Sync, Resync, stores, TypeInv, ObjectType
    <2> QED BY <1>1, <2>1 DEF JustInv, SeenObjects, Seen, cluster
  <1>5. notes[k] \in Seq(Names \X AnyObject) /\ notes \in [Kinds -> Seq(Names \X AnyObject)]
    BY <1>3 DEF TypeInv, NoteType
  <1>6. \A i \in 1 .. Len(notes[k]) : Seen(notes[k][i][1], notes[k][i][2])
    BY <1>3 DEF JustInv, SeenNotes
  <1>7. PICK s : /\ notes' = [notes EXCEPT ![k] = s]
                 /\ \A i \in 1 .. Len(s) : Seen(s[i][1], s[i][2])
    <2>1. CASE Sync(n)
      <3> DEFINE s == Append(notes[k], <<n, object[n]>>)
      <3>1. notes' = [notes EXCEPT ![k] = s]
        BY <2>1 DEF Sync
      <3>2. <<n, object[n]>> \in Names \X AnyObject
        BY DEF TypeInv, ObjectType
      <3>3. ASSUME NEW i \in 1 .. Len(s)
            PROVE  Seen(s[i][1], s[i][2])
        <4>1. s[i] = IF i = Len(notes[k]) + 1 THEN <<n, object[n]>> ELSE notes[k][i]
          BY <1>5, <3>2, <3>3, AppendProperties
        <4>2. i # Len(notes[k]) + 1 => i \in 1 .. Len(notes[k])
          BY <1>5, <3>2, <3>3, AppendProperties
        <4> QED BY <1>3, <1>6, <4>1, <4>2
      <3> QED BY <3>1, <3>3
    <2>2. CASE Resync(n)
      <3> DEFINE s == << <<n, store[n]>> >>
      <3>1. notes' = [notes EXCEPT ![k] = s]
        BY <2>2 DEF Resync
      <3>2. \A i \in 1 .. Len(s) : Seen(s[i][1], s[i][2])
        BY <1>3
      <3> QED BY <3>1, <3>2
    <2> QED BY <2>1, <2>2
  <1>8. ASSUME NEW l \in Kinds, NEW i \in 1 .. Len(notes'[l])
        PROVE  Seen(notes'[l][i][1], notes'[l][i][2])
    BY <1>5, <1>7, <1>8 DEF JustInv, SeenNotes
  <1>9. SeenNotes'
    BY <1>1, <1>8, NotesStaySeen DEF cluster
  <1> QED BY <1>2, <1>4, <1>9 DEF JustInv

\* Changes of the cluster keep it: the problems of a Pod are seen at once.
LEMMA JustCluster ==
    ASSUME TypeInv, JustInv, Cluster
    PROVE  JustInv'
  <1>1. Change
    BY DEF Cluster, CreateObject, UpdateObject, DeleteObject, Become, FailScheduling, ExpireEvent
  <1>2. UNCHANGED <<kind, stores, notes, call, actions, excluded>>
    BY <1>1 DEF Change
  <1>3. had \subseteq had'
    BY DEF Cluster, CreateObject, UpdateObject, DeleteObject, Become, FailScheduling, ExpireEvent
  <1>4. SeenNotes' /\ SeenResults' /\ ActionsJustified'
    BY <1>2, <1>3, SameNotesSeen, SameResultsSeen, SameActionsJust
  <1>5. ASSUME NEW n \in Names, CreateObject(n) \/ UpdateObject(n) \/ DeleteObject(n)
        PROVE  SeenObjects'
    <2>1. PICK o : Become(n, o)
      BY <1>5 DEF CreateObject, UpdateObject, DeleteObject
    <2>2. /\ object' = [object EXCEPT ![n] = o]
          /\ (kind[n] = "Pod" /\ o # NoObject) => had' = had \cup ({n} \X RestartSymptoms(o.state))
      BY <2>1 DEF Become
    <2>3. Seen(n, o)'
      BY <1>2, <2>2, Zenon DEF Seen
    <2>4. \A m \in Names : object'[m] = IF m = n THEN o ELSE object[m]
      BY <2>2 DEF TypeInv, ObjectType
    <2>5. ASSUME NEW m \in Names
          PROVE  Seen(m, object[m])' /\ Seen(m, store[m])'
      <3>1. Seen(m, object[m]) /\ Seen(m, store[m])
        BY DEF JustInv, SeenObjects
      <3>2. Seen(m, object[m])'
        BY <1>2, <1>3, <2>3, <2>4, <3>1 DEF Seen
      <3>3. Seen(m, store[m])'
        BY <1>2, <1>3, <3>1 DEF Seen, stores
      <3> QED BY <3>2, <3>3
    <2> QED BY <2>5 DEF SeenObjects
  <1>6. ASSUME UNCHANGED object
        PROVE  SeenObjects'
    BY <1>2, <1>3, <1>6, SameObjectsSeen DEF stores
  <1>7. SeenObjects'
    BY <1>5, <1>6 DEF Cluster, FailScheduling, ExpireEvent
  <1> QED BY <1>4, <1>7 DEF JustInv

\* Every step keeps it.
LEMMA JustNext ==
    ASSUME TypeInv, JustInv, [Next]_vars
    PROVE  JustInv'
  <1>1. ASSUME NEW n, NEW uid, SyncEvent(n, uid)
        PROVE  JustInv'
    BY <1>1, SameObjectsSeen, SameNotesSeen, SameResultsSeen, SameActionsJust
    DEF SyncEvent, JustInv, cluster
  <1>2. CASE Restart
    <2>1. UNCHANGED <<cluster, actions>> /\ EmptyAgent
      BY <1>2 DEF Restart
    <2>2. SeenObjects'
      BY <2>1 DEF EmptyAgent, JustInv, SeenObjects, Seen, cluster
    <2>3. SeenNotes'
      BY <2>1 DEF EmptyAgent, SeenNotes
    <2>4. SeenResults'
      BY <2>1 DEF EmptyAgent, SeenResults, Idle
    <2>5. ActionsJustified'
      BY <2>1, SameActionsJust DEF cluster
    <2> QED BY <2>2, <2>3, <2>4, <2>5 DEF JustInv
  <1>3. CASE UNCHANGED vars
    BY <1>3, SameObjectsSeen, SameNotesSeen, SameResultsSeen, SameActionsJust
    DEF vars, JustInv, cluster, stores
  <1> QED
    BY <1>1, <1>2, <1>3, JustHandlers, JustNotified, JustInformers, JustCluster DEF Next, Agent

\* At first nothing was said of any object.
LEMMA JustInit ==
    ASSUME Init
    PROVE  JustInv
  <1>1. SeenObjects
    BY DEF Init, SeenObjects, Seen
  <1>2. SeenNotes
    BY DEF Init, SeenNotes
  <1>3. SeenResults
    BY DEF Init, SeenResults, Idle
  <1> QED BY <1>1, <1>2, <1>3 DEF Init, JustInv, ActionsJustified

\* The problems that were seen are some a restart may answer.
LEMMA HadInit == Init => HadType
  BY DEF Init, HadType

\* Only changes of Pods add to them.
LEMMA HadNext ==
    ASSUME TypeInv, HadType, [Next]_vars
    PROVE  HadType'
  <1>1. CASE UNCHANGED had
    BY <1>1 DEF HadType
  <1>2. ASSUME NEW n \in Names, NEW o, Become(n, o)
        PROVE  HadType'
    BY <1>2 DEF Become, HadType, RestartSymptoms
  <1>3. CASE Cluster
    BY <1>1, <1>2, <1>3
    DEF Cluster, CreateObject, UpdateObject, DeleteObject, FailScheduling, ExpireEvent
  <1>4. CASE Agent
    <2>1. UNCHANGED cluster
      BY <1>4 DEF Agent, Step, Notified, Changed, Deleted, EventAdded, ObserveResults,
                  CreateOk, CreateError, Handling, Sync, Resync, SyncEvent, Restart
    <2> QED BY <1>1, <2>1 DEF cluster
  <1>5. CASE UNCHANGED vars
    BY <1>1, <1>5 DEF vars, cluster
  <1> QED BY <1>3, <1>4, <1>5 DEF Next

(***************************************************************************)
(* The tracker and the stores.  What the queue of a handler still says of  *)
(* a Node or Deployment ends with what is stored; with nothing left to say *)
(* of it, the diagnosis of what is stored is tracked or about to be.       *)
(***************************************************************************)

Stored(n) == IF store[n] = NoObject THEN {} ELSE Diagnose(n, store[n], {})

About(n) == {i \in 1 .. Len(notes[kind[n]]) : notes[kind[n]][i][1] = n}

LastNote(n) ==
    \A i \in About(n) : (\A j \in About(n) : j <= i) => notes[kind[n]][i][2] = store[n]

Observing(n) == call[kind[n]].pc = "observe" /\ call[kind[n]].name = n

Settled(n) ==
    About(n) = {} => IF Observing(n) THEN call[kind[n]].results = Stored(n)
                     ELSE resources[n] = Stored(n)

StoredInv == \A n \in Names : kind[n] # "Pod" => LastNote(n) /\ Settled(n)

\* What does not touch an object, its queue or its handler keeps it.
LEMMA StoredSame ==
    ASSUME TypeInv, StoredInv, NEW n \in Names, kind[n] # "Pod", UNCHANGED kind,
           store'[n] = store[n], notes'[kind[n]] = notes[kind[n]],
           \/ call'[kind[n]] = call[kind[n]]
           \/ call[kind[n]].pc # "observe" /\ call'[kind[n]].pc # "observe",
           resources'[n] = resources[n]
    PROVE  LastNote(n)' /\ Settled(n)'
  <1>1. LastNote(n) /\ Settled(n)
    BY DEF StoredInv
  <1>2. /\ About(n)' = About(n)
        /\ Observing(n)' <=> Observing(n)
        /\ Observing(n) => call'[kind[n]] = call[kind[n]]
    BY DEF About, Observing
  <1>3. Stored(n)' = Stored(n)
    BY DEF Stored, Diagnose
  <1>4. LastNote(n)'
    BY <1>1, <1>2 DEF LastNote
  <1>5. Settled(n)'
    BY <1>1, <1>2, <1>3 DEF Settled
  <1> QED BY <1>4, <1>5

\* Events do not matter to the diagnosis of a Node or Deployment.
LEMMA StoredIsDiagnosis ==
    ASSUME TypeInv, NEW n \in Names, kind[n] # "Pod", store[n] # NoObject, NEW evs
    PROVE  Stored(n) = Diagnose(n, store[n], evs)
  <1>1. kind[n] = "Node" \/ kind[n] = "Deployment"
    BY DEF TypeInv, ObjectType, Kinds
  <1> QED BY <1>1 DEF Stored, Diagnose

\* Taking a notification of n: it keeps what the queue says of the others, and
\* what is left of it ends with the store; if nothing is left of n, it was taken.
LEMMA NoteTaken ==
    ASSUME TypeInv, StoredInv, NEW n \in Names, NEW o, TakeNote(kind[n], n, o),
           NEW m \in Names, kind[m] = kind[n], kind[n] # "Pod", UNCHANGED <<kind, store>>
    PROVE  /\ LastNote(m)'
           /\ About(m)' = {} => IF m = n THEN o = store[n] ELSE About(m) = {}
  <1> DEFINE k == kind[n]
             q == notes[k]
             A == {i \in 1 .. Len(q) : q[i][1] = m}
             t == Tail(q)
             B == {i \in 1 .. Len(t) : t[i][1] = m}
  <1>1. k \in Kinds /\ q \in Seq(Names \X AnyObject) /\ q # << >>
    BY DEF TypeInv, ObjectType, NoteType, TakeNote
  <1>2. /\ Len(q) \in Nat \ {0} /\ Len(t) = Len(q) - 1
        /\ \A i \in 1 .. Len(t) : t[i] = q[i + 1]
    BY <1>1, HeadTailProperties
  <1>3. q[1] = <<n, o>>
    BY <1>1 DEF TakeNote
  <1>4. notes'[k] = t
    BY <1>1 DEF TakeNote, TypeInv, NoteType
  <1>5. About(m) = A /\ About(m)' = B
    BY <1>4 DEF About
  <1>6. \A i \in A : (\A j \in A : j <= i) => q[i][2] = store[m]
    BY <1>5 DEF StoredInv, LastNote
  <1>7. \A i \in B : i + 1 \in A /\ i \in Nat
    BY <1>2
  <1>8. \A j \in A : j = 1 \/ j - 1 \in B
    BY <1>2
  <1>9. ASSUME NEW i \in B, \A j \in B : j <= i
        PROVE  t[i][2] = store[m]
    <2>1. \A j \in A : j <= i + 1
      <3> SUFFICES ASSUME NEW j \in A, j # 1
                   PROVE  j <= i + 1
        BY <1>7
      <3>1. j - 1 \in B
        BY <1>8
      <3>2. j - 1 <= i
        BY <1>9, <3>1
      <3> QED BY <1>2, <1>7, <3>2
    <2>2. q[i + 1][2] = store[m]
      BY <1>6, <1>7, <2>1
    <2> QED BY <1>2, <2>2
  <1>10. LastNote(m)'
    <2>1. \A i \in About(m)' : (\A j \in About(m)' : j <= i) => notes'[kind'[m]][i][2] = store'[m]
      BY <1>4, <1>5, <1>9
    <2> QED BY <2>1 DEF LastNote
  <1>11. ASSUME B = {}
         PROVE  IF m = n THEN o = store[n] ELSE A = {}
    <2>1. A \subseteq {1}
      BY <1>8, <1>11
    <2>2. CASE m = n
      <3>1. 1 \in A
        BY <1>2, <1>3, <2>2
      <3>2. q[1][2] = store[n]
        BY <1>6, <2>1, <2>2, <3>1
      <3> QED BY <1>3, <2>2, <3>2
    <2>3. CASE m # n
      BY <1>3, <2>1, <2>3
    <2> QED BY <2>2, <2>3
  <1> QED BY <1>5, <1>10, <1>11

\* A handler that takes what its queue says of n diagnoses it or forgets it.
LEMMA StoredNoted ==
    ASSUME TypeInv, StoredInv, NEW n \in Names,
           (\E o \in Objects(kind[n]) : Changed(kind[n], n, o)) \/ Deleted(kind[n], n)
    PROVE  StoredInv'
  <1> DEFINE k == kind[n]
  <1>1. PICK o : /\ TakeNote(k, n, o)
                 /\ \/ o # NoObject /\ BeginDiagnosis(k, n, o) /\ UNCHANGED tracker
                    \/ o = NoObject /\ Observe(n, {}) /\ UNCHANGED call
    BY DEF Changed, Deleted
  <1>2. UNCHANGED <<kind, store>>
    BY DEF Changed, Deleted, cluster, stores
  <1>3. k \in Kinds /\ k \in Handlers /\ call[k].pc = "idle"
    BY <1>1 DEF TypeInv, ObjectType, Handlers, TakeNote, Idle
  <1>4. /\ \A l \in Kinds \ {k} : notes'[l] = notes[l] /\ call'[l] = call[l]
        /\ \A m \in Names \ {n} : resources'[m] = resources[m]
    <2>1. /\ DOMAIN notes = Kinds /\ notes' = [notes EXCEPT ![k] = Tail(@)]
          /\ \A l \in Kinds : l \in Handlers
      BY <1>1 DEF TakeNote, TypeInv, NoteType, Handlers
    <2>2. \A l \in Handlers \ {k} : call'[l] = call[l]
      BY <1>1 DEF BeginDiagnosis, TypeInv, CallType
    <2>3. \A m \in Names \ {n} : resources'[m] = resources[m]
      BY <1>1 DEF Observe, tracker, TypeInv, TrackerType
    <2> QED BY <2>1, <2>2, <2>3
  <1> SUFFICES ASSUME NEW m \in Names, kind[m] # "Pod"
               PROVE  LastNote(m)' /\ Settled(m)'
    BY <1>2 DEF StoredInv
  <1>5. kind[m] \in Kinds
    BY DEF TypeInv, ObjectType
  <1>6. CASE kind[m] # k
    BY <1>2, <1>4, <1>5, <1>6, StoredSame
  <1>7. CASE kind[m] = k
    <2>1. /\ LastNote(m)'
          /\ About(m)' = {} => IF m = n THEN o = store[n] ELSE About(m) = {}
      BY <1>1, <1>2, <1>7, NoteTaken
    <2>2. Stored(m)' = Stored(m)
      BY <1>2 DEF Stored, Diagnose
    <2>3. ASSUME About(m)' = {}, m = n
          PROVE  IF Observing(m)' THEN call'[k].results = Stored(m) ELSE resources'[m] = Stored(m)
      <3>1. o = store[n]
        BY <2>1, <2>3
      <3>2. CASE o # NoObject
        <4>1. call'[k] = [pc |-> "observe", name |-> n, results |-> Diagnose(n, o, eventStore)]
          BY <1>1, <1>3, <3>2 DEF BeginDiagnosis, TypeInv, CallType
        <4>2. Observing(m)'
          BY <1>2, <2>3, <4>1 DEF Observing
        <4>3. Diagnose(n, o, eventStore) = Stored(m)
          BY <1>7, <2>3, <3>1, <3>2, StoredIsDiagnosis
        <4> QED BY <4>1, <4>2, <4>3
      <3>3. CASE o = NoObject
        <4>1. ~Observing(m)'
          BY <1>1, <1>2, <1>3, <1>7, <3>3 DEF Observing
        <4>2. resources'[m] = {}
          BY <1>1, <2>3, <3>3 DEF Observe, TypeInv, TrackerType
        <4> QED BY <2>3, <3>1, <3>3, <4>1, <4>2 DEF Stored
      <3> QED BY <3>2, <3>3
    <2>4. ASSUME About(m)' = {}, m # n
          PROVE  ~Observing(m)' /\ resources'[m] = Stored(m)
      <3>1. About(m) = {}
        BY <2>1, <2>4
      <3>2. resources[m] = Stored(m)
        BY <1>3, <1>7, <3>1 DEF StoredInv, Settled, Observing
      <3>3. ~Observing(m)'
        <4>1. CASE o # NoObject
          <5>1. call'[k].name = n
            BY <1>1, <1>3, <4>1 DEF BeginDiagnosis, TypeInv, CallType
          <5> QED BY <1>2, <1>7, <2>4, <5>1 DEF Observing
        <4>2. CASE o = NoObject
          BY <1>1, <1>2, <1>3, <1>7, <4>2 DEF Observing
        <4> QED BY <4>1, <4>2
      <3> QED BY <1>4, <2>4, <3>2, <3>3
    <2>5. Settled(m)'
      BY <1>2, <1>7, <2>2, <2>3, <2>4 DEF Settled
    <2> QED BY <2>1, <2>5
  <1> QED BY <1>6, <1>7

\* What a handler has observed is tracked; only the handler of its kind observes
\* a Node or Deployment.
LEMMA StoredObserved ==
    ASSUME TypeInv, StoredInv, NEW h \in Handlers,
           ObserveResults(h) \/ \E r \in Results : Handling(h, r)
    PROVE  StoredInv'
  <1>1. UNCHANGED <<kind, store, notes>> /\ call[h].pc \in {"observe", "handle"}
    BY DEF ObserveResults, Handling, cluster, stores
  <1>2. /\ call'[h].pc # "observe"
        /\ \A l \in Handlers \ {h} : call'[l] = call[l]
    <2>1. PICK results : Handle(h, results)
      BY DEF ObserveResults, Handling
    <2>2. PICK job : call' = [call EXCEPT ![h] = job] /\ job.pc # "observe"
      <3>1. CASE results = {}
        <4>1. Idle.pc # "observe"
          BY DEF Idle
        <4> QED BY <2>1, <3>1, <4>1 DEF Handle
      <3>2. CASE results # {}
        <4>1. [call[h] EXCEPT !.pc = "handle", !.results = results].pc = "handle"
          BY <1>1, BusyType DEF Busy
        <4> QED BY <2>1, <3>2, <4>1 DEF Handle
      <3> QED BY <3>1, <3>2
    <2> QED BY <2>2 DEF TypeInv, CallType
  <1> SUFFICES ASSUME NEW n \in Names, kind[n] # "Pod"
               PROVE  LastNote(n)' /\ Settled(n)'
    BY <1>1 DEF StoredInv
  <1>3. kind[n] \in Kinds /\ kind[n] \in Handlers /\ kind[n] # "Event"
    BY DEF TypeInv, ObjectType, Handlers, Kinds
  <1>4. kind[call[h].name] = IF h = "Event" THEN "Pod" ELSE h
    BY <1>1, BusyType DEF TypeInv, CallType
  <1>5. CASE ObserveResults(h) /\ kind[n] = h /\ call[h].name = n
    <2>1. LastNote(n) /\ Settled(n) /\ Observing(n)
      BY <1>5 DEF StoredInv, ObserveResults, Observing
    <2>2. About(n)' = About(n) /\ Stored(n)' = Stored(n) /\ ~Observing(n)'
      BY <1>1, <1>2, <1>5 DEF About, Stored, Diagnose, Observing
    <2>3. LastNote(n)'
      BY <1>1, <2>1, <2>2 DEF LastNote
    <2>4. resources'[n] = call[h].results
      BY <1>5 DEF ObserveResults, Observe, TypeInv, TrackerType
    <2>5. Settled(n)'
      BY <1>5, <2>1, <2>2, <2>4 DEF Settled
    <2> QED BY <2>3, <2>5
  <1>6. CASE ObserveResults(h) /\ ~(kind[n] = h /\ call[h].name = n)
    <2>1. call[h].name # n
      BY <1>3, <1>4, <1>6
    <2>2. resources'[n] = resources[n]
      BY <1>6, <2>1 DEF ObserveResults, Observe, TypeInv, TrackerType
    <2>3. CASE kind[n] # h
      BY <1>1, <1>2, <1>3, <2>2, <2>3, StoredSame
    <2>4. CASE kind[n] = h
      <3>1. LastNote(n) /\ Settled(n) /\ ~Observing(n)
        BY <2>1, <2>4 DEF StoredInv, Observing
      <3>2. About(n)' = About(n) /\ Stored(n)' = Stored(n) /\ ~Observing(n)'
        BY <1>1, <1>2, <2>4 DEF About, Stored, Diagnose, Observing
      <3>3. LastNote(n)'
        BY <1>1, <3>1, <3>2 DEF LastNote
      <3>4. Settled(n)'
        BY <2>2, <3>1, <3>2 DEF Settled
      <3> QED BY <3>3, <3>4
    <2> QED BY <2>3, <2>4
  <1>7. ASSUME NEW r \in Results, Handling(h, r)
        PROVE  LastNote(n)' /\ Settled(n)'
    <2>1. resources' = resources /\ call[h].pc = "handle"
      BY <1>7 DEF Handling, tracker
    <2> QED BY <1>1, <1>2, <1>3, <2>1, StoredSame
  <1> QED BY <1>5, <1>6, <1>7

\* An informer says of an object what it has just stored.
LEMMA StoredSaid ==
    ASSUME TypeInv, StoredInv, NEW n \in Names, Sync(n) \/ Resync(n)
    PROVE  StoredInv'
  <1> DEFINE k == kind[n]
             q == notes[k]
  <1>1. UNCHANGED <<kind, call, resources>>
    BY DEF Sync, Resync, cluster, tracker
  <1>2. /\ k \in Kinds /\ q \in Seq(Names \X AnyObject)
        /\ store \in [Names -> AnyObject] /\ object[n] \in AnyObject
        /\ notes \in [Kinds -> Seq(Names \X AnyObject)]
    BY DEF TypeInv, ObjectType, NoteType
  <1>3. PICK o \in AnyObject : /\ store' = [store EXCEPT ![n] = o]
                              /\ notes' = [notes EXCEPT ![k] = Append(q, <<n, o>>)]
    <2>1. CASE Sync(n)
      BY <1>2, <2>1 DEF Sync
    <2>2. CASE Resync(n)
      <3>1. store' = [store EXCEPT ![n] = store[n]] /\ q = << >>
        BY <1>2, <2>2 DEF Resync, stores
      <3>2. Append(q, <<n, store[n]>>) = << <<n, store[n]>> >>
        BY <3>1
      <3>3. notes' = [notes EXCEPT ![k] = Append(q, <<n, store[n]>>)]
        BY <2>2, <3>2, Zenon DEF Resync
      <3> QED BY <1>2, <3>1, <3>3
    <2> QED BY <2>1, <2>2
  <1> DEFINE s == Append(q, <<n, o>>)
  <1>4. /\ notes'[k] = s /\ store'[n] = o
        /\ \A l \in Kinds \ {k} : notes'[l] = notes[l]
        /\ \A m \in Names \ {n} : store'[m] = store[m]
    BY <1>2, <1>3
  <1>5. /\ Len(q) \in Nat /\ Len(s) = Len(q) + 1 /\ s[Len(q) + 1] = <<n, o>>
        /\ \A i \in 1 .. Len(q) : s[i] = q[i]
    BY <1>2, <1>3, AppendProperties
  <1> SUFFICES ASSUME NEW m \in Names, kind[m] # "Pod"
               PROVE  LastNote(m)' /\ Settled(m)'
    BY <1>1 DEF StoredInv
  <1>6. kind[m] \in Kinds
    BY DEF TypeInv, ObjectType
  <1>7. CASE kind[m] # k
    BY <1>1, <1>4, <1>6, <1>7, StoredSame
  <1>8. CASE m = n
    <2>1. About(m)' = {i \in 1 .. Len(s) : s[i][1] = n}
      BY <1>1, <1>4, <1>8 DEF About
    <2>2. Len(q) + 1 \in About(m)'
      BY <1>5, <2>1
    <2>3. ASSUME NEW i \in About(m)', \A j \in About(m)' : j <= i
          PROVE  s[i][2] = o
      <3>1. i = Len(q) + 1
        BY <1>5, <2>1, <2>2, <2>3
      <3> QED BY <1>5, <3>1
    <2>4. LastNote(m)'
      BY <1>1, <1>4, <1>8, <2>3 DEF LastNote
    <2> QED BY <2>2, <2>4 DEF Settled
  <1>9. CASE kind[m] = k /\ m # n
    <2>1. LastNote(m) /\ Settled(m)
      BY DEF StoredInv
    <2>2. About(m)' = {i \in 1 .. Len(s) : s[i][1] = m} /\ About(m) = {i \in 1 .. Len(q) : q[i][1] = m}
      BY <1>1, <1>4, <1>9 DEF About
    <2>3. About(m)' = About(m)
      BY <1>5, <1>9, <2>2
    <2>4. LastNote(m)'
      <3>1. \A i \in About(m)' : s[i] = q[i]
        BY <1>5, <2>2, <2>3
      <3>2. \A i \in About(m) : (\A j \in About(m) : j <= i) => q[i][2] = store[m]
        BY <1>9, <2>1 DEF LastNote
      <3>3. \A i \in About(m)' : (\A j \in About(m)' : j <= i) => notes'[kind'[m]][i][2] = store'[m]
        <4>1. notes'[kind'[m]] = s /\ store'[m] = store[m]
          BY <1>1, <1>4, <1>9
        <4> QED BY <2>3, <3>1, <3>2, <4>1
      <3> QED BY <3>3 DEF LastNote
    <2>5. kind'[m] = kind[m] /\ store'[m] = store[m] /\ call' = call /\ resources' = resources
      BY <1>1, <1>4, <1>9
    <2>6. Stored(m)' = Stored(m)
      BY <2>5 DEF Stored, Diagnose
    <2>7. Observing(m)' <=> Observing(m)
      BY <2>5 DEF Observing
    <2>8. Settled(m)'
      BY <2>1, <2>3, <2>5, <2>6, <2>7 DEF Settled
    <2> QED BY <2>4, <2>8
  <1> QED BY <1>7, <1>8, <1>9

\* Every step keeps it: a new process has no notes, stores or labels.
LEMMA StoredNext ==
    ASSUME TypeInv, StoredInv, [Next]_vars
    PROVE  StoredInv'
  <1>1. ASSUME UNCHANGED <<kind, store, notes, resources>>,
               \A k \in Kinds : call'[k] = call[k]
        PROVE  StoredInv'
    <2>1. \A n \in Names : kind[n] \in Kinds
      BY DEF TypeInv, ObjectType
    <2> QED BY <1>1, <2>1, StoredSame DEF StoredInv
  <1>2. CASE UNCHANGED vars
    BY <1>1, <1>2 DEF vars, cluster, stores, tracker
  <1>3. CASE Cluster
    BY <1>1, <1>3 DEF Cluster, CreateObject, UpdateObject, DeleteObject, Become,
                      FailScheduling, ExpireEvent, Change, stores, tracker
  <1>4. ASSUME NEW n \in Names, EventAdded(n)
        PROVE  StoredInv'
    <2>1. \A k \in Kinds : k \in Handlers /\ k # "Event"
      BY DEF Kinds, Handlers
    <2>2. \A k \in Kinds : call'[k] = call[k]
      BY <1>4, <2>1 DEF EventAdded, BeginDiagnosis, TypeInv, CallType
    <2>3. UNCHANGED <<kind, store, notes, resources>>
      BY <1>4 DEF EventAdded, cluster, stores, tracker
    <2> QED BY <1>1, <2>2, <2>3
  <1>5. ASSUME NEW n, NEW uid, SyncEvent(n, uid)
        PROVE  StoredInv'
    BY <1>1, <1>5 DEF SyncEvent, cluster, tracker
  <1>6. CASE Restart
    <2>1. UNCHANGED kind /\ EmptyAgent
      BY <1>6 DEF Restart, cluster
    <2>2. \A n \in Names : kind[n] \in Kinds /\ kind[n] \in Handlers
      BY DEF TypeInv, ObjectType, Handlers
    <2>3. ASSUME NEW n \in Names
          PROVE  LastNote(n)' /\ Settled(n)'
      <3>1. notes'[kind[n]] = << >> /\ call'[kind[n]] = Idle
        BY <2>1, <2>2 DEF EmptyAgent
      <3>2. About(n)' = {} /\ ~Observing(n)'
        BY <2>1, <3>1 DEF About, Observing, Idle
      <3>3. resources'[n] = {} /\ Stored(n)' = {}
        BY <2>1 DEF EmptyAgent, Stored
      <3> QED BY <3>2, <3>3 DEF LastNote, Settled
    <2> QED BY <2>3 DEF StoredInv
  <1>7. ASSUME NEW n \in Names, Notified(n)
        PROVE  StoredInv'
    BY <1>4, <1>7, StoredNoted DEF Notified
  <1>8. ASSUME NEW h \in Handlers, Step(h)
        PROVE  StoredInv'
    BY <1>8, StoredObserved DEF Step, CreateOk, CreateError
  <1> QED
    BY <1>2, <1>3, <1>5, <1>6, <1>7, <1>8, StoredSaid DEF Next, Agent

\* Nothing is stored, said or tracked at first.
LEMMA StoredInit ==
    ASSUME Init
    PROVE  StoredInv
  <1>1. ASSUME NEW n \in Names
        PROVE  LastNote(n) /\ Settled(n)
    <2>1. kind[n] \in Kinds /\ kind[n] \in Handlers
      BY DEF Init, Handlers
    <2>2. notes[kind[n]] = << >> /\ call[kind[n]] = Idle
      BY <2>1 DEF Init
    <2>3. About(n) = {} /\ ~Observing(n)
      BY <2>2 DEF About, Observing, Idle
    <2>4. resources[n] = {} /\ Stored(n) = {}
      BY DEF Init, Stored
    <2> QED BY <2>3, <2>4 DEF LastNote, Settled
  <1> QED BY <1>1 DEF StoredInv

(***************************************************************************)
(* The theorems.                                                           *)
(***************************************************************************)

\* Every variable keeps its shape; the gauge stays between zero and the number
\* of objects.
THEOREM TypeCorrect == Spec => []TypeOK
  <1> DEFINE I == TypeInv /\ GaugeInv /\ JustInv /\ HadType
  <1>1. Init => I
    BY TypeInit, GaugeInit, JustInit, HadInit
  <1>2. I /\ [Next]_vars => I'
    BY TypeNext, GaugeNext, JustNext, HadNext
  <1>3. I => TypeOK
    <2> SUFFICES ASSUME I PROVE TypeOK
      OBVIOUS
    <2>1. counts \in [Results -> 0 .. Cardinality(Names)]
      <3>1. ASSUME NEW r \in Results
            PROVE  counts[r] \in 0 .. Cardinality(Names)
        <4>1. Holders(r) \subseteq Names
          BY DEF Holders
        <4>2. /\ IsFiniteSet(Holders(r))
              /\ Cardinality(Holders(r)) <= Cardinality(Names)
          BY <4>1, NamesAssumption, FS_Subset
        <4>3. Cardinality(Holders(r)) \in Nat /\ Cardinality(Names) \in Nat
          BY <4>2, NamesAssumption, FS_CardinalityType
        <4> QED BY <4>2, <4>3 DEF GaugeInv, GaugeCountsTracked, Holders
      <3> QED BY <3>1 DEF GaugeInv
    <2>2. \A k \in Kinds : \A i \in DOMAIN notes[k] :
            \E n \in Names : kind[n] = k /\ notes[k][i] \in {n} \X Objects(k)
      <3> SUFFICES ASSUME NEW k \in Kinds, NEW i \in DOMAIN notes[k]
                   PROVE  \E n \in Names : kind[n] = k /\ notes[k][i] \in {n} \X Objects(k)
        OBVIOUS
      <3>1. notes[k][i] \in Notes(k)
        BY DEF TypeInv, NoteType
      <3> QED BY <3>1 DEF Notes
    <2>3. actions \subseteq Names \X {"CrashLoopBackOff", "OOMKilled"}
      BY DEF JustInv, ActionsJustified, HadType
    <2>4. /\ events \subseteq Names \X (1 .. MaxChanges)
          /\ eventStore \subseteq Names \X (1 .. MaxChanges)
          /\ eventNotes \in Seq({n \in Names : kind[n] = "Pod"})
      BY DEF TypeInv, EventType, PodNames
    <2> QED
      BY <2>1, <2>2, <2>3, <2>4 DEF TypeOK, TypeInv, ObjectType, CallType, TrackerType
  <1> QED BY <1>1, <1>2, <1>3, PTL DEF Spec

\* However the handlers of the agent interleave, and whenever it restarts, the
\* active gauge of a label is the number of resources it is tracked for.
THEOREM GaugeExact == Spec => []GaugeCountsTracked
  <1>1. Init => TypeInv /\ GaugeInv
    BY TypeInit, GaugeInit
  <1>2. (TypeInv /\ GaugeInv) /\ [Next]_vars => (TypeInv /\ GaugeInv)'
    BY TypeNext, GaugeNext
  <1>3. TypeInv /\ GaugeInv => GaugeCountsTracked
    BY DEF GaugeInv
  <1> QED BY <1>1, <1>2, <1>3, PTL DEF Spec

\* Every Action answers a problem its Pod really had, in a namespace that is
\* not excluded and with the flag set, for any detector statuses, stores that
\* lag behind by any number of changes, and restarts.
THEOREM ActionsAnswerProblems == Spec => []ActionsJustified
  <1>1. Init => TypeInv /\ JustInv
    BY TypeInit, JustInit
  <1>2. (TypeInv /\ JustInv) /\ [Next]_vars => (TypeInv /\ JustInv)'
    BY TypeNext, JustNext
  <1>3. TypeInv /\ JustInv => ActionsJustified
    BY DEF JustInv
  <1> QED BY <1>1, <1>2, <1>3, PTL DEF Spec

\* For any number of Nodes and Deployments, changes and restarts: a handler with
\* nothing more to observe leaves the diagnosis of what is stored in the tracker.
THEOREM TrackedKept == Spec => []TrackedIsStored
  <1>1. Init => TypeInv /\ StoredInv
    BY TypeInit, StoredInit
  <1>2. (TypeInv /\ StoredInv) /\ [Next]_vars => (TypeInv /\ StoredInv)'
    BY TypeNext, StoredNext
  <1>3. TypeInv /\ StoredInv => TrackedIsStored
    <2> SUFFICES ASSUME TypeInv, StoredInv, NEW n \in Names, kind[n] # "Pod",
                        notes[kind[n]] = << >>, call[kind[n]].pc # "observe"
                 PROVE  resources[n] = Stored(n)
      BY DEF TrackedIsStored, Stored
    <2>1. About(n) = {} /\ ~Observing(n)
      BY DEF About, Observing
    <2> QED BY <2>1 DEF StoredInv, Settled
  <1> QED BY <1>1, <1>2, <1>3, PTL DEF Spec
=============================================================================
