----------------------- MODULE ActionControllerProofs -----------------------
(***************************************************************************)
(* Proofs about ActionController for any controllers, Actions, executor    *)
(* checkpoints and bounds.                                                 *)
(***************************************************************************)
EXTENDS ActionControllerProperties, SequenceTheorems, TLAPS

(***************************************************************************)
(* Statuses.                                                               *)
(***************************************************************************)

\* A new Action has a status of the right shape.
LEMMA NewStatusType == NewStatus \in Status
BY CheckpointAssumption, MaxRetriesAssumption DEF NewStatus, Status, Phases

\* A deleted Action is told apart from every status.
LEMMA GoneType == Gone.phase = "Gone" /\ Gone \notin Status /\ ~Unsettled(Gone)
BY DEF Gone, NewStatus, Status, Phases, Unsettled

\* A deleted Action owes no reason and no record.
LEMMA GoneSound == ASSUME NEW a \in Actions PROVE Sound(a, Gone)
BY MaxRetriesAssumption DEF Gone, NewStatus, Sound

\* An unfinished version is a status that may still fail once more.
LEMMA UnsettledVersion ==
    ASSUME NEW v \in Versions, Unsettled(v), NEW a \in Actions, Sound(a, v)
    PROVE  v \in Status /\ ~Terminal(v.phase) /\ v.retry < MaxRetries
BY GoneType, MaxRetriesAssumption DEF Versions, Unsettled, Sound, Terminal, Status

\* The statuses Reconcile computes, one lemma each.
LEMMA AcceptedFollows ==
    ASSUME NEW st \in Status, st.phase = ""
    PROVE  Accepted(st) \in Status /\ Follows(st, Accepted(st))
BY DEF Status, Accepted, Follows, PhaseStep, NextPhase, Phases

\* Pending becomes Running, with a start.
LEMMA StartedFollows ==
    ASSUME NEW st \in Status, st.phase = "Pending"
    PROVE  Started(st) \in Status /\ Follows(st, Started(st))
BY DEF Status, Started, Follows, PhaseStep, NextPhase, Phases

\* Any status may become a failure.
LEMMA FailedFollows ==
    ASSUME NEW st \in Status
    PROVE  Failed(st) \in Status /\ Follows(st, Failed(st))
BY DEF Status, Failed, Follows, PhaseStep, Phases

\* Running becomes Verifying.
LEMMA ExecutedFollows ==
    ASSUME NEW st \in Status, st.phase = "Running"
    PROVE  Executed(st) \in Status /\ Follows(st, Executed(st))
BY DEF Status, Executed, Follows, PhaseStep, NextPhase, Phases

\* Verifying becomes Succeeded.
LEMMA RecoveredFollows ==
    ASSUME NEW st \in Status, st.phase = "Verifying"
    PROVE  Recovered(st) \in Status /\ Follows(st, Recovered(st))
BY DEF Status, Recovered, Follows, PhaseStep, NextPhase, Phases

\* An error is counted and keeps the phase, or is the last one and fails.
LEMMA DegradedFollows ==
    ASSUME NEW st \in Status, st.phase \in {"Running", "Verifying"},
           st.retry < MaxRetries,
           NEW k \in Checkpoints,
           k = st.checkpoint \/ <<st.checkpoint, k>> \in CheckpointStep
    PROVE  LET new == Degraded([st EXCEPT !.checkpoint = k])
           IN  /\ new \in Status
               /\ Follows(st, new)
               /\ new.started = st.started
               /\ new.retry = st.retry + 1
               /\ IF st.retry + 1 = MaxRetries
                  THEN new.phase = "Failed"
                  ELSE new.phase = st.phase
<1> DEFINE moved == [st EXCEPT !.checkpoint = k]
           counted == [moved EXCEPT !.retry = @ + 1, !.waiting = FALSE]
<1>1. /\ counted \in Status
      /\ counted.phase = st.phase
      /\ counted.started = st.started
      /\ counted.retry = st.retry + 1
      /\ counted.checkpoint = k
  <2>1. /\ moved \in Status
        /\ moved.phase = st.phase /\ moved.started = st.started
        /\ moved.retry = st.retry /\ moved.checkpoint = k
    BY DEF Status
  <2>2. moved.retry + 1 \in 0 .. MaxRetries
    BY <2>1, MaxRetriesAssumption DEF Status
  <2> HIDE DEF moved
  <2> QED
    BY <2>1, <2>2 DEF Status
<1>0. Degraded(moved) = IF counted.retry >= MaxRetries THEN Failed(counted) ELSE counted
  BY DEF Degraded
<1> HIDE DEF counted, moved
<1>2. CASE st.retry + 1 = MaxRetries
  <2>1. Degraded(moved) = Failed(counted)
    BY <1>0, <1>1, <1>2, MaxRetriesAssumption
  <2> QED
    BY <1>1, <1>2, <2>1 DEF moved, Status, Failed, Follows, PhaseStep, Phases
<1>3. CASE st.retry + 1 # MaxRetries
  <2>1. Degraded(moved) = counted
    BY <1>0, <1>1, <1>3, MaxRetriesAssumption DEF Status
  <2> QED
    BY <1>1, <1>3, <2>1 DEF moved, Status, Follows, PhaseStep
<1> QED
  BY <1>2, <1>3

(***************************************************************************)
(* What every step keeps: histories only grow, and so do the audit log and *)
(* the set of passed deadlines.                                            *)
(***************************************************************************)

Grows == \A a \in Actions :
            log'[a] = log[a] \/ \E v \in Versions : log'[a] = Append(log[a], v)

Records == expired \subseteq expired' /\ \A a \in Actions : audit[a] \subseteq audit'[a]

\* Versions that are stored stay where they are.
LEMMA HistoryKept ==
    ASSUME TypeOK, Grows, NEW a \in Actions
    PROVE  /\ Len(log[a]) \in Nat /\ Len(log'[a]) \in Nat
           /\ Len(log[a]) <= Len(log'[a])
           /\ \A i \in 1 .. Len(log[a]) : log'[a][i] = log[a][i]
<1>1. log[a] \in Seq(Versions)
  BY DEF TypeOK
<1>2. CASE log'[a] = log[a]
  BY <1>1, <1>2, LenProperties
<1>3. CASE \E v \in Versions : log'[a] = Append(log[a], v)
  <2>1. PICK v \in Versions : log'[a] = Append(log[a], v)
    BY <1>3
  <2> QED
    BY <1>1, <2>1, AppendProperties, LenProperties
<1> QED
  BY <1>2, <1>3 DEF Grows

\* The shape of a call in progress.
LEMMA BusyJob ==
    ASSUME TypeOK, NEW c \in Controllers, Busy(c)
    PROVE  work[c] \in [pc : {"execute", "verify", "update"}, act : Actions,
                        ver : Nat, st : Status]
<1>1. work[c] \in Jobs
  BY DEF TypeOK
<1>2. Idle.pc = "idle" /\ Down.pc = "down"
  BY DEF Idle, Down, Job
<1>3. work[c] # Idle /\ work[c] # Down
  BY <1>2 DEF Busy
<1> HIDE DEF Busy
<1> QED
  BY <1>1, <1>3 DEF Jobs

\* A call nobody touches stays sound while histories and records grow.
LEMMA JobKept ==
    ASSUME TypeOK, Grows, Records, NEW c \in Controllers, Busy(c), JobSound(c),
           work'[c] = work[c]
    PROVE  JobSound(c)'
<1> DEFINE j == work[c]
<1>1. j.act \in Actions
  BY BusyJob
<1>2. j.ver \in 1 .. Len(log'[j.act]) /\ log'[j.act][j.ver] = log[j.act][j.ver]
  BY <1>1, HistoryKept DEF JobSound
<1>3. Sound(j.act, j.st)'
  BY <1>1 DEF JobSound, Sound, Records
<1> QED
  BY <1>1, <1>2, <1>3 DEF JobSound

\* Stored versions stay sound while records grow.
LEMMA HistorySoundKept ==
    ASSUME TypeOK, Records, HistorySound, log' = log
    PROVE  HistorySound'
BY DEF TypeOK, Records, HistorySound, Sound

\* A cached version that is unfinished is a sound, stored status.
LEMMA CachedSound ==
    ASSUME TypeOK, HistorySound, NEW c \in Controllers, NEW a \in Actions,
           Unsettled(Cached(c, a))
    PROVE  /\ seen[c][a] \in 1 .. Len(log[a])
           /\ Cached(c, a) = log[a][seen[c][a]]
           /\ Cached(c, a) \in Status
           /\ ~Terminal(Cached(c, a).phase)
           /\ Sound(a, Cached(c, a))
<1>1. seen[c][a] # 0
  BY GoneType DEF Cached
<1>2. seen[c][a] \in 1 .. Len(log[a]) /\ Cached(c, a) = log[a][seen[c][a]]
  BY <1>1 DEF TypeOK, Cached
<1>3. log[a] \in Seq(Versions)
  BY DEF TypeOK
<1>4. Cached(c, a) \in Versions
  BY <1>2, <1>3, ElementOfSeq
<1>5. Sound(a, Cached(c, a))
  BY <1>2 DEF HistorySound
<1> QED
  BY <1>2, <1>4, <1>5, UnsettledVersion

\* A call in progress works on a status that may still fail once more.
LEMMA JobStatus ==
    ASSUME TypeOK, WorkSound, NEW c \in Controllers, Busy(c)
    PROVE  /\ work[c].act \in Actions
           /\ work[c].st \in Status
           /\ work[c].pc \in {"execute", "verify"} =>
                /\ work[c].st.retry < MaxRetries
                /\ ~Terminal(work[c].st.phase)
<1>1. work[c].act \in Actions /\ work[c].st \in Status
  BY BusyJob
<1>2. JobSound(c)
  BY DEF WorkSound
<1> QED
  BY <1>1, <1>2, MaxRetriesAssumption DEF JobSound, Sound, Terminal, Status

(***************************************************************************)
(* The three ways a controller step changes a call in progress.            *)
(***************************************************************************)

AuditTyped == audit' \in [Actions -> SUBSET {"started", "succeeded", "failed"}]

\* A call that begins on an unfinished cached version keeps the invariant.
LEMMA BeginKeeps ==
    ASSUME IInv, NEW c \in Controllers, NEW a \in Actions,
           NEW pc \in {"execute", "verify", "update"}, NEW st \in Status,
           Unsettled(Cached(c, a)),
           Begin(c, a, pc, st),
           UNCHANGED <<api, seen, metric, crashes>>, AuditTyped, Records,
           Sound(a, st)',
           pc = "execute" => st = Cached(c, a) /\ st.phase = "Running",
           pc = "verify" => st = Cached(c, a) /\ st.phase = "Verifying",
           pc = "update" => Follows(Cached(c, a), st)
    PROVE  IInv'
<1> DEFINE job == Job(pc, a, seen[c][a], st)
<1>1. /\ seen[c][a] \in 1 .. Len(log[a])
      /\ Cached(c, a) = log[a][seen[c][a]]
      /\ Cached(c, a) \in Status
      /\ ~Terminal(Cached(c, a).phase)
  BY CachedSound DEF IInv
<1>2. work' = [work EXCEPT ![c] = job] /\ queue' = [queue EXCEPT ![c] = @ \ {a}]
  BY DEF Begin
<1>3. UNCHANGED <<log, expired, touches, seen, metric, crashes>>
  BY DEF api
<1>4. work \in [Controllers -> Jobs]
  BY DEF IInv, TypeOK
<1>5. job \in Jobs
  BY <1>1 DEF Job, Jobs
<1>6. TypeOK'
  <2> HIDE DEF job
  <2>1. work' \in [Controllers -> Jobs]
    BY <1>2, <1>4, <1>5
  <2>2. queue' \in [Controllers -> SUBSET Actions]
    BY <1>2 DEF IInv, TypeOK
  <2> QED
    BY <2>1, <2>2, <1>3 DEF IInv, TypeOK, AuditTyped
<1>7. HistorySound'
  BY <1>3, HistorySoundKept DEF IInv
<1>8. ASSUME NEW d \in Controllers, Busy(d)'
      PROVE  JobSound(d)'
  <2>1. CASE d = c
    <3>1. work'[c] = job
      BY <1>2, <1>4
    <3>2. /\ work'[c].pc = pc /\ work'[c].act = a
          /\ work'[c].ver = seen[c][a] /\ work'[c].st = st
      BY <3>1 DEF Job
    <3> HIDE DEF job
    <3> QED
      BY <2>1, <3>2, <1>1, <1>3 DEF JobSound
  <2>2. CASE d # c
    <3>1. work'[d] = work[d]
      BY <2>2, <1>2, <1>4
    <3>2. Busy(d)
      BY <3>1, <1>8 DEF Busy
    <3>3. Grows
      BY <1>3 DEF Grows
    <3> QED
      BY <3>1, <3>2, <3>3, JobKept DEF IInv, WorkSound
  <2> QED
    BY <2>1, <2>2
<1> QED
  BY <1>6, <1>7, <1>8 DEF IInv, WorkSound

\* A call that goes on to its update with a status that follows keeps it.
LEMMA ContinueKeeps ==
    ASSUME IInv, NEW c \in Controllers, NEW st \in Status,
           work[c].pc \in {"execute", "verify"},
           Continue(c, "update", st),
           UNCHANGED <<api, seen, queue, metric, crashes>>, AuditTyped, Records,
           Sound(work[c].act, st)',
           Follows(work[c].st, st)
    PROVE  IInv'
<1> DEFINE job == [work[c] EXCEPT !.pc = "update", !.st = st]
<1>1. Busy(c)
  BY DEF Busy
<1>2. /\ work[c] \in [pc : {"execute", "verify", "update"}, act : Actions,
                      ver : Nat, st : Status]
      /\ JobSound(c)
  BY <1>1, BusyJob DEF IInv, WorkSound
<1>3. UNCHANGED <<log, expired, touches, seen, queue, metric, crashes>>
  BY DEF api
<1>4. work \in [Controllers -> Jobs]
  BY DEF IInv, TypeOK
<1>5. /\ job \in [pc : {"execute", "verify", "update"}, act : Actions,
                  ver : Nat, st : Status]
      /\ job.pc = "update" /\ job.act = work[c].act
      /\ job.ver = work[c].ver /\ job.st = st
  BY <1>2
<1>6. work' = [work EXCEPT ![c] = job]
  BY <1>4 DEF Continue
<1> HIDE DEF job
<1>7. work' \in [Controllers -> Jobs] /\ work'[c] = job
  BY <1>4, <1>5, <1>6 DEF Jobs
<1>8. TypeOK'
  BY <1>7, <1>3 DEF IInv, TypeOK, AuditTyped
<1>9. HistorySound'
  BY <1>3, HistorySoundKept DEF IInv
<1>10. ASSUME NEW d \in Controllers, Busy(d)'
       PROVE  JobSound(d)'
  <2>1. CASE d = c
    <3>1. work[c].st = log[work[c].act][work[c].ver]
      BY <1>2 DEF JobSound
    <3>2. /\ work'[c].pc = "update" /\ work'[c].act = work[c].act
          /\ work'[c].ver = work[c].ver /\ work'[c].st = st
      BY <1>5, <1>7
    <3> QED
      BY <2>1, <3>1, <3>2, <1>2, <1>3 DEF JobSound
  <2>2. CASE d # c
    <3>1. work'[d] = work[d]
      BY <2>2, <1>4, <1>6
    <3>2. Busy(d)
      BY <3>1, <1>10 DEF Busy
    <3>3. Grows
      BY <1>3 DEF Grows
    <3> QED
      BY <3>1, <3>2, <3>3, JobKept DEF IInv, WorkSound
  <2> QED
    BY <2>1, <2>2
<1> QED
  BY <1>8, <1>9, <1>10 DEF IInv, WorkSound

\* Calls nobody touches stay sound; controllers that stop have none.
LEMMA WorkSoundKept ==
    ASSUME TypeOK, WorkSound, Grows, Records,
           \A d \in Controllers : work'[d] = work[d] \/ ~Busy(d)'
    PROVE  WorkSound'
<1> SUFFICES ASSUME NEW d \in Controllers, Busy(d)'
             PROVE  JobSound(d)'
  BY DEF WorkSound
<1>1. work'[d] = work[d] /\ Busy(d)
  BY DEF Busy
<1> QED
  BY <1>1, JobKept DEF WorkSound

\* A sound version more keeps the histories sound.
LEMMA Appended ==
    ASSUME TypeOK, HistorySound, Records,
           NEW a \in Actions, NEW v \in Versions, Sound(a, v)',
           log' = [log EXCEPT ![a] = Append(@, v)]
    PROVE  /\ HistorySound'
           /\ Grows
           /\ log' \in [Actions -> Seq(Versions)]
           /\ \A c \in Controllers, b \in Actions : seen[c][b] <= Len(log'[b])
<1>1. log \in [Actions -> Seq(Versions)]
  BY DEF TypeOK
<1>2. log'[a] = Append(log[a], v) /\ \A b \in Actions \ {a} : log'[b] = log[b]
  BY <1>1
<1>3. Grows
  BY <1>2 DEF Grows
<1>4. /\ Append(log[a], v) \in Seq(Versions)
      /\ Len(Append(log[a], v)) = Len(log[a]) + 1
      /\ \A i \in 1 .. Len(log[a]) : Append(log[a], v)[i] = log[a][i]
      /\ Append(log[a], v)[Len(log[a]) + 1] = v
      /\ Len(log[a]) \in Nat
  BY <1>1, AppendProperties, LenProperties
<1>5. log' \in [Actions -> Seq(Versions)]
  BY <1>1, <1>4
<1>6. ASSUME NEW b \in Actions, NEW i \in 1 .. Len(log'[b])
      PROVE  Sound(b, log[b][i])'
  <2>1. CASE b = a /\ i = Len(log[a]) + 1
    BY <2>1, <1>2, <1>4 DEF Sound
  <2>2. CASE ~(b = a /\ i = Len(log[a]) + 1)
    <3>1. i \in 1 .. Len(log[b]) /\ log'[b][i] = log[b][i]
      BY <2>2, <1>2, <1>4
    <3>2. Sound(b, log[b][i])
      BY <3>1 DEF HistorySound
    <3> QED
      BY <3>1, <3>2 DEF Sound, Records
  <2> QED
    BY <2>1, <2>2
<1>7. \A c \in Controllers, b \in Actions : seen[c][b] <= Len(log'[b])
  <2> SUFFICES ASSUME NEW c \in Controllers, NEW b \in Actions
               PROVE  seen[c][b] <= Len(log'[b])
    OBVIOUS
  <2>1. seen[c][b] \in Nat /\ seen[c][b] <= Len(log[b])
    BY DEF TypeOK
  <2> QED
    BY <2>1, <1>3, HistoryKept
<1> QED
  BY <1>3, <1>5, <1>6, <1>7 DEF HistorySound

\* A call that returns keeps it, with or without a sound version stored.
LEMMA ReturnKeeps ==
    ASSUME IInv, NEW c \in Controllers, Busy(c), NEW again \in BOOLEAN,
           Return(c, again),
           UNCHANGED <<expired, touches, seen, audit, crashes>>,
           metric' \in [Actions -> 0 .. MetricCap],
           \/ log' = log
           \/ \E a \in Actions, v \in Versions :
                Sound(a, v) /\ log' = [log EXCEPT ![a] = Append(@, v)]
    PROVE  IInv'
<1>1. TypeOK /\ HistorySound /\ WorkSound
  BY DEF IInv
<1>2. Records
  BY DEF Records
<1>3. /\ HistorySound' /\ Grows
      /\ log' \in [Actions -> Seq(Versions)]
      /\ \A d \in Controllers, b \in Actions : seen[d][b] <= Len(log'[b])
  <2>1. CASE log' = log
    BY <2>1, <1>1, <1>2, HistorySoundKept DEF Grows, TypeOK
  <2>2. CASE \E a \in Actions, v \in Versions :
                Sound(a, v) /\ log' = [log EXCEPT ![a] = Append(@, v)]
    <3>1. PICK a \in Actions, v \in Versions :
                Sound(a, v) /\ log' = [log EXCEPT ![a] = Append(@, v)]
      BY <2>2
    <3>2. Sound(a, v)'
      BY <3>1 DEF Sound
    <3> QED
      BY <3>1, <3>2, <1>1, <1>2, Appended
  <2> QED
    BY <2>1, <2>2
<1>4. /\ work' \in [Controllers -> Jobs]
      /\ \A d \in Controllers : work'[d] = work[d] \/ ~Busy(d)'
  <2>1. work' = [work EXCEPT ![c] = Idle] /\ work \in [Controllers -> Jobs]
    BY <1>1 DEF Return, TypeOK
  <2>2. Idle \in Jobs /\ Idle.pc = "idle"
    BY DEF Jobs, Idle, Job
  <2> QED
    BY <2>1, <2>2 DEF Busy
<1>5. queue' \in [Controllers -> SUBSET Actions]
  <2>1. work[c].act \in Actions
    BY <1>1, BusyJob
  <2> QED
    BY <2>1, <1>1 DEF Return, TypeOK
<1>6. TypeOK'
  BY <1>1, <1>3, <1>4, <1>5 DEF TypeOK
<1>7. WorkSound'
  BY <1>1, <1>2, <1>3, <1>4, WorkSoundKept
<1> QED
  BY <1>3, <1>6, <1>7 DEF IInv

(***************************************************************************)
(* Every action keeps the invariant.                                       *)
(***************************************************************************)

\* An audit record only adds to the records.
LEMMA AuditKept ==
    ASSUME TypeOK, NEW a \in Actions, NEW r \in {"started", "succeeded", "failed"},
           Audit(a, r), UNCHANGED expired
    PROVE  AuditTyped /\ Records /\ r \in audit'[a]
BY DEF TypeOK, Audit, AuditTyped, Records

\* A step without audit keeps the records.
LEMMA NothingAudited ==
    ASSUME TypeOK, UNCHANGED audit, UNCHANGED expired
    PROVE  AuditTyped /\ Records
BY DEF TypeOK, AuditTyped, Records

\* The start of a call of Reconcile, on each of its paths, keeps the invariant.
LEMMA TakeKeeps ==
    ASSUME IInv, NEW c \in Controllers, NEW a \in Actions, Take(c, a)
    PROVE  IInv'
<1> DEFINE old == Cached(c, a)
<1>t. TypeOK /\ HistorySound /\ WorkSound
  BY DEF IInv
<1>s. ASSUME Unsettled(old)
      PROVE  /\ old \in Status /\ ~Terminal(old.phase) /\ Sound(a, old)
             /\ old.retry < MaxRetries
  BY <1>s, <1>t, CachedSound, MaxRetriesAssumption DEF Sound, Terminal, Status
<1>u. ASSUME old.phase \in Phases, ~Terminal(old.phase)
      PROVE  Unsettled(old)
  BY <1>u DEF Unsettled
<1>1. CASE Skip(c, a)
  <2>1. UNCHANGED <<log, expired, touches, seen, work, audit, metric, crashes>>
    BY <1>1 DEF Skip, api, report
  <2>2. queue' \in [Controllers -> SUBSET Actions]
    BY <1>1, <1>t DEF Skip, TypeOK
  <2>3. TypeOK'
    BY <2>1, <2>2, <1>t DEF TypeOK
  <2>4. Grows /\ Records
    BY <2>1 DEF Grows, Records
  <2> QED
    BY <2>1, <2>3, <2>4, <1>t, HistorySoundKept, WorkSoundKept DEF IInv
<1>2. CASE RejectUnsupported(c, a)
  <2>1. PICK st : st = Failed(old)
    OBVIOUS
  <2>2. st \in Status /\ Follows(old, st)
    BY <2>1, <1>2, <1>s, FailedFollows DEF RejectUnsupported
  <2>3. UNCHANGED <<api, seen, metric, crashes>> /\ expired' = expired /\ Audit(a, "failed")
    BY <1>2 DEF RejectUnsupported, api
  <2>4. AuditTyped /\ Records /\ "failed" \in audit'[a]
    BY <2>3, <1>t, AuditKept
  <2>5. Sound(a, st)'
    BY <1>2, <1>s, <2>1, <2>3, <2>4 DEF RejectUnsupported, Sound, Records, Failed, Status
  <2> QED
    BY <1>2, <2>1, <2>2, <2>3, <2>4, <2>5, BeginKeeps DEF RejectUnsupported
<1>3. CASE Accept(c, a)
  <2>0. Unsettled(old) /\ old.phase = ""
    BY <1>3, <1>u DEF Accept, Phases, Terminal
  <2>1. PICK st : st = Accepted(old)
    OBVIOUS
  <2>2. st \in Status /\ Follows(old, st)
    BY <2>0, <2>1, <1>s, AcceptedFollows
  <2>3. UNCHANGED <<api, seen, audit, metric, crashes>> /\ expired' = expired
    BY <1>3 DEF Accept, api, report
  <2>4. AuditTyped /\ Records
    BY <2>3, <1>t, NothingAudited
  <2>5. Sound(a, st)'
    BY <2>0, <1>s, <2>1, <2>3 DEF Sound, Accepted, Status
  <2> QED
    BY <1>3, <2>0, <2>1, <2>2, <2>3, <2>4, <2>5, BeginKeeps DEF Accept
<1>4. CASE StartExecution(c, a)
  <2>0. Unsettled(old) /\ old.phase = "Pending"
    BY <1>4, <1>u DEF StartExecution, Phases, Terminal
  <2>1. PICK st : st = Started(old)
    OBVIOUS
  <2>2. st \in Status /\ Follows(old, st)
    BY <2>0, <2>1, <1>s, StartedFollows
  <2>3. UNCHANGED <<api, seen, metric, crashes>> /\ expired' = expired /\ Audit(a, "started")
    BY <1>4 DEF StartExecution, api
  <2>4. AuditTyped /\ Records /\ "started" \in audit'[a]
    BY <2>3, <1>t, AuditKept
  <2>5. Sound(a, st)'
    BY <2>0, <1>s, <2>1, <2>3, <2>4 DEF Sound, Started, Status
  <2> QED
    BY <1>4, <2>0, <2>1, <2>2, <2>3, <2>4, <2>5, BeginKeeps DEF StartExecution
<1>5. CASE FailTimedOut(c, a)
  <2>0. Unsettled(old)
    BY <1>5, <1>u DEF FailTimedOut, Phases, Terminal
  <2>1. PICK st : st = Failed(old)
    OBVIOUS
  <2>2. st \in Status /\ Follows(old, st)
    BY <2>0, <2>1, <1>s, FailedFollows
  <2>3. UNCHANGED <<api, seen, metric, crashes>> /\ expired' = expired /\ Audit(a, "failed")
    BY <1>5 DEF FailTimedOut, api
  <2>4. AuditTyped /\ Records /\ "failed" \in audit'[a]
    BY <2>3, <1>t, AuditKept
  <2>5. Sound(a, st)'
    BY <1>5, <2>0, <1>s, <2>1, <2>3, <2>4
       DEF FailTimedOut, TimedOut, Sound, Records, Failed, Status
  <2> QED
    BY <1>5, <2>0, <2>1, <2>2, <2>3, <2>4, <2>5, BeginKeeps DEF FailTimedOut
<1>6. CASE CallExecute(c, a)
  <2>0. Unsettled(old) /\ old.phase = "Running"
    BY <1>6, <1>u DEF CallExecute, Phases, Terminal
  <2>1. PICK st : st = old
    OBVIOUS
  <2>3. UNCHANGED <<api, seen, audit, metric, crashes>> /\ expired' = expired
    BY <1>6 DEF CallExecute, api, report
  <2>4. AuditTyped /\ Records
    BY <2>3, <1>t, NothingAudited
  <2>5. Sound(a, st)'
    BY <2>0, <1>s, <2>1, <2>3 DEF Sound
  <2> QED
    BY <1>6, <1>s, <2>0, <2>1, <2>3, <2>4, <2>5, BeginKeeps DEF CallExecute
<1>7. CASE CallVerify(c, a)
  <2>0. Unsettled(old) /\ old.phase = "Verifying"
    BY <1>7, <1>u DEF CallVerify, Phases, Terminal
  <2>1. PICK st : st = old
    OBVIOUS
  <2>3. UNCHANGED <<api, seen, audit, metric, crashes>> /\ expired' = expired
    BY <1>7 DEF CallVerify, api, report
  <2>4. AuditTyped /\ Records
    BY <2>3, <1>t, NothingAudited
  <2>5. Sound(a, st)'
    BY <2>0, <1>s, <2>1, <2>3 DEF Sound
  <2> QED
    BY <1>7, <1>s, <2>0, <2>1, <2>3, <2>4, <2>5, BeginKeeps DEF CallVerify
<1> QED
  BY <1>1, <1>2, <1>3, <1>4, <1>5, <1>6, <1>7 DEF Take

\* The errors that RetryOrFail counts.
LEMMA RetryKeeps ==
    ASSUME IInv, NEW c \in Controllers, NEW k \in Checkpoints,
           k = work[c].st.checkpoint \/ <<work[c].st.checkpoint, k>> \in CheckpointStep,
           RetryOrFail(c, k)
    PROVE  IInv'
<1> DEFINE a == work[c].act
           old == work[c].st
<1>1. work[c].pc \in {"execute", "verify"} /\ Busy(c)
  BY DEF RetryOrFail, At, Busy
<1>2. /\ TypeOK /\ WorkSound /\ a \in Actions /\ old \in Status
      /\ old.retry < MaxRetries /\ Sound(a, old)
      /\ old.phase \in {"Running", "Verifying"}
  BY <1>1, JobStatus DEF IInv, WorkSound, JobSound
<1>3. PICK st : st = Degraded([old EXCEPT !.checkpoint = k])
  OBVIOUS
<1>4. /\ st \in Status /\ Follows(old, st)
      /\ st.started = old.started /\ st.retry = old.retry + 1
      /\ IF old.retry + 1 = MaxRetries THEN st.phase = "Failed" ELSE st.phase = old.phase
  BY <1>2, <1>3, DegradedFollows
<1>5. /\ Continue(c, "update", st)
      /\ UNCHANGED <<api, seen, queue, metric, crashes>> /\ expired' = expired
      /\ IF st.phase = "Failed" THEN Audit(a, "failed") ELSE UNCHANGED audit
  BY <1>3 DEF RetryOrFail, api
<1>6. AuditTyped /\ Records /\ (st.phase = "Failed" => "failed" \in audit'[a])
  BY <1>2, <1>5, AuditKept, NothingAudited
<1>7. work'[c].act = a
  BY <1>2, <1>5, <1>1, BusyJob DEF Continue, TypeOK
<1>8. Sound(a, st)'
  BY <1>2, <1>4, <1>5, <1>6, <1>7, MaxRetriesAssumption DEF Sound, Records, Status
<1> QED
  BY <1>1, <1>4, <1>5, <1>6, <1>8, ContinueKeeps

\* The return of the executor, on each of its paths, keeps it.
LEMMA ExecutorKeeps ==
    ASSUME IInv, NEW c \in Controllers, ExecutorReturns(c)
    PROVE  IInv'
<1> DEFINE a == work[c].act
           old == work[c].st
<1>t. TypeOK /\ HistorySound /\ WorkSound
  BY DEF IInv
<1>b. ASSUME work[c].pc \in {"execute", "verify"}
      PROVE  /\ Busy(c) /\ a \in Actions /\ old \in Status
             /\ work[c].pc = "execute" => old.phase = "Running"
             /\ work[c].pc = "verify" => old.phase = "Verifying"
             /\ Sound(a, old)
  BY <1>b, <1>t, JobStatus DEF Busy, WorkSound, JobSound
<1>a. ASSUME NEW st \in Status, Busy(c), Continue(c, "update", st)
      PROVE  work'[c].act = a
  BY <1>a, <1>t, BusyJob DEF Continue, TypeOK
<1>1. ASSUME NEW k \in Checkpoints, ExecuteProgress(c, k)
      PROVE  IInv'
  <2>1. work[c].pc = "execute" /\ Reach(c, k)
    BY <1>1 DEF ExecuteProgress, At
  <2>2. PICK st : st = [old EXCEPT !.checkpoint = k, !.waiting = FALSE]
    OBVIOUS
  <2>3. /\ st \in Status /\ st.phase = old.phase /\ st.retry = old.retry
        /\ st.started = old.started /\ st.checkpoint = k
    BY <1>b, <2>1, <2>2 DEF Status
  <2>4. Follows(old, st)
    BY <1>b, <2>1, <2>3 DEF Follows, PhaseStep, Reach
  <2>5. /\ Continue(c, "update", st) /\ UNCHANGED <<api, seen, queue, metric, crashes>>
        /\ expired' = expired /\ UNCHANGED audit
    BY <1>1, <2>2 DEF ExecuteProgress, api, report
  <2>6. Sound(a, st)'
    BY <1>b, <1>a, <2>1, <2>3, <2>5 DEF Sound
  <2> QED
    BY <2>1, <2>3, <2>4, <2>5, <2>6, <1>t, NothingAudited, ContinueKeeps
<1>2. ASSUME NEW k \in Checkpoints, ExecuteError(c, k)
      PROVE  IInv'
  BY <1>2, RetryKeeps DEF ExecuteError, Reach
<1>3. CASE ExecuteInProgress(c)
  <2>1. work[c].pc = "execute"
    BY <1>3 DEF ExecuteInProgress, At
  <2>2. PICK st : st = [old EXCEPT !.waiting = TRUE]
    OBVIOUS
  <2>3. /\ st \in Status /\ st.phase = old.phase /\ st.retry = old.retry
        /\ st.started = old.started /\ st.checkpoint = old.checkpoint
    BY <1>b, <2>1, <2>2 DEF Status
  <2>4. Follows(old, st)
    BY <1>b, <2>1, <2>3 DEF Follows, PhaseStep
  <2>5. /\ Continue(c, "update", st) /\ UNCHANGED <<api, seen, queue, metric, crashes>>
        /\ expired' = expired /\ UNCHANGED audit
    BY <1>3, <2>2 DEF ExecuteInProgress, api, report
  <2>6. Sound(a, st)'
    BY <1>b, <1>a, <2>1, <2>3, <2>5 DEF Sound
  <2> QED
    BY <2>1, <2>3, <2>4, <2>5, <2>6, <1>t, NothingAudited, ContinueKeeps
<1>4. CASE ExecuteDone(c)
  <2>1. work[c].pc = "execute"
    BY <1>4 DEF ExecuteDone, At
  <2>2. PICK st : st = Executed(old)
    OBVIOUS
  <2>3. st \in Status /\ Follows(old, st)
    BY <1>b, <2>1, <2>2, ExecutedFollows
  <2>5. /\ Continue(c, "update", st) /\ UNCHANGED <<api, seen, queue, metric, crashes>>
        /\ expired' = expired /\ UNCHANGED audit
    BY <1>4, <2>2 DEF ExecuteDone, api, report
  <2>6. Sound(a, st)'
    BY <1>b, <1>a, <2>1, <2>2, <2>3, <2>5 DEF Sound, Executed, Status
  <2> QED
    BY <2>1, <2>3, <2>5, <2>6, <1>t, NothingAudited, ContinueKeeps
<1>5. CASE VerifyError(c)
  <2>1. work[c].st.checkpoint \in Checkpoints
    BY <1>5, <1>b DEF VerifyError, At, Status
  <2> QED
    BY <1>5, <2>1, RetryKeeps DEF VerifyError
<1>6. CASE VerifyNotYet(c)
  <2>1. Busy(c) /\ Return(c, TRUE)
    BY <1>6 DEF VerifyNotYet, At, Busy
  <2>2. UNCHANGED <<log, expired, touches, seen, audit, metric, crashes>>
    BY <1>6 DEF VerifyNotYet, api, report
  <2>3. metric' \in [Actions -> 0 .. MetricCap]
    BY <2>2, <1>t DEF TypeOK
  <2> QED
    BY <2>1, <2>2, <2>3, ReturnKeeps
<1>7. CASE VerifyOk(c)
  <2>1. work[c].pc = "verify"
    BY <1>7 DEF VerifyOk, At
  <2>2. PICK st : st = Recovered(old)
    OBVIOUS
  <2>3. st \in Status /\ Follows(old, st)
    BY <1>b, <2>1, <2>2, RecoveredFollows
  <2>4. /\ Continue(c, "update", st) /\ UNCHANGED <<api, seen, queue, metric, crashes>>
        /\ expired' = expired /\ Audit(a, "succeeded")
    BY <1>7, <2>2 DEF VerifyOk, api
  <2>5. AuditTyped /\ Records /\ "succeeded" \in audit'[a]
    BY <2>1, <2>4, <1>b, <1>t, AuditKept
  <2>6. Sound(a, st)'
    BY <1>b, <1>a, <2>1, <2>2, <2>3, <2>4, <2>5 DEF Sound, Recovered, Status, Records
  <2> QED
    BY <2>1, <2>3, <2>4, <2>5, <2>6, ContinueKeeps
<1> QED
  BY <1>1, <1>2, <1>3, <1>4, <1>5, <1>6, <1>7 DEF ExecutorReturns

\* The status update, stored, refused or lost, keeps it.
LEMMA UpdateKeeps ==
    ASSUME IInv, NEW c \in Controllers, UpdateReturns(c)
    PROVE  IInv'
<1> DEFINE a == work[c].act
           st == work[c].st
<1>1. TypeOK /\ Busy(c)
  BY DEF UpdateReturns, UpdateOk, UpdateConflict, UpdateError, UpdateLost, At, Busy, IInv
<1>2. a \in Actions /\ st \in Status /\ Sound(a, st)
  BY <1>1, BusyJob DEF IInv, WorkSound, JobSound
<1>3. ASSUME metric' = metric \/ ObserveAction(a)
      PROVE  metric' \in [Actions -> 0 .. MetricCap]
  <2> DEFINE n == IF metric[a] < MetricCap THEN metric[a] + 1 ELSE metric[a]
  <2>1. metric \in [Actions -> 0 .. MetricCap]
    BY <1>1 DEF TypeOK
  <2>2. n \in 0 .. MetricCap
    BY <2>1, <1>2, BoundsAssumption
  <2>3. metric' = metric \/ metric' = [metric EXCEPT ![a] = n]
    BY <1>3 DEF ObserveAction
  <2> HIDE DEF n
  <2> QED
    BY <2>1, <2>2, <2>3
<1>4. ASSUME Store(a, st)
      PROVE  \/ log' = log
             \/ \E b \in Actions, v \in Versions :
                    Sound(b, v) /\ log' = [log EXCEPT ![b] = Append(@, v)]
  BY <1>2, <1>4 DEF Store, Versions
<1>5. (~Terminal(st.phase)) \in BOOLEAN /\ TRUE \in BOOLEAN
  OBVIOUS
<1>6. CASE UpdateOk(c)
  BY <1>1, <1>3, <1>4, <1>5, <1>6, ReturnKeeps DEF UpdateOk, CountOutcome
<1>7. CASE UpdateConflict(c)
  <2>1. UNCHANGED <<log, expired, touches, seen, audit, crashes>>
    BY <1>7 DEF UpdateConflict, api
  <2> QED
    BY <1>1, <1>3, <1>5, <1>7, <2>1, ReturnKeeps DEF UpdateConflict, CountOutcome
<1>8. CASE UpdateError(c)
  <2>1. UNCHANGED <<log, expired, touches, seen, audit, metric, crashes>>
    BY <1>8 DEF UpdateError, api, report
  <2> QED
    BY <1>1, <1>3, <1>5, <1>8, <2>1, ReturnKeeps DEF UpdateError
<1>9. CASE UpdateLost(c)
  BY <1>1, <1>3, <1>4, <1>5, <1>9, ReturnKeeps DEF UpdateLost, report
<1> QED
  BY <1>6, <1>7, <1>8, <1>9 DEF UpdateReturns

\* Everything that leaves the calls in progress alone, or ends them.
LEMMA OutsideKeeps ==
    ASSUME IInv,
           Grows, Records, HistorySound',
           log' \in [Actions -> Seq(Versions)],
           expired' \subseteq Actions,
           seen' \in [Controllers -> [Actions -> Nat]],
           \A c \in Controllers, a \in Actions : seen'[c][a] <= Len(log'[a]),
           queue' \in [Controllers -> SUBSET Actions],
           work' \in [Controllers -> Jobs],
           \A d \in Controllers : work'[d] = work[d] \/ ~Busy(d)',
           UNCHANGED report,
           crashes' \in 0 .. MaxCrashes, touches' \in 0 .. MaxTouches
    PROVE  IInv'
<1>1. TypeOK'
  BY DEF IInv, TypeOK, report
<1>2. WorkSound'
  BY WorkSoundKept DEF IInv
<1> QED
  BY <1>1, <1>2 DEF IInv

\* The start and the exit of a controller keep it.
LEMMA ProcessKeeps ==
    ASSUME IInv, NEW c \in Controllers, Start(c) \/ Crash(c)
    PROVE  IInv'
<1>t. TypeOK /\ HistorySound
  BY DEF IInv
<1>1. /\ UNCHANGED <<log, expired, touches, audit, metric>> /\ UNCHANGED report
      /\ crashes' \in 0 .. MaxCrashes
  BY <1>t, BoundsAssumption DEF Start, Crash, api, report, TypeOK
<1>2. Grows /\ Records /\ HistorySound'
  BY <1>1, <1>t, HistorySoundKept DEF Grows, Records
<1>3. /\ work' \in [Controllers -> Jobs]
      /\ \A d \in Controllers : work'[d] = work[d] \/ ~Busy(d)'
  <2>1. \/ work' = [work EXCEPT ![c] = Idle]
        \/ work' = [work EXCEPT ![c] = Down]
    BY DEF Start, Crash
  <2>2. Idle \in Jobs /\ Idle.pc = "idle" /\ Down \in Jobs /\ Down.pc = "down"
    BY DEF Jobs, Idle, Down, Job
  <2>3. work \in [Controllers -> Jobs]
    BY <1>t DEF TypeOK
  <2> QED
    BY <2>1, <2>2, <2>3 DEF Busy
<1>4. /\ seen' \in [Controllers -> [Actions -> Nat]]
      /\ queue' \in [Controllers -> SUBSET Actions]
      /\ \A d \in Controllers, a \in Actions : seen'[d][a] <= Len(log'[a])
  <2>1. CASE Start(c)
    <3>1. PICK list \in [Actions -> UNION {0 .. Len(log[a]) : a \in Actions}] :
            /\ \A a \in Actions : list[a] <= Len(log[a])
            /\ seen' = [seen EXCEPT ![c] = list]
            /\ queue' = [queue EXCEPT ![c] =
                            {a \in Actions : list[a] # 0 /\ log[a][list[a]] # Gone}]
      BY <2>1 DEF Start
    <3>2. list \in [Actions -> Nat]
      <4>1. \A a \in Actions : list[a] \in Nat
        <5>1. \A a \in Actions : list[a] \in UNION {0 .. Len(log[b]) : b \in Actions}
          OBVIOUS
        <5>2. \A b \in Actions : Len(log[b]) \in Nat
          BY <1>t, LenProperties DEF TypeOK
        <5> QED
          BY <5>1, <5>2
      <4> QED
        BY <4>1
    <3> QED
      BY <3>1, <3>2, <1>1, <1>t DEF TypeOK
  <2>2. CASE Crash(c)
    BY <2>2, <1>1, <1>t DEF Crash, TypeOK
  <2> QED
    BY <2>1, <2>2
<1> QED
  BY <1>1, <1>2, <1>3, <1>4, <1>t, OutsideKeeps DEF TypeOK

\* The delivery of a watch event keeps it.
LEMMA DeliverKeeps ==
    ASSUME IInv, NEW c \in Controllers, NEW a \in Actions, Deliver(c, a)
    PROVE  IInv'
<1>t. TypeOK /\ HistorySound
  BY DEF IInv
<1>1. /\ UNCHANGED <<log, expired, touches, work, audit, metric, crashes>>
      /\ UNCHANGED report
  BY DEF Deliver, api, report
<1>2. Grows /\ Records /\ HistorySound'
  BY <1>1, <1>t, HistorySoundKept DEF Grows, Records
<1>3. queue' \in [Controllers -> SUBSET Actions]
  BY <1>t DEF Deliver, TypeOK
<1>4. /\ seen' \in [Controllers -> [Actions -> Nat]]
      /\ \A d \in Controllers, b \in Actions : seen'[d][b] <= Len(log'[b])
  <2>1. /\ seen \in [Controllers -> [Actions -> Nat]]
        /\ \A d \in Controllers, b \in Actions : seen[d][b] <= Len(log[b])
        /\ seen[c][a] < Len(log[a]) /\ Len(log[a]) \in Nat
    BY <1>t, LenProperties DEF Deliver, TypeOK
  <2>2. seen' = [seen EXCEPT ![c] = [seen[c] EXCEPT ![a] = seen[c][a] + 1]]
    BY <2>1 DEF Deliver
  <2>3. [seen[c] EXCEPT ![a] = seen[c][a] + 1] \in [Actions -> Nat]
    BY <2>1
  <2>4. seen' \in [Controllers -> [Actions -> Nat]]
    BY <2>1, <2>2, <2>3
  <2>5. \A d \in Controllers, b \in Actions :
            seen'[d][b] = IF d = c /\ b = a THEN seen[c][a] + 1 ELSE seen[d][b]
    BY <2>1, <2>2
  <2> QED
    BY <2>1, <2>4, <2>5, <1>1
<1> QED
  BY <1>1, <1>2, <1>3, <1>4, <1>t, OutsideKeeps DEF TypeOK

\* API clients and time keep it.
LEMMA EnvironmentKeeps ==
    ASSUME IInv, Environment
    PROVE  IInv'
<1>t. TypeOK /\ HistorySound
  BY DEF IInv
<1>1. PICK a \in Actions : Create(a) \/ Touch(a) \/ Delete(a) \/ Expire(a)
  BY DEF Environment
<1>2. /\ UNCHANGED <<seen, queue, work, audit, metric, crashes>>
      /\ UNCHANGED report
      /\ touches' \in 0 .. MaxTouches
      /\ expired' \subseteq Actions /\ Records
  BY <1>1, <1>t, BoundsAssumption
     DEF Create, Touch, Delete, Expire, report, TypeOK, Records
<1>3. \/ log' = log
      \/ \E v \in Versions : Sound(a, v)' /\ log' = [log EXCEPT ![a] = Append(@, v)]
  <2>1. CASE Create(a)
    <3>1. log' = [log EXCEPT ![a] = Append(@, NewStatus)]
      <4>1. log[a] = << >> /\ log' = [log EXCEPT ![a] = <<NewStatus>>]
        BY <2>1 DEF Create
      <4>2. Append(<< >>, NewStatus) = <<NewStatus>>
        OBVIOUS
      <4> QED
        BY <4>1, <4>2
    <3>2. PICK v : v = NewStatus
      OBVIOUS
    <3>3. v \in Versions /\ v.started = FALSE /\ v.retry = 0
      BY <3>2, NewStatusType DEF Versions, NewStatus
    <3>4. v.phase # "Failed" /\ v.phase # "Succeeded"
      BY <3>2 DEF NewStatus
    <3>5. Sound(a, v)'
      BY <3>3, <3>4, MaxRetriesAssumption DEF Sound
    <3> QED
      BY <3>1, <3>2, <3>3, <3>5
  <2>2. CASE Touch(a)
    <3>1. Exists(a) /\ log' = [log EXCEPT ![a] = Append(@, Current(a))]
      BY <2>2 DEF Touch
    <3>2. log[a] \in Seq(Versions) /\ log[a] # << >>
      BY <3>1, <1>t DEF TypeOK, Exists
    <3>3. Len(log[a]) \in 1 .. Len(log[a])
      BY <3>2, EmptySeq, LenProperties
    <3>4. PICK v : v = Current(a)
      OBVIOUS
    <3>5. v \in Versions
      BY <3>2, <3>3, <3>4, ElementOfSeq DEF Current
    <3>6. Sound(a, v)
      BY <3>3, <3>4, <1>t DEF HistorySound, Current
    <3>7. Sound(a, v)'
      BY <3>6, <1>2 DEF Sound, Records
    <3> QED
      BY <3>1, <3>4, <3>5, <3>7
  <2>3. CASE Delete(a)
    <3>1. log' = [log EXCEPT ![a] = Append(@, Gone)]
      BY <2>3 DEF Delete
    <3>2. PICK v : v = Gone
      OBVIOUS
    <3>3. /\ v \in Versions
          /\ v.phase = "Gone" /\ v.started = FALSE /\ v.retry = 0
      BY <3>2 DEF Versions, Gone, NewStatus
    <3>4. Sound(a, v)'
      BY <3>3, MaxRetriesAssumption DEF Sound
    <3> QED
      BY <3>1, <3>2, <3>3, <3>4
  <2>4. CASE Expire(a)
    BY <2>4 DEF Expire
  <2> QED
    BY <1>1, <2>1, <2>2, <2>3, <2>4
<1>4. /\ HistorySound' /\ Grows
      /\ log' \in [Actions -> Seq(Versions)]
      /\ \A d \in Controllers, b \in Actions : seen[d][b] <= Len(log'[b])
  <2>1. CASE log' = log
    BY <2>1, <1>2, <1>t, HistorySoundKept DEF Grows, TypeOK
  <2>2. CASE \E v \in Versions : Sound(a, v)' /\ log' = [log EXCEPT ![a] = Append(@, v)]
    <3>1. PICK v \in Versions : Sound(a, v)' /\ log' = [log EXCEPT ![a] = Append(@, v)]
      BY <2>2
    <3> QED
      BY <3>1, <1>2, <1>t, Appended
  <2> QED
    BY <1>3, <2>1, <2>2
<1>5. /\ seen' \in [Controllers -> [Actions -> Nat]]
      /\ \A d \in Controllers, b \in Actions : seen'[d][b] <= Len(log'[b])
      /\ queue' \in [Controllers -> SUBSET Actions]
      /\ work' \in [Controllers -> Jobs]
      /\ \A d \in Controllers : work'[d] = work[d] \/ ~Busy(d)'
      /\ crashes' \in 0 .. MaxCrashes
  BY <1>2, <1>4, <1>t DEF TypeOK
<1> QED
  BY <1>2, <1>4, <1>5, OutsideKeeps

(***************************************************************************)
(* The theorems.                                                           *)
(***************************************************************************)

\* The invariant holds at first.
LEMMA InitSound == Init => IInv
<1> SUFFICES ASSUME Init PROVE IInv
  OBVIOUS
<1>1. TypeOK
  <2>1. << >> \in Seq(Versions) /\ Len(<< >>) = 0
    OBVIOUS
  <2>2. Down \in Jobs
    BY DEF Jobs
  <2> QED
    BY <2>1, <2>2, BoundsAssumption DEF Init, TypeOK
<1>2. HistorySound
  BY DEF Init, HistorySound
<1>3. WorkSound
  BY DEF Init, WorkSound, Busy, Down, Job
<1> QED
  BY <1>1, <1>2, <1>3 DEF IInv

\* Every step keeps the invariant.
LEMMA NextSound == IInv /\ [Next]_vars => IInv'
<1> SUFFICES ASSUME IInv, [Next]_vars PROVE IInv'
  OBVIOUS
<1>1. CASE UNCHANGED vars
  <2>1. UNCHANGED <<log, expired, seen, queue, work, audit, metric, crashes, touches>>
    BY <1>1 DEF vars
  <2>2. TypeOK'
    BY <2>1 DEF IInv, TypeOK
  <2>3. Grows /\ Records
    BY <2>1 DEF Grows, Records
  <2> QED
    BY <2>1, <2>2, <2>3, HistorySoundKept, WorkSoundKept DEF IInv
<1>2. ASSUME NEW c \in Controllers, Controller(c)
      PROVE  IInv'
  BY <1>2, TakeKeeps, DeliverKeeps, ExecutorKeeps, UpdateKeeps, ProcessKeeps
     DEF Controller
<1> QED
  BY <1>1, <1>2, EnvironmentKeeps DEF Next

\* The inductive invariant holds for every number of controllers and Actions,
\* every executor and every retry budget: what a call in progress is about to
\* write follows from a version that was stored, and every stored version is
\* explained by its error count, its deadline and the audit log.
THEOREM Soundness == Spec => []IInv
<1> QED
  BY InitSound, NextSound, PTL DEF Spec

\* Type correctness of the reconciler's state: in particular no cache runs
\* ahead of the API server and the error counter never passes MaxRetries.
THEOREM TypeCorrect == Spec => []TypeOK
<1>1. IInv => TypeOK
  BY DEF IInv
<1> QED
  BY <1>1, Soundness, PTL

\* What is stored of an Action now is sound.
LEMMA CurrentSound ==
    ASSUME IInv, NEW a \in Actions, Exists(a)
    PROVE  /\ Len(log[a]) \in 1 .. Len(log[a])
           /\ Current(a) = log[a][Len(log[a])]
           /\ Current(a) \in Status
           /\ Sound(a, Current(a))
<1>1. log[a] \in Seq(Versions) /\ log[a] # << >>
  BY DEF IInv, TypeOK, Exists
<1>2. Len(log[a]) \in 1 .. Len(log[a])
  BY <1>1, EmptySeq, LenProperties
<1>3. log[a][Len(log[a])] \in Versions /\ log[a][Len(log[a])] # Gone
  BY <1>1, <1>2, ElementOfSeq DEF Exists
<1> QED
  BY <1>2, <1>3 DEF Current, Versions, IInv, HistorySound

\* No Action fails without a reason, and the last allowed error ends it.
THEOREM FailuresJustified == Spec => []FailureJustified
<1>1. IInv => FailureJustified
  BY CurrentSound DEF FailureJustified, Sound
<1> QED
  BY <1>1, Soundness, PTL

\* No outcome is stored that the audit log does not explain.
THEOREM AuditTrailKept == Spec => []AuditTrail
<1>1. IInv => AuditTrail
  BY CurrentSound DEF AuditTrail, Sound
<1> QED
  BY <1>1, Soundness, PTL

(***************************************************************************)
(* What one step may do to the history of an Action.                       *)
(***************************************************************************)

Written(a, v) == Current(a) \in Status /\ ~Terminal(Current(a).phase) /\ Follows(Current(a), v)

HistoryStep(a) ==
    \/ log'[a] = log[a]
    \/ log[a] = << >> /\ log'[a] = <<NewStatus>>
    \/ /\ Exists(a)
       /\ \E v \in Versions :
            /\ log'[a] = Append(log[a], v)
            /\ v = Current(a) \/ v = Gone \/ (v \in Status /\ Written(a, v))

\* A status update is a step in the history of its Action.
LEMMA StoreStep ==
    ASSUME IInv, NEW c \in Controllers, UpdateOk(c) \/ UpdateLost(c)
    PROVE  \A a \in Actions : HistoryStep(a)
<1> DEFINE b == work[c].act
           st == work[c].st
<1>1. At(c, "update") /\ Fresh(c) /\ Store(b, st)
  BY DEF UpdateOk, UpdateLost
<1>2. Busy(c) /\ work[c].pc = "update"
  BY <1>1 DEF At, Busy
<1>3. b \in Actions /\ st \in Status /\ JobSound(c)
  BY <1>2, JobStatus DEF IInv, WorkSound
<1>4. Exists(b) /\ work[c].ver = Len(log[b])
  BY <1>1 DEF Fresh
<1>5. Written(b, st)
  BY <1>2, <1>3, <1>4 DEF JobSound, Written, Current
<1>6. log \in [Actions -> Seq(Versions)]
  BY DEF IInv, TypeOK
<1>7. CASE log' = log
  BY <1>7 DEF HistoryStep
<1>8. CASE log' = [log EXCEPT ![b] = Append(@, st)]
  <2>1. log'[b] = Append(log[b], st) /\ \A a \in Actions \ {b} : log'[a] = log[a]
    BY <1>3, <1>6, <1>8
  <2>2. st \in Versions
    BY <1>3 DEF Versions
  <2> QED
    BY <2>1, <2>2, <1>3, <1>4, <1>5 DEF HistoryStep
<1> QED
  BY <1>1, <1>7, <1>8 DEF Store

\* So is what API clients do; time stores nothing.
LEMMA EnvironmentStep ==
    ASSUME IInv, Environment
    PROVE  \A a \in Actions : HistoryStep(a)
<1>1. PICK b \in Actions : Create(b) \/ Touch(b) \/ Delete(b) \/ Expire(b)
  BY DEF Environment
<1>2. log \in [Actions -> Seq(Versions)]
  BY DEF IInv, TypeOK
<1>3. CASE Create(b)
  BY <1>2, <1>3 DEF Create, HistoryStep
<1>4. CASE Touch(b)
  <2>1. Exists(b) /\ Current(b) \in Versions
    BY <1>4, CurrentSound DEF Touch, Versions
  <2>2. log'[b] = Append(log[b], Current(b)) /\ \A a \in Actions \ {b} : log'[a] = log[a]
    BY <1>2, <1>4 DEF Touch
  <2> QED
    BY <2>1, <2>2 DEF HistoryStep
<1>5. CASE Delete(b)
  <2>1. Exists(b) /\ Gone \in Versions
    BY <1>5 DEF Delete, Versions
  <2>2. log'[b] = Append(log[b], Gone) /\ \A a \in Actions \ {b} : log'[a] = log[a]
    BY <1>2, <1>5 DEF Delete
  <2> QED
    BY <2>1, <2>2 DEF HistoryStep
<1>6. CASE Expire(b)
  BY <1>6 DEF Expire, HistoryStep
<1> QED
  BY <1>1, <1>3, <1>4, <1>5, <1>6

\* A controller stores nothing but by its status update.
LEMMA ControllerStep ==
    ASSUME NEW c \in Controllers, Controller(c), ~(UpdateOk(c) \/ UpdateLost(c))
    PROVE  log' = log
<1>1. ASSUME NEW a \in Actions, Take(c, a) \/ Deliver(c, a)
      PROVE  log' = log
  BY <1>1 DEF Take, Skip, RejectUnsupported, Accept, StartExecution, FailTimedOut,
              CallExecute, CallVerify, Deliver, api
<1>2. CASE ExecutorReturns(c)
  BY <1>2 DEF ExecutorReturns, ExecuteProgress, ExecuteError, ExecuteInProgress,
              ExecuteDone, VerifyError, VerifyNotYet, VerifyOk, RetryOrFail, api
<1>3. CASE UpdateReturns(c)
  BY <1>3 DEF UpdateReturns, UpdateConflict, UpdateError, api
<1>4. CASE Start(c) \/ Crash(c)
  BY <1>4 DEF Start, Crash, api
<1> QED
  BY <1>1, <1>2, <1>3, <1>4 DEF Controller

\* Every step is one in the history of each Action, or leaves it alone.
LEMMA NextStep ==
    ASSUME IInv, [Next]_vars
    PROVE  \A a \in Actions : HistoryStep(a)
<1>1. CASE UNCHANGED vars
  BY <1>1 DEF vars, HistoryStep
<1>2. ASSUME NEW c \in Controllers, Controller(c)
      PROVE  \A a \in Actions : HistoryStep(a)
  BY <1>2, StoreStep, ControllerStep DEF HistoryStep
<1> QED
  BY <1>1, <1>2, EnvironmentStep DEF Next

\* The current version before and after a version more.
LEMMA CurrentAfter ==
    ASSUME IInv, NEW a \in Actions, NEW v \in Versions, log'[a] = Append(log[a], v)
    PROVE  /\ log'[a] # << >> /\ Current(a)' = v
           /\ Exists(a)' <=> v # Gone
           /\ PhaseOf(a)' = v.phase
<1>1. log[a] \in Seq(Versions)
  BY DEF IInv, TypeOK
<1>2. /\ Append(log[a], v) # << >>
      /\ Len(Append(log[a], v)) = Len(log[a]) + 1
      /\ Append(log[a], v)[Len(log[a]) + 1] = v
  BY <1>1, AppendProperties
<1> QED
  BY <1>2 DEF Current, Exists, PhaseOf

Progress(a) ==
    (Exists(a) /\ Exists(a)') =>
        /\ Terminal(Current(a).phase) => Current(a)' = Current(a)
        /\ Current(a).started => Current(a)'.started
        /\ Current(a)'.retry \in {Current(a).retry, Current(a).retry + 1}
        /\ \/ Current(a)'.checkpoint = Current(a).checkpoint
           \/ <<Current(a).checkpoint, Current(a)'.checkpoint>> \in CheckpointStep

\* No step in a history takes anything back.
LEMMA ProgressStep ==
    ASSUME IInv, [Next]_vars, NEW a \in Actions
    PROVE  Progress(a)
<1>1. HistoryStep(a)
  BY NextStep
<1>2. CASE log'[a] = log[a]
  BY <1>2 DEF Progress, Current, Exists
<1>3. CASE log[a] = << >>
  BY <1>3 DEF Progress, Exists
<1>4. ASSUME NEW v \in Versions, log'[a] = Append(log[a], v),
             v = Current(a) \/ v = Gone \/ (v \in Status /\ Written(a, v))
      PROVE  Progress(a)
  <2>1. Current(a)' = v /\ (Exists(a)' <=> v # Gone)
    BY <1>4, CurrentAfter
  <2> QED
    BY <1>4, <2>1 DEF Progress, Written, Follows
<1> QED
  BY <1>1, <1>2, <1>3, <1>4 DEF HistoryStep

\* Whatever stale versions controllers work from, no stored progress is lost.
THEOREM ProgressKept == Spec => MonotoneProgress
<1>1. IInv /\ [Next]_vars => [\A a \in Actions : Progress(a)]_vars
  BY ProgressStep
<1>2. Spec => [][\A a \in Actions : Progress(a)]_vars
  BY <1>1, Soundness, PTL DEF Spec
<1> QED
  BY <1>2 DEF MonotoneProgress, Progress

(***************************************************************************)
(* The refinement of the abstract lifecycle.                               *)
(***************************************************************************)

\* A step in a history is a step of the lifecycle or leaves the phase alone.
LEMMA PhaseStepIsAbstract ==
    ASSUME IInv, [Next]_vars, NEW a \in Actions
    PROVE  \/ PhaseOf(a)' = PhaseOf(a)
           \/ PhaseOf(a) = "Absent" /\ PhaseOf(a)' = ""
           \/ /\ PhaseOf(a) \in Phases /\ ~Terminal(PhaseOf(a))
              /\ PhaseOf(a)' = NextPhase(PhaseOf(a)) \/ PhaseOf(a)' = "Failed"
           \/ PhaseOf(a) \in Phases /\ PhaseOf(a)' = "Gone"
<1>1. HistoryStep(a)
  BY NextStep
<1>2. CASE log'[a] = log[a]
  BY <1>2 DEF PhaseOf, Current
<1>3. CASE log[a] = << >> /\ log'[a] = <<NewStatus>>
  <2>1. PhaseOf(a) = "Absent"
    BY <1>3 DEF PhaseOf
  <2>2. NewStatus.phase = ""
    BY DEF NewStatus
  <2>3. <<NewStatus>> # << >> /\ <<NewStatus>>[Len(<<NewStatus>>)] = NewStatus
    OBVIOUS
  <2>4. PhaseOf(a)' = NewStatus.phase
    BY <1>3, <2>3 DEF PhaseOf, Current
  <2> QED
    BY <2>1, <2>2, <2>4
<1>4. ASSUME Exists(a), NEW v \in Versions, log'[a] = Append(log[a], v),
             v = Current(a) \/ v = Gone \/ (v \in Status /\ Written(a, v))
      PROVE  \/ PhaseOf(a)' = PhaseOf(a)
             \/ /\ PhaseOf(a) \in Phases /\ ~Terminal(PhaseOf(a))
                /\ PhaseOf(a)' = NextPhase(PhaseOf(a)) \/ PhaseOf(a)' = "Failed"
             \/ PhaseOf(a) \in Phases /\ PhaseOf(a)' = "Gone"
  <2>1. PhaseOf(a)' = v.phase
    BY <1>4, CurrentAfter
  <2>2. PhaseOf(a) = Current(a).phase /\ Current(a).phase \in Phases
    BY <1>4, CurrentSound DEF PhaseOf, Exists, Status
  <2> QED
    BY <1>4, <2>1, <2>2, GoneType DEF Written, Follows, PhaseStep
<1> QED
  BY <1>1, <1>2, <1>3, <1>4 DEF HistoryStep

\* A step writes one Action at most.
LEMMA OneAction ==
    ASSUME IInv, [Next]_vars
    PROVE  log' = log \/ \E a \in Actions : \A b \in Actions \ {a} : log'[b] = log[b]
<1>1. CASE UNCHANGED vars
  BY <1>1 DEF vars
<1>2. ASSUME NEW c \in Controllers, Controller(c)
      PROVE  log' = log \/ \E a \in Actions : \A b \in Actions \ {a} : log'[b] = log[b]
  <2>1. CASE UpdateOk(c) \/ UpdateLost(c)
    <3>1. Busy(c) /\ Store(work[c].act, work[c].st)
      BY <2>1 DEF UpdateOk, UpdateLost, At, Busy
    <3>2. work[c].act \in Actions
      BY <3>1, JobStatus DEF IInv
    <3> QED
      BY <3>1, <3>2 DEF Store, IInv, TypeOK
  <2> QED
    BY <2>1, <1>2, ControllerStep
<1>3. CASE Environment
  BY <1>3 DEF Environment, Create, Touch, Delete, Expire, IInv, TypeOK
<1> QED
  BY <1>1, <1>2, <1>3 DEF Next

\* The reconciler implements the lifecycle its users are promised: phases are
\* entered in order, one at a time, and a terminal phase is never left.
THEOREM LifecycleImplemented == Spec => ImplementsLifecycle
<1> DEFINE phases == [a \in Actions |-> PhaseOf(a)]
<1>1. Init => Lifecycle!Init
  BY DEF Init, Lifecycle!Init, PhaseOf
<1>2. ASSUME IInv, [Next]_vars
      PROVE  [Lifecycle!Next]_phases
  <2>1. CASE log' = log
    BY <2>1 DEF PhaseOf, Current
  <2>2. CASE \E a \in Actions : \A b \in Actions \ {a} : log'[b] = log[b]
    <3>1. PICK a \in Actions : \A b \in Actions \ {a} : log'[b] = log[b]
      BY <2>2
    <3>2. \A b \in Actions \ {a} : PhaseOf(b)' = PhaseOf(b)
      BY <3>1 DEF PhaseOf, Current
    <3>3. phases' = [phases EXCEPT ![a] = PhaseOf(a)']
      BY <3>2
    <3>4. phases[a] = PhaseOf(a)
      OBVIOUS
    <3> HIDE DEF phases
    <3>5. CASE PhaseOf(a)' = PhaseOf(a)
      BY <3>3, <3>4, <3>5 DEF phases
    <3>6. CASE PhaseOf(a) = "Absent" /\ PhaseOf(a)' = ""
      <4>1. Lifecycle!Create(a)
        BY <3>3, <3>4, <3>6 DEF Lifecycle!Create, phases
      <4> QED
        BY <4>1 DEF Lifecycle!Next
    <3>7. CASE PhaseOf(a) \in Phases /\ ~Terminal(PhaseOf(a))
               /\ PhaseOf(a)' = NextPhase(PhaseOf(a))
      <4>1. Lifecycle!Advance(a)
        BY <3>3, <3>4, <3>7 DEF Lifecycle!Advance, Lifecycle!Active, phases,
               Lifecycle!Phases, Lifecycle!Terminal, Lifecycle!NextPhase, Phases, Terminal, NextPhase
      <4> QED
        BY <4>1 DEF Lifecycle!Next
    <3>8. CASE PhaseOf(a) \in Phases /\ ~Terminal(PhaseOf(a)) /\ PhaseOf(a)' = "Failed"
      <4>1. Lifecycle!Fail(a)
        BY <3>3, <3>4, <3>8 DEF Lifecycle!Fail, Lifecycle!Active, phases,
               Lifecycle!Phases, Lifecycle!Terminal, Phases, Terminal
      <4> QED
        BY <4>1 DEF Lifecycle!Next
    <3>9. CASE PhaseOf(a) \in Phases /\ PhaseOf(a)' = "Gone"
      <4>1. Lifecycle!Delete(a)
        BY <3>3, <3>4, <3>9 DEF Lifecycle!Delete, phases, Lifecycle!Phases, Phases
      <4> QED
        BY <4>1 DEF Lifecycle!Next
    <3> QED
      BY <1>2, <3>5, <3>6, <3>7, <3>8, <3>9, PhaseStepIsAbstract
  <2> QED
    BY <1>2, <2>1, <2>2, OneAction
<1> QED
  BY <1>1, <1>2, Soundness, PTL DEF Spec, ImplementsLifecycle, Lifecycle!Spec

(***************************************************************************)
(* No Action is lost by a controller.                                      *)
(***************************************************************************)

Held(c, a) ==
    (~At(c, "down") /\ seen[c][a] = Len(log[a]) /\ Unsettled(Cached(c, a)))
        => a \in queue[c] \/ work[c].act = a

\* A step that adds to the queue of c at most, and leaves its cache and its
\* call in progress alone.
LEMMA HeldKept ==
    ASSUME TypeOK, Grows, NEW c \in Controllers, NEW a \in Actions, Held(c, a),
           work'[c] = work[c], seen'[c] = seen[c], queue[c] \subseteq queue'[c]
    PROVE  Held(c, a)'
<1>1. seen[c][a] \in Nat /\ seen[c][a] <= Len(log[a]) /\ log[a] \in Seq(Versions)
  BY DEF TypeOK
<1>2. CASE log'[a] = log[a]
  BY <1>2 DEF Held, At, Cached
<1>3. ASSUME NEW v \in Versions, log'[a] = Append(log[a], v)
      PROVE  Held(c, a)'
  <2>1. Len(log'[a]) = Len(log[a]) + 1 /\ Len(log[a]) \in Nat
    BY <1>1, <1>3, AppendProperties, LenProperties
  <2>2. seen'[c][a] # Len(log'[a])
    BY <1>1, <2>1
  <2> QED
    BY <2>2 DEF Held
<1> QED
  BY <1>2, <1>3 DEF Grows

\* Every step keeps the stored versions and adds at most one.
LEMMA StepGrows ==
    ASSUME IInv, [Next]_vars
    PROVE  Grows
<1>1. Append(<< >>, NewStatus) = <<NewStatus>>
  OBVIOUS
<1>2. NewStatus \in Versions
  BY NewStatusType DEF Versions
<1>3. \A a \in Actions : HistoryStep(a)
  BY NextStep
<1> QED
  BY <1>1, <1>2, <1>3 DEF HistoryStep, Grows

\* A step within a call in progress, or one that ends it and queues the key
\* unless the Action has been finished.
LEMMA HeldByWorker ==
    ASSUME IInv, [Next]_vars, NEW c \in Controllers, NEW a \in Actions, Held(c, a),
           Busy(c), seen' = seen,
           \/ queue' = queue /\ work'[c].act = work[c].act
           \/ Return(c, TRUE)
           \/ UpdateOk(c)
    PROVE  Held(c, a)'
<1>t. TypeOK
  BY DEF IInv
<1>1. /\ seen[c][a] \in Nat /\ seen[c][a] <= Len(log[a]) /\ log[a] \in Seq(Versions)
      /\ Len(log[a]) \in Nat
  BY <1>t, LenProperties DEF TypeOK
<1>2. work[c].act \in Actions /\ ~At(c, "down")
  BY <1>t, BusyJob DEF Busy, At
<1>3. CASE log'[a] # log[a]
  <2>1. PICK v \in Versions : log'[a] = Append(log[a], v)
    BY <1>3, StepGrows DEF Grows
  <2>2. Len(log'[a]) = Len(log[a]) + 1
    BY <1>1, <2>1, AppendProperties
  <2>3. seen'[c][a] # Len(log'[a])
    BY <1>1, <2>2
  <2> QED
    BY <2>3 DEF Held
<1>4. CASE log'[a] = log[a]
  <2> SUFFICES ASSUME a \in queue[c] \/ work[c].act = a
               PROVE  Held(c, a)'
    BY <1>2, <1>4 DEF Held, Cached
  <2>1. CASE queue' = queue /\ work'[c].act = work[c].act
    BY <2>1 DEF Held
  <2>2. CASE Return(c, TRUE)
    BY <2>2, <1>2, <1>t DEF Return, Held, TypeOK
  <2>3. CASE UpdateOk(c) /\ ~Return(c, TRUE)
    <3>1. Return(c, FALSE) /\ Terminal(work[c].st.phase)
      BY <2>3 DEF UpdateOk
    <3>2. work[c].act # a
      <4> SUFFICES ASSUME work[c].act = a
                   PROVE  FALSE
        OBVIOUS
      <4>1. Fresh(c) /\ Store(a, work[c].st) /\ JobSound(c)
        BY <2>3 DEF UpdateOk, IInv, WorkSound
      <4>2. ~Terminal(Current(a).phase)
        BY <4>1 DEF Fresh, JobSound, Current
      <4>3. log' = [log EXCEPT ![a] = Append(@, work[c].st)]
        BY <4>1, <4>2, <3>1 DEF Store
      <4>4. log'[a] = Append(log[a], work[c].st) /\ work[c].st \in Versions
        BY <4>3, <1>t, BusyJob DEF TypeOK, Versions
      <4>5. Len(Append(log[a], work[c].st)) = Len(log[a]) + 1
        BY <1>1, <4>4, AppendProperties
      <4> QED
        BY <1>1, <1>4, <4>4, <4>5
    <3>3. queue'[c] = queue[c]
      BY <3>1, <1>t DEF Return, TypeOK
    <3> QED
      BY <3>2, <3>3 DEF Held
  <2> QED
    BY <2>1, <2>2, <2>3
<1> QED
  BY <1>3, <1>4

\* A controller that takes another key, or this one, still holds the Action.
LEMMA HeldByTake ==
    ASSUME IInv, NEW c \in Controllers, NEW a \in Actions, Held(c, a),
           NEW b \in Actions, Take(c, b)
    PROVE  Held(c, a)'
<1>t. TypeOK
  BY DEF IInv
<1>1. Get(c, b) /\ UNCHANGED <<log, seen>> /\ queue' = [queue EXCEPT ![c] = @ \ {b}]
  BY DEF Take, Skip, RejectUnsupported, Accept, StartExecution, FailTimedOut,
         CallExecute, CallVerify, Begin, api
<1>2. work[c].act # a
  <2>1. work[c].pc = "idle"
    BY <1>1 DEF Get, At
  <2>2. work[c] \in Jobs /\ Down.pc = "down" /\ Idle.act = NoAction
    BY <1>t DEF TypeOK, Down, Idle, Job
  <2>3. work[c] = Idle
    BY <2>1, <2>2 DEF Jobs
  <2> QED
    BY <2>2, <2>3, NoActionAssumption
<1>3. CASE a # b
  BY <1>1, <1>2, <1>3, <1>t DEF Held, Get, At, Cached, TypeOK
<1>4. CASE a = b
  <2>1. CASE Skip(c, b)
    BY <2>1, <1>1, <1>4 DEF Skip, Held, Cached
  <2>2. CASE ~Skip(c, b)
    <3>1. PICK pc, st : Begin(c, b, pc, st)
      BY <2>2 DEF Take, RejectUnsupported, Accept, StartExecution, FailTimedOut,
                  CallExecute, CallVerify
    <3>2. work'[c].act = b
      BY <3>1, <1>t DEF Begin, Job, TypeOK
    <3> QED
      BY <3>2, <1>4 DEF Held
  <2> QED
    BY <2>1, <2>2
<1> QED
  BY <1>3, <1>4

\* Whoever holds an Action it has to work on goes on to hold it.
LEMMA HeldStep ==
    ASSUME IInv, [Next]_vars, NEW c \in Controllers, NEW a \in Actions, Held(c, a)
    PROVE  Held(c, a)'
<1>t. TypeOK /\ Grows
  BY StepGrows DEF IInv
<1>1. CASE UNCHANGED vars
  BY <1>1, <1>t, HeldKept DEF vars
<1>2. CASE Environment
  BY <1>2, <1>t, HeldKept DEF Environment, Create, Touch, Delete, Expire
<1>3. ASSUME NEW d \in Controllers, Controller(d), d # c
      PROVE  Held(c, a)'
  <2>1. work'[c] = work[c] /\ seen'[c] = seen[c] /\ queue'[c] = queue[c]
    <3>1. ASSUME NEW b \in Actions, Take(d, b) \/ Deliver(d, b)
          PROVE  work'[c] = work[c] /\ seen'[c] = seen[c] /\ queue'[c] = queue[c]
      BY <3>1, <1>3, <1>t DEF Take, Skip, RejectUnsupported, Accept, StartExecution,
         FailTimedOut, CallExecute, CallVerify, Deliver, Begin, TypeOK
    <3>2. CASE ExecutorReturns(d)
      BY <3>2, <1>3, <1>t DEF ExecutorReturns, ExecuteProgress, ExecuteError,
         ExecuteInProgress, ExecuteDone, VerifyError, VerifyNotYet, VerifyOk,
         RetryOrFail, Continue, Return, TypeOK
    <3>3. CASE UpdateReturns(d)
      BY <3>3, <1>3, <1>t DEF UpdateReturns, UpdateOk, UpdateConflict, UpdateError,
         UpdateLost, Return, TypeOK
    <3>4. CASE Start(d) \/ Crash(d)
      BY <3>4, <1>3, <1>t DEF Start, Crash, TypeOK
    <3> QED
      BY <1>3, <3>1, <3>2, <3>3, <3>4 DEF Controller
  <2> QED
    BY <2>1, <1>t, HeldKept
<1>4. CASE Controller(c)
  <2>1. ASSUME NEW b \in Actions, Take(c, b)
        PROVE  Held(c, a)'
    BY <2>1, HeldByTake
  <2>2. ASSUME NEW b \in Actions, Deliver(c, b)
        PROVE  Held(c, a)'
    <3>1. /\ UNCHANGED <<log, work>>
          /\ queue' = [queue EXCEPT ![c] = @ \cup {b}]
          /\ seen' = [seen EXCEPT ![c][b] = @ + 1]
      BY <2>2 DEF Deliver, api
    <3>2. CASE a = b
      BY <3>1, <3>2, <1>t DEF Held, TypeOK
    <3>3. CASE a # b
      <4>1. seen'[c][a] = seen[c][a] /\ queue[c] \subseteq queue'[c]
        BY <3>1, <3>3, <1>t DEF TypeOK
      <4> QED
        BY <3>1, <4>1 DEF Held, At, Cached
    <3> QED
      BY <3>2, <3>3
  <2>3. CASE ExecutorReturns(c)
    <3>1. Busy(c) /\ seen' = seen
      BY <2>3 DEF ExecutorReturns, ExecuteProgress, ExecuteError, ExecuteInProgress,
         ExecuteDone, VerifyError, VerifyNotYet, VerifyOk, RetryOrFail, At, Busy
    <3>2. CASE VerifyNotYet(c)
      BY <3>1, <3>2, HeldByWorker DEF VerifyNotYet
    <3>3. CASE ~VerifyNotYet(c)
      <4>1. queue' = queue /\ \E st : Continue(c, "update", st)
        BY <2>3, <3>3 DEF ExecutorReturns, ExecuteProgress, ExecuteError,
           ExecuteInProgress, ExecuteDone, VerifyError, VerifyOk, RetryOrFail
      <4>2. work'[c].act = work[c].act
        BY <4>1, <3>1, <1>t, BusyJob DEF Continue, TypeOK
      <4> QED
        BY <4>1, <4>2, <3>1, HeldByWorker
    <3> QED
      BY <3>2, <3>3
  <2>4. CASE UpdateReturns(c)
    <3>1. Busy(c) /\ seen' = seen /\ (Return(c, TRUE) \/ UpdateOk(c))
      BY <2>4 DEF UpdateReturns, UpdateOk, UpdateConflict, UpdateError, UpdateLost, At, Busy
    <3> QED
      BY <3>1, HeldByWorker
  <2>5. CASE Start(c)
    <3>1. PICK list \in [Actions -> UNION {0 .. Len(log[b]) : b \in Actions}] :
            /\ seen' = [seen EXCEPT ![c] = list]
            /\ queue' = [queue EXCEPT ![c] =
                            {b \in Actions : list[b] # 0 /\ log[b][list[b]] # Gone}]
      BY <2>5 DEF Start
    <3>2. log' = log /\ seen'[c] = list
      BY <3>1, <2>5, <1>t DEF Start, api, TypeOK
    <3>3. queue'[c] = {b \in Actions : list[b] # 0 /\ log[b][list[b]] # Gone}
      BY <3>1, <1>t DEF TypeOK
    <3>4. Unsettled(Cached(c, a))' => list[a] # 0 /\ log[a][list[a]] # Gone
      BY <3>2, GoneType DEF Cached, Unsettled
    <3> QED
      BY <3>3, <3>4 DEF Held
  <2>6. CASE Crash(c)
    <3>1. At(c, "down")'
      BY <2>6, <1>t DEF Crash, TypeOK, At, Down, Job
    <3> QED
      BY <3>1 DEF Held
  <2> QED
    BY <1>4, <2>1, <2>2, <2>3, <2>4, <2>5, <2>6 DEF Controller
<1> QED
  BY <1>1, <1>2, <1>3, <1>4 DEF Next

\* A running controller never forgets an unfinished Action its cache shows: it
\* is queued or in hand, or a newer version is on its way.
THEOREM WorkNeverLost == Spec => []NoLostWork
<1>1. Init => NoLostWork
  BY DEF Init, NoLostWork, At, Down, Job
<1>2. IInv /\ NoLostWork /\ [Next]_vars => NoLostWork'
  <2> SUFFICES ASSUME IInv, NoLostWork, [Next]_vars,
                      NEW c \in Controllers, NEW a \in Actions
               PROVE  Held(c, a)'
    BY DEF NoLostWork, Held
  <2>1. Held(c, a)
    BY DEF NoLostWork, Held
  <2> QED
    BY <2>1, HeldStep
<1> QED
  BY <1>1, <1>2, Soundness, PTL DEF Spec
=============================================================================
