--------------------------- MODULE ActionStatuses ---------------------------
(***************************************************************************)
(* What the steps of ActionController do to the statuses of one Action, at *)
(* the API server and in the hands of its controllers.  The proofs about   *)
(* the executors, which instantiate this module, need no more than that:   *)
(* only a call of an executor makes a status that claims more, or has      *)
(* another checkpoint, than one before it.                                 *)
(***************************************************************************)
EXTENDS ActionControllerProofs

\* The statuses of Action a: stored ones, and those a call in progress holds.
StatusesOf(a) ==
    {log[a][i] : i \in 1 .. Len(log[a])}
        \cup {work[c].st : c \in {d \in Controllers : work[d].act = a}}

\* The phases that follow a completed Execute.
Claims == {"Verifying", "Succeeded"}

\* st keeps the checkpoint of an earlier status and claims no more than it did,
\* or it is the status of a new or a deleted object.
Inherits(a, st) ==
    \/ st.checkpoint = NoCheckpoint /\ st.phase \notin Claims
    \/ \E old \in StatusesOf(a) :
        /\ st.checkpoint = old.checkpoint
        /\ st.phase \in Claims => st.phase = old.phase

\* The steps in which no executor returns.
Passive ==
    \/ \E c \in Controllers :
        \/ \E a \in Actions : Take(c, a) \/ Deliver(c, a)
        \/ UpdateReturns(c)
        \/ Start(c)
        \/ Crash(c)
    \/ Environment

\* The call in progress at c is about to store checkpoint k and one of phases.
Writes(c, k, phases) ==
    /\ log' = log
    /\ \E st \in Status :
        /\ st.checkpoint = k /\ st.phase \in phases
        /\ Continue(c, "update", st)

(***************************************************************************)
(* Steps in which no executor returns.                                     *)
(***************************************************************************)

\* A status is inherited by itself.
LEMMA InheritsItself ==
    ASSUME NEW a \in Actions, NEW st \in StatusesOf(a)
    PROVE  Inherits(a, st)
BY DEF Inherits

\* Controllers that pause, end their call or die hold no status any more.
LEMMA NoOtherStatuses ==
    ASSUME IInv, NEW a \in Actions, log' = log,
           \A d \in Controllers : work'[d] = work[d] \/ work'[d] \in {Idle, Down},
           NEW st \in StatusesOf(a)'
    PROVE  st \in StatusesOf(a)
<1>1. Idle.act = NoAction /\ Down.act = NoAction /\ a # NoAction
  BY NoActionAssumption DEF Idle, Down, Job
<1>2. ASSUME NEW d \in Controllers, work'[d].act = a
      PROVE  work'[d] = work[d]
  BY <1>1, <1>2
<1> QED
  BY <1>2 DEF StatusesOf

\* What Reconcile computes from a cached status before its first call.
LEMMA TakeInherits ==
    ASSUME IInv, NEW c \in Controllers, NEW b \in Actions, Take(c, b),
           NEW a \in Actions, NEW st \in StatusesOf(a)'
    PROVE  Inherits(a, st)
<1> DEFINE old == Cached(c, b)
<1>1. log' = log /\ work \in [Controllers -> Jobs]
  BY DEF Take, Skip, RejectUnsupported, Accept, StartExecution, FailTimedOut,
         CallExecute, CallVerify, api, IInv, TypeOK
<1>2. CASE Skip(c, b)
  BY <1>1, <1>2, NoOtherStatuses, InheritsItself DEF Skip
<1>3. CASE ~Skip(c, b)
  <2>1. Unsettled(old)
    BY <1>3 DEF Take, RejectUnsupported, Accept, StartExecution, FailTimedOut,
                CallExecute, CallVerify, Unsettled, Terminal, Phases
  <2>2. old \in StatusesOf(b) /\ old \in Status
    BY <2>1, CachedSound DEF IInv, StatusesOf
  <2>3. PICK pc, new :
            /\ new \in {old, Failed(old), Accepted(old), Started(old)}
            /\ Begin(c, b, pc, new)
    BY <1>3 DEF Take, RejectUnsupported, Accept, StartExecution, FailTimedOut,
                CallExecute, CallVerify
  <2>4. /\ new.checkpoint = old.checkpoint
        /\ new.phase \in Claims => new.phase = old.phase
    BY <2>2, <2>3 DEF Failed, Accepted, Started, Claims, Status
  <2>5. work'[c].st = new /\ work'[c].act = b
        /\ \A d \in Controllers \ {c} : work'[d] = work[d]
    BY <1>1, <2>3 DEF Begin, Job
  <2>6. st \in StatusesOf(a) \/ (a = b /\ st = new)
    BY <1>1, <2>5 DEF StatusesOf
  <2> QED
    BY <2>2, <2>4, <2>6 DEF Inherits
<1> QED
  BY <1>2, <1>3

\* A version a status update or someone else adds to a history.
LEMMA VersionInherits ==
    ASSUME IInv, NEW b \in Actions, NEW v \in StatusesOf(b) \cup {NewStatus, Gone},
           log' = log \/ log' = [log EXCEPT ![b] = Append(@, v)],
           \A d \in Controllers : work'[d] = work[d] \/ work'[d] \in {Idle, Down},
           NEW a \in Actions, NEW st \in StatusesOf(a)'
    PROVE  Inherits(a, st)
<1>1. CASE log' = log
  BY <1>1, NoOtherStatuses, InheritsItself
<1>2. CASE log' = [log EXCEPT ![b] = Append(@, v)]
  <2>1. /\ log \in [Actions -> Seq(Versions)] /\ NewStatus \in Versions /\ Gone \in Versions
        /\ work \in [Controllers -> Jobs]
    BY NewStatusType DEF IInv, TypeOK, Versions
  <2>2. Inherits(b, v)
    <3>1. /\ NewStatus.checkpoint = NoCheckpoint /\ NewStatus.phase \notin Claims
          /\ Gone.checkpoint = NoCheckpoint /\ Gone.phase \notin Claims
      BY DEF NewStatus, Gone, Claims
    <3> QED
      BY <3>1, InheritsItself DEF Inherits
  <2>3. CASE \E d \in Controllers : work'[d].act = a /\ st = work'[d].st
    <3>1. PICK d \in Controllers : work'[d].act = a /\ st = work'[d].st
      BY <2>3
    <3>2. Idle.act = NoAction /\ Down.act = NoAction /\ a # NoAction
      BY NoActionAssumption DEF Idle, Down, Job
    <3>3. work'[d] = work[d]
      BY <3>1, <3>2
    <3>4. st \in StatusesOf(a)
      BY <3>1, <3>3 DEF StatusesOf
    <3> QED
      BY <3>4, InheritsItself
  <2>4. CASE \E i \in 1 .. Len(log'[a]) : st = log'[a][i]
    <3>1. PICK i \in 1 .. Len(log'[a]) : st = log'[a][i]
      BY <2>4
    <3>2. CASE a # b
      <4>1. log'[a] = log[a]
        BY <1>2, <2>1, <3>2
      <4>2. st \in StatusesOf(a)
        BY <3>1, <4>1 DEF StatusesOf
      <4> QED
        BY <4>2, InheritsItself
    <3>3. CASE a = b
      <4>1. log'[a] = Append(log[a], v) /\ log[a] \in Seq(Versions)
        BY <1>2, <2>1, <3>3
      <4>2. /\ Len(log[a]) \in Nat /\ Len(log'[a]) = Len(log[a]) + 1
            /\ \A j \in 1 .. Len(log[a]) : log'[a][j] = log[a][j]
            /\ log'[a][Len(log[a]) + 1] = v
        BY <4>1, AppendProperties, LenProperties
      <4>3. st = v \/ \E j \in 1 .. Len(log[a]) : st = log[a][j]
        BY <3>1, <4>2
      <4>4. st = v \/ st \in StatusesOf(a)
        BY <4>3 DEF StatusesOf
      <4> QED
        BY <2>2, <3>3, <4>4, InheritsItself
    <3> QED
      BY <3>2, <3>3
  <2> QED
    BY <2>3, <2>4 DEF StatusesOf
<1> QED
  BY <1>1, <1>2

\* A status update stores what its call held and makes no other status.
LEMMA UpdateInherits ==
    ASSUME IInv, NEW c \in Controllers, UpdateReturns(c),
           NEW a \in Actions, NEW st \in StatusesOf(a)'
    PROVE  Inherits(a, st)
<1> DEFINE b == work[c].act
<1>1. At(c, "update") /\ work' = [work EXCEPT ![c] = Idle]
  BY DEF UpdateReturns, UpdateOk, UpdateConflict, UpdateError, UpdateLost, Return
<1>2. log' = log \/ Store(b, work[c].st)
  BY DEF UpdateReturns, UpdateOk, UpdateConflict, UpdateError, UpdateLost, api
<1>3. b \in Actions
  BY <1>1, JobStatus DEF IInv, Busy, At
<1>4. work[c].st \in StatusesOf(b)
  BY DEF StatusesOf
<1>5. log' = log \/ log' = [log EXCEPT ![b] = Append(@, work[c].st)]
  BY <1>2 DEF Store
<1>6. \A d \in Controllers : work'[d] = work[d] \/ work'[d] \in {Idle, Down}
  BY <1>1 DEF IInv, TypeOK
<1> QED
  BY <1>3, <1>4, <1>5, <1>6, VersionInherits

\* API clients make new and deleted objects and touch metadata, no more.
LEMMA EnvironmentInherits ==
    ASSUME IInv, Environment, NEW a \in Actions, NEW st \in StatusesOf(a)'
    PROVE  Inherits(a, st)
<1>1. PICK b \in Actions : Create(b) \/ Touch(b) \/ Delete(b) \/ Expire(b)
  BY DEF Environment
<1>2. work' = work
  BY <1>1 DEF Create, Touch, Delete, Expire
<1>3. \/ log' = log
      \/ \E v \in StatusesOf(b) \cup {NewStatus, Gone} :
            log' = [log EXCEPT ![b] = Append(@, v)]
  <2>1. CASE Create(b)
    <3>1. Append(<< >>, NewStatus) = <<NewStatus>>
      OBVIOUS
    <3>2. log' = [log EXCEPT ![b] = Append(@, NewStatus)]
      BY <2>1, <3>1 DEF Create
    <3> QED
      BY <3>2
  <2>2. CASE Touch(b)
    <3>1. Current(b) \in StatusesOf(b)
      BY <2>2, CurrentSound DEF Touch, StatusesOf
    <3> QED
      BY <2>2, <3>1 DEF Touch
  <2>3. CASE Delete(b)
    BY <2>3 DEF Delete
  <2>4. CASE Expire(b)
    BY <2>4 DEF Expire
  <2> QED
    BY <1>1, <2>1, <2>2, <2>3, <2>4
<1> QED
  BY <1>2, <1>3, VersionInherits

\* Taking a key, storing a status, losing a process and everything others do to
\* an Action leave it with the checkpoints and claims it had.
LEMMA PassiveInherits ==
    ASSUME IInv, Passive, NEW a \in Actions, NEW st \in StatusesOf(a)'
    PROVE  Inherits(a, st)
<1>1. ASSUME NEW c \in Controllers,
             (\E b \in Actions : Deliver(c, b)) \/ Start(c) \/ Crash(c)
      PROVE  Inherits(a, st)
  <2>1. log' = log /\ \A d \in Controllers : work'[d] = work[d] \/ work'[d] \in {Idle, Down}
    BY <1>1 DEF Deliver, Start, Crash, api, IInv, TypeOK
  <2> QED
    BY <2>1, NoOtherStatuses, InheritsItself
<1> QED
  BY <1>1, TakeInherits, UpdateInherits, EnvironmentInherits DEF Passive

(***************************************************************************)
(* Steps in which an executor returns.                                     *)
(***************************************************************************)

\* An error keeps the checkpoint it was given, and the phase until the last one.
LEMMA DegradedFields ==
    ASSUME NEW old \in Status, old.retry < MaxRetries, NEW k \in Checkpoints
    PROVE  LET st == Degraded([old EXCEPT !.checkpoint = k])
           IN  st \in Status /\ st.checkpoint = k /\ st.phase \in {old.phase, "Failed"}
<1> DEFINE moved == [old EXCEPT !.checkpoint = k]
           counted == [moved EXCEPT !.retry = @ + 1, !.waiting = FALSE]
<1>1. /\ moved \in Status /\ moved.checkpoint = k
      /\ moved.phase = old.phase /\ moved.retry = old.retry
  BY DEF Status
<1>2. moved.retry + 1 \in 0 .. MaxRetries
  BY <1>1, MaxRetriesAssumption DEF Status
<1>3. Degraded(moved) = counted \/ Degraded(moved) = Failed(counted)
  BY DEF Degraded
<1> HIDE DEF moved
<1>4. counted \in Status /\ counted.checkpoint = k /\ counted.phase = old.phase
  BY <1>1, <1>2 DEF Status
<1> HIDE DEF counted
<1>5. Failed(counted) \in Status /\ Failed(counted).checkpoint = k
      /\ Failed(counted).phase = "Failed"
  BY <1>4 DEF Failed, Status, Phases
<1> QED
  BY <1>3, <1>4, <1>5 DEF moved

\* Each way to return, by the checkpoint and the phases it may lead to.
LEMMA ExecutorWrites ==
    ASSUME IInv, NEW c \in Controllers, NEW k
    PROVE  /\ ExecuteProgress(c, k) => Writes(c, k, {"Running"})
           /\ ExecuteError(c, k) => Writes(c, k, {"Running", "Failed"})
           /\ ExecuteInProgress(c) => Writes(c, work[c].st.checkpoint, {"Running"})
           /\ ExecuteDone(c) => Writes(c, work[c].st.checkpoint, {"Verifying"})
           /\ VerifyError(c) => Writes(c, work[c].st.checkpoint, {"Verifying", "Failed"})
           /\ VerifyOk(c) => Writes(c, work[c].st.checkpoint, {"Succeeded"})
<1> DEFINE old == work[c].st
<1>1. ASSUME At(c, "execute") \/ At(c, "verify")
      PROVE  /\ old \in Status /\ old.retry < MaxRetries
             /\ old.phase = IF At(c, "execute") THEN "Running" ELSE "Verifying"
  <2>1. Busy(c)
    BY <1>1 DEF At, Busy
  <2>2. JobSound(c)
    BY <2>1 DEF IInv, WorkSound
  <2> QED
    BY <1>1, <2>1, <2>2, JobStatus DEF At, JobSound, IInv
<1>2. ASSUME NEW l \in Checkpoints, RetryOrFail(c, l)
      PROVE  Writes(c, l, {old.phase, "Failed"})
  <2>1. PICK st : st = Degraded([old EXCEPT !.checkpoint = l])
    OBVIOUS
  <2>2. st \in Status /\ st.checkpoint = l /\ st.phase \in {old.phase, "Failed"}
    BY <1>1, <1>2, <2>1, DegradedFields DEF RetryOrFail
  <2>3. Continue(c, "update", st) /\ log' = log
    BY <1>2, <2>1 DEF RetryOrFail, api
  <2> QED
    BY <2>2, <2>3 DEF Writes
<1>3. ASSUME At(c, "execute"), k = old.checkpoint \/ Reach(c, k)
      PROVE  k \in Checkpoints
  BY <1>1, <1>3, CheckpointAssumption DEF Reach, Status
<1>4. ASSUME ExecuteProgress(c, k)
      PROVE  Writes(c, k, {"Running"})
  <2>1. PICK st : st = [old EXCEPT !.checkpoint = k, !.waiting = FALSE]
    OBVIOUS
  <2>2. st \in Status /\ st.checkpoint = k /\ st.phase = "Running"
    BY <1>1, <1>3, <1>4, <2>1 DEF ExecuteProgress, Status
  <2> QED
    BY <1>4, <2>1, <2>2 DEF ExecuteProgress, Writes, api
<1>5. ASSUME ExecuteError(c, k)
      PROVE  Writes(c, k, {"Running", "Failed"})
  BY <1>1, <1>2, <1>3, <1>5 DEF ExecuteError
<1>6. ASSUME ExecuteInProgress(c)
      PROVE  Writes(c, old.checkpoint, {"Running"})
  <2>1. PICK st : st = [old EXCEPT !.waiting = TRUE]
    OBVIOUS
  <2>2. st \in Status /\ st.checkpoint = old.checkpoint /\ st.phase = "Running"
    BY <1>1, <1>6, <2>1 DEF ExecuteInProgress, Status
  <2> QED
    BY <1>6, <2>1, <2>2 DEF ExecuteInProgress, Writes, api
<1>7. ASSUME ExecuteDone(c)
      PROVE  Writes(c, old.checkpoint, {"Verifying"})
  <2>1. PICK st : st = Executed(old)
    OBVIOUS
  <2>2. st \in Status /\ st.checkpoint = old.checkpoint /\ st.phase = "Verifying"
    BY <1>1, <1>7, <2>1 DEF ExecuteDone, Executed, Status, Phases
  <2> QED
    BY <1>7, <2>1, <2>2 DEF ExecuteDone, Writes, api
<1>8. ASSUME VerifyError(c)
      PROVE  Writes(c, old.checkpoint, {"Verifying", "Failed"})
  <2>1. old.checkpoint \in Checkpoints /\ old.phase = "Verifying"
    BY <1>1, <1>8 DEF VerifyError, Status, At
  <2> QED
    BY <1>2, <1>8, <2>1 DEF VerifyError
<1>9. ASSUME VerifyOk(c)
      PROVE  Writes(c, old.checkpoint, {"Succeeded"})
  <2>1. PICK st : st = Recovered(old)
    OBVIOUS
  <2>2. st \in Status /\ st.checkpoint = old.checkpoint /\ st.phase = "Succeeded"
    BY <1>1, <1>9, <2>1 DEF VerifyOk, Recovered, Status, Phases
  <2> QED
    BY <1>9, <2>1, <2>2 DEF VerifyOk, Writes, api
<1> QED
  BY <1>4, <1>5, <1>6, <1>7, <1>8, <1>9

\* All that changes is the status of the Action the executor was called for.
LEMMA WritesStatus ==
    ASSUME IInv, NEW c \in Controllers, NEW k, NEW phases, Writes(c, k, phases),
           NEW a \in Actions, NEW st \in StatusesOf(a)'
    PROVE  \/ st \in StatusesOf(a)
           \/ a = work[c].act /\ st.checkpoint = k /\ st.phase \in phases
<1>1. PICK new \in Status :
        /\ new.checkpoint = k /\ new.phase \in phases
        /\ Continue(c, "update", new)
  BY DEF Writes
<1>2. work \in [Controllers -> Jobs] /\ log' = log
  BY DEF Writes, IInv, TypeOK
<1>3. /\ work'[c].st = new /\ work'[c].act = work[c].act
      /\ \A d \in Controllers \ {c} : work'[d] = work[d]
  <2>1. work[c] = [pc |-> work[c].pc, act |-> work[c].act,
                   ver |-> work[c].ver, st |-> work[c].st]
    BY <1>2 DEF Jobs, Idle, Down, Job
  <2> QED
    BY <1>1, <1>2, <2>1 DEF Continue
<1>4. st \in StatusesOf(a) \/ (a = work[c].act /\ st = new)
  BY <1>2, <1>3 DEF StatusesOf
<1> QED
  BY <1>1, <1>4

\* Not recovered yet: the call ends and its status is dropped.
LEMMA NotYetDrops ==
    ASSUME IInv, NEW c \in Controllers, VerifyNotYet(c),
           NEW a \in Actions, NEW st \in StatusesOf(a)'
    PROVE  st \in StatusesOf(a)
<1>1. log' = log /\ \A d \in Controllers : work'[d] = work[d] \/ work'[d] \in {Idle, Down}
  BY DEF VerifyNotYet, Return, api, IInv, TypeOK
<1> QED
  BY <1>1, NoOtherStatuses

(***************************************************************************)
(* What a controller has seen, and the version its call was started from.  *)
(***************************************************************************)

\* Exits are counted.
LEMMA CrashesGrow ==
    ASSUME IInv, [Next]_vars
    PROVE  crashes \in Nat /\ crashes <= crashes'
<1>1. crashes \in Nat
  BY BoundsAssumption DEF IInv, TypeOK
<1>2. crashes' = crashes \/ crashes' = crashes + 1
  BY DEF Next, Controller, Take, Skip, RejectUnsupported, Accept, StartExecution,
         FailTimedOut, CallExecute, CallVerify, Deliver, ExecutorReturns, ExecuteProgress,
         ExecuteError, ExecuteInProgress, ExecuteDone, VerifyError, VerifyNotYet,
         VerifyOk, RetryOrFail, UpdateReturns, UpdateOk, UpdateConflict, UpdateError,
         UpdateLost, Start, Crash, Environment, Create, Touch, Delete, Expire, vars
<1> QED
  BY <1>1, <1>2

\* Unless a process exits, a cache only advances, and a process that is down
\* has not been up.
LEMMA SeenStep ==
    ASSUME IInv, [Next]_vars, NEW c \in Controllers, NEW a \in Actions
    PROVE  /\ ~At(c, "down") => seen[c][a] <= seen'[c][a]
           /\ At(c, "down")' /\ crashes' = crashes => At(c, "down") /\ seen'[c] = seen[c]
<1> TypeOK
  BY DEF IInv
<1>0. /\ crashes \in Nat
      /\ seen \in [Controllers -> [Actions -> Nat]]
      /\ work \in [Controllers -> Jobs]
  BY BoundsAssumption DEF TypeOK
<1>1. ASSUME crashes' = crashes, seen' = seen, \/ work'[c].pc # "down"
                                               \/ work'[c] = work[c]
      PROVE  /\ ~At(c, "down") => seen[c][a] <= seen'[c][a]
             /\ At(c, "down")' /\ crashes' = crashes => At(c, "down") /\ seen'[c] = seen[c]
  BY <1>0, <1>1 DEF At
<1>2. ASSUME NEW d \in Controllers, Controller(d)
      PROVE  /\ ~At(c, "down") => seen[c][a] <= seen'[c][a]
             /\ At(c, "down")' /\ crashes' = crashes => At(c, "down") /\ seen'[c] = seen[c]
  <2>1. CASE \E b \in Actions : Take(d, b)
    <3>1. crashes' = crashes /\ seen' = seen
      BY <2>1 DEF Take, Skip, RejectUnsupported, Accept, StartExecution, FailTimedOut,
                  CallExecute, CallVerify
    <3>2. \/ work' = work
          \/ \E pc \in {"execute", "verify", "update"} : \E b \in Actions : \E st :
                Begin(d, b, pc, st)
      BY <2>1 DEF Take, Skip, RejectUnsupported, Accept, StartExecution, FailTimedOut,
                  CallExecute, CallVerify
    <3>3. work'[c].pc # "down" \/ work'[c] = work[c]
      BY <1>0, <3>2 DEF Begin, Job
    <3> QED
      BY <1>1, <3>1, <3>3
  <2>2. CASE \E b \in Actions : Deliver(d, b)
    BY <1>0, <2>2 DEF Deliver, At
  <2>3. CASE ExecutorReturns(d) \/ UpdateReturns(d)
    <3>1. crashes' = crashes /\ seen' = seen
      BY <2>3 DEF ExecutorReturns, ExecuteProgress, ExecuteError, ExecuteInProgress,
                  ExecuteDone, VerifyError, VerifyNotYet, VerifyOk, RetryOrFail,
                  UpdateReturns, UpdateOk, UpdateConflict, UpdateError, UpdateLost
    <3>2. \/ \E st : Continue(d, "update", st)
          \/ work' = [work EXCEPT ![d] = Idle]
      BY <2>3 DEF ExecutorReturns, ExecuteProgress, ExecuteError, ExecuteInProgress,
                  ExecuteDone, VerifyError, VerifyNotYet, VerifyOk, RetryOrFail,
                  UpdateReturns, UpdateOk, UpdateConflict, UpdateError, UpdateLost, Return
    <3>3. work'[c].pc # "down" \/ work'[c] = work[c]
      <4>1. d = c => work[c] = [pc |-> work[c].pc, act |-> work[c].act,
                                ver |-> work[c].ver, st |-> work[c].st]
        BY <1>0 DEF Jobs, Idle, Down, Job
      <4>2. ASSUME NEW st, Continue(d, "update", st)
            PROVE  work'[c].pc # "down" \/ work'[c] = work[c]
        BY <1>0, <4>1, <4>2 DEF Continue
      <4>3. work' = [work EXCEPT ![d] = Idle] =>
                work'[c].pc # "down" \/ work'[c] = work[c]
        BY <1>0 DEF Idle, Job
      <4> QED
        BY <3>2, <4>2, <4>3
    <3> QED
      BY <1>1, <3>1, <3>3
  <2>4. CASE Start(d)
    <3>1. /\ crashes' = crashes /\ At(d, "down")
          /\ \E list : seen' = [seen EXCEPT ![d] = list]
          /\ work' = [work EXCEPT ![d] = Idle] /\ Idle.pc = "idle"
      BY <2>4 DEF Start, Idle, Job
    <3>2. d = c => ~At(c, "down")'
      BY <1>0, <3>1 DEF At
    <3>3. d # c => seen'[c] = seen[c] /\ work'[c] = work[c]
      BY <1>0, <3>1
    <3> QED
      BY <1>0, <3>1, <3>2, <3>3 DEF At
  <2>5. CASE Crash(d)
    BY <1>0, <2>5 DEF Crash
  <2> QED
    BY <1>2, <2>1, <2>2, <2>3, <2>4, <2>5 DEF Controller
<1>3. Environment \/ UNCHANGED vars => crashes' = crashes /\ seen' = seen /\ work' = work
  BY DEF Environment, Create, Touch, Delete, Expire, vars
<1> QED
  BY <1>1, <1>2, <1>3 DEF Next

\* A call keeps its Action and version; it starts with an unfinished one.
LEMMA CallStep ==
    ASSUME IInv, [Next]_vars, NEW c \in Controllers, Busy(c)'
    PROVE  \/ /\ Busy(c)
              /\ work'[c].act = work[c].act /\ work'[c].ver = work[c].ver
           \/ \E a \in Actions :
                /\ At(c, "idle") /\ seen' = seen /\ log' = log
                /\ work'[c].act = a /\ work'[c].ver = seen[c][a]
                /\ Unsettled(Cached(c, a))
<1>0. work \in [Controllers -> Jobs]
  BY DEF IInv, TypeOK
<1>1. work'[c] = work[c] => Busy(c)
  BY DEF Busy
<1>2. work'[c] # Idle /\ work'[c] # Down
  BY DEF Busy, Idle, Down, Job
<1>3. ASSUME NEW d \in Controllers, Controller(d), work'[c] # work[c]
      PROVE  \/ /\ Busy(c)
                /\ work'[c].act = work[c].act /\ work'[c].ver = work[c].ver
             \/ \E a \in Actions :
                  /\ At(c, "idle") /\ seen' = seen /\ log' = log
                  /\ work'[c].act = a /\ work'[c].ver = seen[c][a]
                  /\ Unsettled(Cached(c, a))
  <2>1. CASE \E b \in Actions : Take(d, b)
    <3>1. PICK b \in Actions : Take(d, b)
      BY <2>1
    <3>2. /\ Unsettled(Cached(d, b)) /\ Get(d, b) /\ seen' = seen /\ log' = log
          /\ \E pc, st : work' = [work EXCEPT ![d] = Job(pc, b, seen[d][b], st)]
      BY <1>3, <3>1 DEF Take, Skip, RejectUnsupported, Accept, StartExecution, FailTimedOut,
                        CallExecute, CallVerify, Begin, Unsettled, Terminal, Phases, api
    <3>3. d = c
      BY <1>0, <1>3, <3>2
    <3> QED
      BY <1>0, <3>2, <3>3 DEF Get, Job
  <2>2. CASE (\E b \in Actions : Deliver(d, b)) \/ Start(d) \/ Crash(d)
    BY <1>0, <1>2, <1>3, <2>2 DEF Deliver, Start, Crash
  <2>3. CASE ExecutorReturns(d) \/ UpdateReturns(d)
    <3>1. \/ \E st : Continue(d, "update", st)
          \/ work' = [work EXCEPT ![d] = Idle]
      BY <2>3 DEF ExecutorReturns, ExecuteProgress, ExecuteError, ExecuteInProgress,
                  ExecuteDone, VerifyError, VerifyNotYet, VerifyOk, RetryOrFail,
                  UpdateReturns, UpdateOk, UpdateConflict, UpdateError, UpdateLost, Return
    <3>2. work[d].pc \in {"execute", "verify", "update"}
      BY <2>3 DEF ExecutorReturns, ExecuteProgress, ExecuteError, ExecuteInProgress,
                  ExecuteDone, VerifyError, VerifyNotYet, VerifyOk, RetryOrFail,
                  UpdateReturns, UpdateOk, UpdateConflict, UpdateError, UpdateLost, At
    <3>3. work[c] = [pc |-> work[c].pc, act |-> work[c].act,
                     ver |-> work[c].ver, st |-> work[c].st]
      BY <1>0 DEF Jobs, Idle, Down, Job
    <3>4. d = c
      BY <1>0, <1>3, <3>1 DEF Continue
    <3>5. PICK st : Continue(c, "update", st)
      BY <1>0, <1>2, <3>1, <3>4
    <3>6. work'[c].act = work[c].act /\ work'[c].ver = work[c].ver
      BY <1>0, <3>3, <3>5 DEF Continue
    <3> QED
      BY <3>2, <3>4, <3>6 DEF Busy
  <2> QED
    BY <1>3, <2>1, <2>2, <2>3 DEF Controller
<1>4. Environment \/ UNCHANGED vars => work' = work
  BY DEF Environment, Create, Touch, Delete, Expire, vars
<1> QED
  BY <1>1, <1>3, <1>4 DEF Next
=============================================================================
