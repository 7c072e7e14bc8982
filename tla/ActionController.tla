-------------------------- MODULE ActionController --------------------------
(***************************************************************************)
(* ActionReconciler (src/controllers/action_controller.go) driving Actions *)
(* through their phases, against an API server with optimistic concurrency *)
(* and through an informer cache that lags behind it.                      *)
(*                                                                         *)
(* log[a] is the history of Action a at the API server: each stored        *)
(* version of its status in order, its length being the resourceVersion,   *)
(* the last entry being the current object, and Gone closing the history   *)
(* of a deleted one.  seen[c][a] is the version the cache of controller c  *)
(* holds.  A Reconcile call is one or more steps: it starts with a cached  *)
(* read, may call an executor, and ends with a status update or without    *)
(* one.  work[c] holds the call in progress: every other actor may step    *)
(* between the read and the update.                                        *)
(*                                                                         *)
(* The executor is open here: each of its calls may record any allowed     *)
(* checkpoint, ask to be called again, fail or finish.  PodRestart closes  *)
(* it.                                                                     *)
(***************************************************************************)
EXTENDS ActionPhases, Naturals, Sequences

CONSTANTS
    Controllers,     \* controller processes (two while a rollout overlaps)
    Actions,         \* names of Action objects
    Supported,       \* the Actions whose type has a registered executor
    NoAction,        \* no Action
    Checkpoints,     \* what an executor may keep in the status
    NoCheckpoint,    \* nothing kept yet
    CheckpointStep,  \* <<k, l>>: an executor may replace checkpoint k by l
    MaxRetries,      \* ActionReconciler.MaxRetries
    MaxCrashes,      \* bound: controller exits
    MaxTouches,      \* bound: metadata writes of others
    MetricCap        \* bound: observations of one Action are counted up to it

ASSUME SupportedAssumption == Supported \subseteq Actions
ASSUME NoActionAssumption == NoAction \notin Actions
ASSUME CheckpointAssumption ==
    /\ NoCheckpoint \in Checkpoints
    /\ CheckpointStep \subseteq Checkpoints \X Checkpoints
ASSUME MaxRetriesAssumption == MaxRetries \in Nat \ {0}
ASSUME BoundsAssumption ==
    MaxCrashes \in Nat /\ MaxTouches \in Nat /\ MetricCap \in Nat

VARIABLES
    log,      \* per Action, the versions stored at the API server
    expired,  \* the Actions whose deadline has passed
    seen,     \* per controller and Action, the cached version (0: none)
    queue,    \* per controller, the keys of its work queue
    work,     \* per controller, the Reconcile call in progress
    audit,    \* per Action, the results the audit recorder was given
    metric,   \* per Action, the times ObserveAction was called
    crashes,  \* controller exits so far
    touches   \* metadata writes so far

api    == <<log, expired, touches>>
report == <<audit, metric>>
vars   == <<log, expired, seen, queue, work, audit, metric, crashes, touches>>

(***************************************************************************)
(* Status, versions and the object as each party sees it.                  *)
(***************************************************************************)

\* "waiting": the message is that of an InProgress error.  It is the one
\* message kept, because repeating it makes an update that changes nothing.
Status == [phase : Phases, started : BOOLEAN, retry : 0 .. MaxRetries,
           checkpoint : Checkpoints, waiting : BOOLEAN]

NewStatus == [phase |-> "", started |-> FALSE, retry |-> 0,
              checkpoint |-> NoCheckpoint, waiting |-> FALSE]

Gone == [NewStatus EXCEPT !.phase = "Gone"]

Versions == Status \cup {Gone}

Unsettled(v) == v.phase \in Phases /\ ~Terminal(v.phase)

Exists(a) == log[a] # << >> /\ log[a][Len(log[a])] # Gone

Current(a) == log[a][Len(log[a])]

PhaseOf(a) == IF log[a] = << >> THEN "Absent" ELSE Current(a).phase

\* What Get returns from the cache; Gone stands for NotFound.
Cached(c, a) == IF seen[c][a] = 0 THEN Gone ELSE log[a][seen[c][a]]

\* timedOut: the deadline runs from the StartedAt of the status that was read.
TimedOut(a, st) == st.started /\ a \in expired

(***************************************************************************)
(* The Reconcile call in progress.                                         *)
(***************************************************************************)

Job(pc, a, ver, st) == [pc |-> pc, act |-> a, ver |-> ver, st |-> st]
Idle == Job("idle", NoAction, 0, Gone)
Down == Job("down", NoAction, 0, Gone)

Jobs == [pc : {"execute", "verify", "update"}, act : Actions, ver : Nat, st : Status]
            \cup {Idle, Down}

At(c, pc) == work[c].pc = pc

\* Controller c takes the key of Action a from its queue and reads its cache.
Get(c, a) == At(c, "idle") /\ a \in queue[c]

Begin(c, a, pc, st) ==
    /\ Get(c, a)
    /\ queue' = [queue EXCEPT ![c] = @ \ {a}]
    /\ work' = [work EXCEPT ![c] = Job(pc, a, seen[c][a], st)]

\* The call in progress goes on with status st.
Continue(c, pc, st) ==
    work' = [work EXCEPT ![c] = [@ EXCEPT !.pc = pc, !.st = st]]

\* The call in progress returns; its key is queued again when it asked for it.
Return(c, again) ==
    /\ work' = [work EXCEPT ![c] = Idle]
    /\ queue' = [queue EXCEPT ![c] = IF again THEN @ \cup {work[c].act} ELSE @]

Audit(a, result) == audit' = [audit EXCEPT ![a] = @ \cup {result}]

ObserveAction(a) ==
    metric' = [metric EXCEPT ![a] = IF @ < MetricCap THEN @ + 1 ELSE @]

(***************************************************************************)
(* The statuses a Reconcile call computes.                                 *)
(***************************************************************************)

\* Mutant of Accepted: acceptance and start in one status write.
AcceptedAndStarted(st) == [st EXCEPT !.phase = "Running", !.waiting = FALSE]

Accepted(st)  == [st EXCEPT !.phase = "Pending", !.waiting = FALSE]
Started(st)   == [st EXCEPT !.phase = "Running", !.started = TRUE, !.waiting = FALSE]
Executed(st)  == [st EXCEPT !.phase = "Verifying", !.waiting = FALSE]
Recovered(st) == [st EXCEPT !.phase = "Succeeded", !.waiting = FALSE]
Failed(st)    == [st EXCEPT !.phase = "Failed", !.waiting = FALSE]

\* Mutant of Degraded: the error budget compared one late.
DegradedOneLate(st) ==
    LET counted == [st EXCEPT !.retry = @ + 1, !.waiting = FALSE]
    IN  IF counted.retry > MaxRetries THEN Failed(counted) ELSE counted

\* One error more, the last allowed one ending the Action.
Degraded(st) ==
    LET counted == [st EXCEPT !.retry = @ + 1, !.waiting = FALSE]
    IN  IF counted.retry >= MaxRetries THEN Failed(counted) ELSE counted

\* The error of an executor call that left checkpoint k in the status.
RetryOrFail(c, k) ==
    LET st == Degraded([work[c].st EXCEPT !.checkpoint = k])
    IN  /\ At(c, "execute") \/ At(c, "verify")
        /\ Continue(c, "update", st)
        /\ IF st.phase = "Failed" THEN Audit(work[c].act, "failed") ELSE UNCHANGED audit
        /\ UNCHANGED <<api, seen, queue, metric, crashes>>

(***************************************************************************)
(* Reconcile up to its first call: the cached read decides.                *)
(***************************************************************************)

\* The object is not in the cache, or its phase is terminal.
Skip(c, a) ==
    /\ Get(c, a)
    /\ ~Unsettled(Cached(c, a))
    /\ queue' = [queue EXCEPT ![c] = @ \ {a}]
    /\ UNCHANGED <<api, seen, work, report, crashes>>

\* No executor is registered for the type of the Action.
RejectUnsupported(c, a) ==
    /\ Unsettled(Cached(c, a)) /\ a \notin Supported
    /\ Begin(c, a, "update", Failed(Cached(c, a)))
    /\ Audit(a, "failed")
    /\ UNCHANGED <<api, seen, metric, crashes>>

Accept(c, a) ==
    /\ a \in Supported
    /\ Cached(c, a).phase = ""
    /\ Begin(c, a, "update", Accepted(Cached(c, a)))
    /\ UNCHANGED <<api, seen, report, crashes>>

StartExecution(c, a) ==
    /\ a \in Supported
    /\ Cached(c, a).phase = "Pending"
    /\ Begin(c, a, "update", Started(Cached(c, a)))
    /\ Audit(a, "started")
    /\ UNCHANGED <<api, seen, metric, crashes>>

\* Mutant of FailTimedOut: not checked while verifying.
FailTimedOutRunning(c, a) ==
    /\ a \in Supported
    /\ Cached(c, a).phase = "Running"
    /\ TimedOut(a, Cached(c, a))
    /\ Begin(c, a, "update", Failed(Cached(c, a)))
    /\ Audit(a, "failed")
    /\ UNCHANGED <<api, seen, metric, crashes>>

FailTimedOut(c, a) ==
    /\ a \in Supported
    /\ Cached(c, a).phase \in {"Running", "Verifying"}
    /\ TimedOut(a, Cached(c, a))
    /\ Begin(c, a, "update", Failed(Cached(c, a)))
    /\ Audit(a, "failed")
    /\ UNCHANGED <<api, seen, metric, crashes>>

CallExecute(c, a) ==
    /\ a \in Supported
    /\ Cached(c, a).phase = "Running"
    /\ ~TimedOut(a, Cached(c, a))
    /\ Begin(c, a, "execute", Cached(c, a))
    /\ UNCHANGED <<api, seen, report, crashes>>

CallVerify(c, a) ==
    /\ a \in Supported
    /\ Cached(c, a).phase = "Verifying"
    /\ ~TimedOut(a, Cached(c, a))
    /\ Begin(c, a, "verify", Cached(c, a))
    /\ UNCHANGED <<api, seen, report, crashes>>

(***************************************************************************)
(* Prepare, Execute and Verify return.                                     *)
(***************************************************************************)

Reach(c, k) == <<work[c].st.checkpoint, k>> \in CheckpointStep

\* Prepare or Execute changed the status: it is stored before anything else.
ExecuteProgress(c, k) ==
    /\ At(c, "execute")
    /\ Reach(c, k)
    /\ Continue(c, "update", [work[c].st EXCEPT !.checkpoint = k, !.waiting = FALSE])
    /\ UNCHANGED <<api, seen, queue, report, crashes>>

ExecuteInProgress(c) ==
    /\ At(c, "execute")
    /\ Continue(c, "update", [work[c].st EXCEPT !.waiting = TRUE])
    /\ UNCHANGED <<api, seen, queue, report, crashes>>

\* Prepare may have changed the checkpoint before it failed.
ExecuteError(c, k) ==
    /\ At(c, "execute")
    /\ k = work[c].st.checkpoint \/ Reach(c, k)
    /\ RetryOrFail(c, k)

ExecuteDone(c) ==
    /\ At(c, "execute")
    /\ Continue(c, "update", Executed(work[c].st))
    /\ UNCHANGED <<api, seen, queue, report, crashes>>

VerifyError(c) ==
    /\ At(c, "verify")
    /\ RetryOrFail(c, work[c].st.checkpoint)

\* Mutant of VerifyNotYet: an empty Result instead of RequeueAfter.
VerifyNotYetForgotten(c) ==
    /\ At(c, "verify")
    /\ Return(c, FALSE)
    /\ UNCHANGED <<api, seen, report, crashes>>

\* Not recovered yet: RequeueAfter, and nothing is written.
VerifyNotYet(c) ==
    /\ At(c, "verify")
    /\ Return(c, TRUE)
    /\ UNCHANGED <<api, seen, report, crashes>>

\* Mutant of VerifyOk: the success is not recorded.
VerifyOkUnaudited(c) ==
    /\ At(c, "verify")
    /\ Continue(c, "update", Recovered(work[c].st))
    /\ UNCHANGED <<api, seen, queue, report, crashes>>

VerifyOk(c) ==
    /\ At(c, "verify")
    /\ Continue(c, "update", Recovered(work[c].st))
    /\ Audit(work[c].act, "succeeded")
    /\ UNCHANGED <<api, seen, queue, metric, crashes>>

(***************************************************************************)
(* updateStatus and what its callers do with its result.                   *)
(***************************************************************************)

\* Mutant of Fresh: a write that sends no resourceVersion.
FreshAlways(c) == Exists(work[c].act)

\* The version that was read is still the current one.
Fresh(c) == LET a == work[c].act IN Exists(a) /\ work[c].ver = Len(log[a])

\* The API server does not store a version equal to the current one.
Store(a, st) ==
    log' = IF st = Current(a) THEN log ELSE [log EXCEPT ![a] = Append(@, st)]

\* A nil error from updateStatus: fail and the success path count the Action.
CountOutcome(c) ==
    IF Terminal(work[c].st.phase) THEN ObserveAction(work[c].act) ELSE UNCHANGED metric

UpdateOk(c) ==
    /\ At(c, "update") /\ Fresh(c)
    /\ Store(work[c].act, work[c].st)
    /\ CountOutcome(c)
    /\ Return(c, ~Terminal(work[c].st.phase))
    /\ UNCHANGED <<expired, touches, seen, audit, crashes>>

\* updateStatus turns a conflict into a requeue and a nil error.
UpdateConflict(c) ==
    /\ At(c, "update") /\ Exists(work[c].act) /\ ~Fresh(c)
    /\ CountOutcome(c)
    /\ Return(c, TRUE)
    /\ UNCHANGED <<api, seen, audit, crashes>>

\* NotFound, or a request that did not reach the server.
UpdateError(c) ==
    /\ At(c, "update")
    /\ Return(c, TRUE)
    /\ UNCHANGED <<api, seen, report, crashes>>

\* The update is stored but its answer is lost.
UpdateLost(c) ==
    /\ At(c, "update") /\ Fresh(c)
    /\ Store(work[c].act, work[c].st)
    /\ Return(c, TRUE)
    /\ UNCHANGED <<expired, touches, seen, report, crashes>>

(***************************************************************************)
(* The informer, the process and everyone else.                            *)
(***************************************************************************)

\* One watch event: the cache advances and the key is queued.
Deliver(c, a) ==
    /\ ~At(c, "down")
    /\ seen[c][a] < Len(log[a])
    /\ seen' = [seen EXCEPT ![c][a] = @ + 1]
    /\ queue' = [queue EXCEPT ![c] = @ \cup {a}]
    /\ UNCHANGED <<api, work, report, crashes>>

\* A new process lists the Actions, possibly as they were some time ago.
Start(c) ==
    /\ At(c, "down")
    /\ \E list \in [Actions -> UNION {0 .. Len(log[a]) : a \in Actions}] :
        /\ \A a \in Actions : list[a] <= Len(log[a])
        /\ seen' = [seen EXCEPT ![c] = list]
        /\ queue' = [queue EXCEPT ![c] =
                        {a \in Actions : list[a] # 0 /\ log[a][list[a]] # Gone}]
    /\ work' = [work EXCEPT ![c] = Idle]
    /\ UNCHANGED <<api, report, crashes>>

Crash(c) ==
    /\ ~At(c, "down")
    /\ crashes < MaxCrashes
    /\ crashes' = crashes + 1
    /\ queue' = [queue EXCEPT ![c] = {}]
    /\ work' = [work EXCEPT ![c] = Down]
    /\ UNCHANGED <<api, seen, report>>

Create(a) ==
    /\ log[a] = << >>
    /\ log' = [log EXCEPT ![a] = <<NewStatus>>]
    /\ UNCHANGED <<expired, touches, seen, queue, work, report, crashes>>

\* Someone else writes the metadata: a new version with the same status.
Touch(a) ==
    /\ Exists(a)
    /\ touches < MaxTouches
    /\ touches' = touches + 1
    /\ log' = [log EXCEPT ![a] = Append(@, Current(a))]
    /\ UNCHANGED <<expired, seen, queue, work, report, crashes>>

Delete(a) ==
    /\ Exists(a)
    /\ log' = [log EXCEPT ![a] = Append(@, Gone)]
    /\ UNCHANGED <<expired, touches, seen, queue, work, report, crashes>>

\* The deadline of a started Action passes.
Expire(a) ==
    /\ Exists(a) /\ Current(a).started
    /\ a \notin expired
    /\ expired' = expired \cup {a}
    /\ UNCHANGED <<log, touches, seen, queue, work, report, crashes>>

(***************************************************************************)
(* Specification.                                                          *)
(***************************************************************************)

Init ==
    /\ log = [a \in Actions |-> << >>]
    /\ expired = {}
    /\ seen = [c \in Controllers |-> [a \in Actions |-> 0]]
    /\ queue = [c \in Controllers |-> {}]
    /\ work = [c \in Controllers |-> Down]
    /\ audit = [a \in Actions |-> {}]
    /\ metric = [a \in Actions |-> 0]
    /\ crashes = 0
    /\ touches = 0

\* The first step of a Reconcile call on a key.
Take(c, a) ==
    \/ Skip(c, a)
    \/ RejectUnsupported(c, a)
    \/ Accept(c, a)
    \/ StartExecution(c, a)
    \/ FailTimedOut(c, a)
    \/ CallExecute(c, a)
    \/ CallVerify(c, a)

ExecutorReturns(c) ==
    \/ \E k \in Checkpoints : ExecuteProgress(c, k) \/ ExecuteError(c, k)
    \/ ExecuteInProgress(c)
    \/ ExecuteDone(c)
    \/ VerifyError(c)
    \/ VerifyNotYet(c)
    \/ VerifyOk(c)

UpdateReturns(c) ==
    \/ UpdateOk(c)
    \/ UpdateConflict(c)
    \/ UpdateError(c)
    \/ UpdateLost(c)

Controller(c) ==
    \/ \E a \in Actions : Take(c, a) \/ Deliver(c, a)
    \/ ExecutorReturns(c)
    \/ UpdateReturns(c)
    \/ Start(c)
    \/ Crash(c)

Environment == \E a \in Actions : Create(a) \/ Touch(a) \/ Delete(a) \/ Expire(a)

Next == (\E c \in Controllers : Controller(c)) \/ Environment

Spec == Init /\ [][Next]_vars

\* The work queue is first in, first out, so a key that is queued is taken in
\* the end; calls return; watches deliver; the kubelet restarts the process;
\* time passes; and the API server does not refuse every update of an Action.
Fairness ==
    /\ \A c \in Controllers :
        /\ WF_vars(Start(c))
        /\ WF_vars(ExecutorReturns(c))
        /\ WF_vars(UpdateReturns(c))
        /\ \A a \in Actions :
            /\ SF_vars(Take(c, a))
            /\ WF_vars(Deliver(c, a))
            /\ SF_vars(work[c].act = a /\ UpdateOk(c))
    /\ \A a \in Actions : WF_vars(Expire(a))

FairSpec == Spec /\ Fairness

\* Every variable keeps its shape, no version is cached that was not stored,
\* and the error counter never passes MaxRetries.
TypeOK ==
    /\ log \in [Actions -> Seq(Versions)]
    /\ expired \subseteq Actions
    /\ seen \in [Controllers -> [Actions -> Nat]]
    /\ queue \in [Controllers -> SUBSET Actions]
    /\ work \in [Controllers -> Jobs]
    /\ audit \in [Actions -> SUBSET {"started", "succeeded", "failed"}]
    /\ metric \in [Actions -> 0 .. MetricCap]
    /\ crashes \in 0 .. MaxCrashes
    /\ touches \in 0 .. MaxTouches
    /\ \A c \in Controllers, a \in Actions : seen[c][a] <= Len(log[a])
=============================================================================
