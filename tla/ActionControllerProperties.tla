--------------------- MODULE ActionControllerProperties ---------------------
(***************************************************************************)
(* What ActionController guarantees, what it was meant to guarantee, and   *)
(* the inductive invariant from which ActionControllerProofs derives it.   *)
(***************************************************************************)
EXTENDS ActionController

\* Level-triggered control loses no Action: a running controller whose cache
\* shows an unfinished Action as it is now has that Action queued or in hand.
\* A requeue dropped from any return of Reconcile would strand it until the
\* next restart.
NoLostWork ==
    \A c \in Controllers, a \in Actions :
        (~At(c, "down") /\ seen[c][a] = Len(log[a]) /\ Unsettled(Cached(c, a)))
            => a \in queue[c] \/ work[c].act = a

\* An Action fails for a reason: its type has no executor, its deadline has
\* passed, or MaxRetries errors were counted; and the last allowed error does
\* end it.
FailureJustified ==
    \A a \in Actions : Exists(a) =>
        /\ Current(a).phase = "Failed" =>
            \/ a \notin Supported
            \/ a \in expired
            \/ Current(a).retry = MaxRetries
        /\ Current(a).retry <= MaxRetries
        /\ Current(a).retry = MaxRetries => Current(a).phase = "Failed"

\* What the status says was written to the audit log before: a crash or a lost
\* answer around the update never leaves an outcome that no record explains.
AuditTrail ==
    \A a \in Actions : Exists(a) =>
        /\ Current(a).started => "started" \in audit[a]
        /\ Current(a).phase = "Succeeded" => "succeeded" \in audit[a]
        /\ Current(a).phase = "Failed" => "failed" \in audit[a]

\* Controllers working from stale caches never take back what was stored: a
\* finished status is final, StartedAt and the error count are kept (the
\* deadline and the budget are those of the first start), and checkpoints only
\* advance.
MonotoneProgress ==
    [][\A a \in Actions : (Exists(a) /\ Exists(a)') =>
        /\ Terminal(Current(a).phase) => Current(a)' = Current(a)
        /\ Current(a).started => Current(a)'.started
        /\ Current(a)'.retry \in {Current(a).retry, Current(a).retry + 1}
        /\ \/ Current(a)'.checkpoint = Current(a).checkpoint
           \/ <<Current(a).checkpoint, Current(a)'.checkpoint>> \in CheckpointStep
      ]_vars

\* The phases of an Action change as ActionLifecycle allows.
Lifecycle == INSTANCE ActionLifecycle WITH phase <- [a \in Actions |-> PhaseOf(a)]
ImplementsLifecycle == Lifecycle!Spec

\* Every Action that was created ends: finished or deleted, whatever errors,
\* conflicts, lost answers and restarts its controllers meet.
EventuallySettled ==
    \A a \in Actions : log[a] # << >> ~> (log[a] # << >> /\ ~Unsettled(Current(a)))

\* The help text of k8s_ops_action_total: "Completed actions by result.", so
\* an Action is counted once, and only when it completed.
MetricCountsCompletions ==
    \A a \in Actions :
        metric[a] <= IF \E i \in DOMAIN log[a] : Terminal(log[a][i].phase) THEN 1 ELSE 0

(***************************************************************************)
(* The inductive invariant.                                                *)
(***************************************************************************)

\* The phases a status update may lead to from a phase that was read.
PhaseStep(old, new) ==
    \/ new = NextPhase(old)
    \/ new = "Failed"
    \/ new = old /\ old \in {"Running", "Verifying"}

\* What one Reconcile call may make of the status it read.
Follows(old, new) ==
    /\ PhaseStep(old.phase, new.phase)
    /\ old.started => new.started
    /\ new.retry \in {old.retry, old.retry + 1}
    /\ \/ new.checkpoint = old.checkpoint
       \/ <<old.checkpoint, new.checkpoint>> \in CheckpointStep

\* A failure has a reason, the budget is used up exactly by a failure, and the
\* audit log knows of every outcome.
Sound(a, v) ==
    /\ v.phase = "Failed" => a \notin Supported \/ a \in expired \/ v.retry = MaxRetries
    /\ v.retry <= MaxRetries
    /\ v.retry = MaxRetries => v.phase = "Failed"
    /\ v.started => "started" \in audit[a]
    /\ v.phase = "Succeeded" => "succeeded" \in audit[a]
    /\ v.phase = "Failed" => "failed" \in audit[a]

HistorySound == \A a \in Actions : \A i \in 1 .. Len(log[a]) : Sound(a, log[a][i])

Busy(c) == work[c].pc \in {"execute", "verify", "update"}

\* A call in progress read a stored, unfinished version, and what it computes
\* from it follows from that version, whatever has been stored since.
JobSound(c) ==
    LET j == work[c]
        old == log[j.act][j.ver]
    IN  /\ j.ver \in 1 .. Len(log[j.act])
        /\ old \in Status /\ ~Terminal(old.phase)
        /\ Sound(j.act, j.st)
        /\ j.pc = "execute" => j.st = old /\ old.phase = "Running"
        /\ j.pc = "verify" => j.st = old /\ old.phase = "Verifying"
        /\ j.pc = "update" => Follows(old, j.st)

WorkSound == \A c \in Controllers : Busy(c) => JobSound(c)

\* What the runs check as an invariant, ActionControllerProofs shows to be
\* inductive: the history and every call in progress are sound, however stale
\* the version is that the call works on.
IInv == TypeOK /\ HistorySound /\ WorkSound
=============================================================================
