------------------------- MODULE MCRemediationLoop -------------------------
(***************************************************************************)
(* Values for model checking RemediationLoop: the statuses Pods take.      *)
(***************************************************************************)
EXTENDS RemediationLoop

Pod(pending, waiting, again, last) ==
    [pending |-> pending,
     containers |-> {[waiting |-> waiting, restarted |-> again, last |-> last]}]

\* New; running; a first crash; a crash loop after the memory ran out; running
\* after that.
MCPodStates == {
    [pending |-> TRUE, containers |-> {}],
    Pod(FALSE, "", FALSE, ""),
    Pod(FALSE, "CrashLoopBackOff", FALSE, "Error"),
    Pod(FALSE, "CrashLoopBackOff", TRUE, "OOMKilled"),
    Pod(FALSE, "", TRUE, "OOMKilled")}
=============================================================================
