---------------------------- MODULE ActionPhases ----------------------------
(***************************************************************************)
(* The phases of an Action's status, shared by the abstract lifecycle and  *)
(* by the reconciler.  The empty phase is the status of an Action no       *)
(* controller has accepted yet.  "Absent" and "Gone" are not phases of the *)
(* API: they stand for an object before its creation and after its         *)
(* deletion.                                                               *)
(***************************************************************************)

Phases == {"", "Pending", "Running", "Verifying", "Succeeded", "Failed"}

\* The phase the happy path enters next; a terminal phase has none.
NextPhase(current) ==
    CASE current = ""          -> "Pending"
      [] current = "Pending"   -> "Running"
      [] current = "Running"   -> "Verifying"
      [] current = "Verifying" -> "Succeeded"
      [] OTHER                 -> current

Terminal(phase) == phase \in {"Succeeded", "Failed"}
=============================================================================
