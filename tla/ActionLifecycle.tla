--------------------------- MODULE ActionLifecycle ---------------------------
(***************************************************************************)
(* What a user of the Action resource is promised, without controllers,    *)
(* caches or the API server: an Action, once created, moves through its    *)
(* phases one at a time along NextPhase, may fail from any phase before    *)
(* its end, never leaves a terminal phase, and may be deleted at any time. *)
(* ActionController is shown to implement it.                              *)
(***************************************************************************)
EXTENDS ActionPhases

CONSTANT Actions

VARIABLE phase

TypeOK == phase \in [Actions -> Phases \cup {"Absent", "Gone"}]

Active(a) == phase[a] \in Phases /\ ~Terminal(phase[a])

Settled(a) == phase[a] = "Gone" \/ Terminal(phase[a])

Init == phase = [a \in Actions |-> "Absent"]

Create(a) ==
    /\ phase[a] = "Absent"
    /\ phase' = [phase EXCEPT ![a] = ""]

Advance(a) ==
    /\ Active(a)
    /\ phase' = [phase EXCEPT ![a] = NextPhase(@)]

Fail(a) ==
    /\ Active(a)
    /\ phase' = [phase EXCEPT ![a] = "Failed"]

Delete(a) ==
    /\ phase[a] \in Phases
    /\ phase' = [phase EXCEPT ![a] = "Gone"]

Next == \E a \in Actions : Create(a) \/ Advance(a) \/ Fail(a) \/ Delete(a)

Spec == Init /\ [][Next]_phase
=============================================================================
