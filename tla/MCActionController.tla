------------------------- MODULE MCActionController -------------------------
(***************************************************************************)
(* Values for model checking ActionController: an executor that keeps no   *)
(* checkpoint, and one that keeps a single one.                            *)
(***************************************************************************)
EXTENDS ActionControllerProperties, TLC

MCNoCheckpoints == {"none"}

MCShortCheckpoints == {"none", "half"}
MCShortCheckpointStep == {<<"none", "half">>}

\* Bound: the six versions of an Action that succeeds.
MCShortHistories == \A a \in Actions : Len(log[a]) <= 6

MCControllerSymmetry == Permutations(Controllers)
=============================================================================
