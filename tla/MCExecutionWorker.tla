------------------------- MODULE MCExecutionWorker -------------------------
(* ExecutionWorker with model values that may be exchanged. *)
EXTENDS ExecutionWorker, SupervisorStoreRefinement, TLC

Symmetry == Permutations(Heads) \cup Permutations(Workers)
LaneSymmetry == Permutations(Lanes) \cup Permutations(Workers)
=============================================================================
