--------------------- MODULE MCSupervisorStoreRefinement ---------------------
(* Symmetry for the model checking of the refinement. *)
EXTENDS SupervisorStoreRefinement, TLC

\* Lanes, delegations, idempotency keys and heads are only compared for equality.
Symmetry == Permutations(Lanes) \cup Permutations(Delegations) \cup Permutations(Keys)
              \cup Permutations(Heads)
=============================================================================
