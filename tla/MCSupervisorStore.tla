-------------------------- MODULE MCSupervisorStore --------------------------
(* Symmetry for the model checking of SupervisorStore. *)
EXTENDS SupervisorStore, TLC

\* Delegations, idempotency keys and heads are only compared for equality.
Symmetry == Permutations(Delegations) \cup Permutations(Keys) \cup Permutations(Heads)
=============================================================================
