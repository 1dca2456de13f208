---------------------- MODULE SupervisorStoreRefinement ----------------------
(* The supervisor store implements the delegation lifecycle. *)
EXTENDS SupervisorStore

phase == [d \in Delegations |-> delegation[d].state]
home == [d \in Delegations |-> delegation[d].lane]
judged == [d \in Delegations |-> delegation[d].judged]

\* The delegations of the live claims of each lane.
held == [l \in Lanes |-> DelegationsOf(Active(l))]

Lifecycle == INSTANCE DelegationLifecycle WITH
  phase <- phase, home <- home, judged <- judged, held <- held

\* Whatever the callers do and however late, one method of the store at a time,
\* what the tables say of each delegation is a behaviour of the lifecycle: one
\* grant, one holder per lane, one decision, and no completion of work marked for
\* evaluation except by a judgement.
ImplementsLifecycle == Lifecycle!Spec
=============================================================================
