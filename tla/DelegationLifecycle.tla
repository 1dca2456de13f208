------------------------- MODULE DelegationLifecycle -------------------------
(***************************************************************************)
(* What the supervisor store promises to the people who delegate work to   *)
(* it, without tables, fences, leases or clocks: a delegation is offered   *)
(* to one lane, is granted at most once, is held by one worker of that     *)
(* lane at a time, and is decided once.  Work marked for independent       *)
(* evaluation completes only through a judgement after its holder let go.  *)
(***************************************************************************)
CONSTANTS Lanes, Delegations, NONE

VARIABLES
  phase,    \* of each delegation
  home,     \* the lane it was offered to
  judged,   \* whether it needs an independent evaluation
  held      \* the delegations held on each lane

lifecycle == <<phase, home, judged, held>>

Undecided == {d \in Delegations : phase[d] \in {"READY", "CLAIMED", "VALIDATING"}}

Init ==
  /\ phase = [d \in Delegations |-> "ABSENT"]
  /\ home = [d \in Delegations |-> NONE]
  /\ judged = [d \in Delegations |-> FALSE]
  /\ held = [l \in Lanes |-> {}]

\* New work may be offered to a lane nobody works on and nobody evaluates.
Offer(l, d, j) ==
  /\ phase[d] = "ABSENT"
  /\ held[l] = {}
  /\ \A e \in Delegations : home[e] = l => phase[e] # "VALIDATING"
  /\ phase' = [phase EXCEPT ![d] = "READY"]
  /\ home' = [home EXCEPT ![d] = l]
  /\ judged' = [judged EXCEPT ![d] = j]
  /\ UNCHANGED held

Grant(l, d) ==
  /\ phase[d] = "READY"
  /\ home[d] = l
  /\ held[l] = {}
  /\ phase' = [phase EXCEPT ![d] = "CLAIMED"]
  /\ held' = [held EXCEPT ![l] = {d}]
  /\ UNCHANGED <<home, judged>>

\* The holder reports an outcome or hands a candidate over for evaluation.
Settle(l, d, outcome) ==
  /\ d \in held[l]
  /\ outcome = "COMPLETED" => ~judged[d]
  /\ phase' = [phase EXCEPT ![d] = outcome]
  /\ held' = [held EXCEPT ![l] = {}]
  /\ UNCHANGED <<home, judged>>

Judge(d, outcome) ==
  /\ phase[d] = "VALIDATING"
  /\ phase' = [phase EXCEPT ![d] = outcome]
  /\ UNCHANGED <<home, judged, held>>

\* Authority over some undecided work is lost, all at once.
Withdraw(D) ==
  /\ phase' = [d \in Delegations |-> IF d \in D THEN "STALE" ELSE phase[d]]
  /\ held' = [l \in Lanes |-> held[l] \ D]
  /\ UNCHANGED <<home, judged>>

Next ==
  \/ \E l \in Lanes, d \in Delegations, j \in BOOLEAN : Offer(l, d, j)
  \/ \E l \in Lanes, d \in Delegations : Grant(l, d)
  \/ \E l \in Lanes, d \in Delegations, o \in {"COMPLETED", "BLOCKED", "VALIDATING"} :
       Settle(l, d, o)
  \/ \E d \in Delegations, o \in {"COMPLETED", "BLOCKED"} : Judge(d, o)
  \/ \E D \in SUBSET Undecided : Withdraw(D)

Spec == Init /\ [][Next]_lifecycle
=============================================================================
