------------------------ MODULE SupervisorStoreProofs ------------------------
(***************************************************************************)
(* Theorems about SupervisorStore, for every number of lanes, delegations, *)
(* keys and callers and for every lease, budget and lag.                   *)
(***************************************************************************)
EXTENDS SupervisorStoreRefinement, FiniteSetTheorems, TLAPS

-----------------------------------------------------------------------------
(* Types *)

\* The fence increments of one recovery sweep are a natural number per lane.
LEMMA SweepCounts ==
  ASSUME NEW S, S \subseteq Keys
  PROVE  Cardinality(S) \in Nat /\ (S # {} => Cardinality(S) > 0)
<1>1. IsFiniteSet(S)
  BY FS_Subset, ConstantsAssumption
<1> QED
  BY <1>1, FS_CardinalityType, FS_EmptySet

\* Releasing a dispatch keeps its row well formed.
LEMMA ReleasedDispatchType ==
  ASSUME NEW o \in OutboxRow
  PROVE  ReleasedDispatch(o) \in OutboxRow
BY DEF ReleasedDispatch, OutboxRow

LEMMA StaleType ==
  ASSUME NEW c \in ClaimRow
  PROVE  Stale(c) \in ClaimRow
BY DEF Stale, ClaimRow, NoHandoff, Handoff, OrNone, Decided

LEMMA ReconcileType ==
  ASSUME NEW row \in LaneRow
  PROVE  Reconcile(row) \in LaneRow
BY DEF Reconcile, LaneRow, OrNone

LEMMA FencedType ==
  ASSUME NEW row \in LaneRow, NEW n \in Nat
  PROVE  /\ Fenced(row, n) \in LaneRow
         /\ Fenced(row, n).fence = row.fence + n
         /\ Fenced(row, n).state = "RECONCILE"
         /\ Fenced(row, n).head = row.head
<1>1. Reconcile(row) \in LaneRow
  BY ReconcileType
<1>2. Reconcile(row).fence = row.fence
  BY DEF Reconcile, LaneRow
<1>3. Reconcile(row).fence + n \in Nat
  BY <1>1 DEF LaneRow
<1> QED
  BY <1>1, <1>2, <1>3 DEF Fenced, Reconcile, LaneRow, OrNone

LEMMA AcknowledgedType ==
  ASSUME NEW o \in OutboxRow, NEW r \in Runs
  PROVE  Acknowledged(o, r) \in OutboxRow
<1>1. o.attempt + 1 \in Nat
  BY DEF OutboxRow
<1> QED
  BY <1>1 DEF Acknowledged, OutboxRow, OrNone

LEMMA TypeInit == Init => TypeOK
<1> SUFFICES ASSUME Init PROVE TypeOK
  OBVIOUS
<1>1. lane \in [Lanes -> LaneRow]
  BY DEF Init, LaneRow, OrNone
<1>2. delegation \in [Delegations -> DelegationRow]
  BY DEF Init, DelegationRow, OrNone
<1>3. NoClaim \in ClaimRow
  BY DEF NoClaim, ClaimRow, NoHandoff, Handoff, OrNone
<1>4. NoDispatch \in OutboxRow
  BY DEF NoDispatch, OutboxRow, OrNone
<1>5. failures \in [FailureIds -> FailureRow]
  BY DEF Init, FailureRow, OrNone
<1>6. verdicts \in [VerdictIds -> VerdictRow]
  BY DEF Init, VerdictRow, OrNone
<1> QED
  BY <1>1, <1>2, <1>3, <1>4, <1>5, <1>6 DEF Init, TypeOK

\* A step of the store by a caller that waited any time for the lock and asks for any
\* lease: what these steps keep, the steps of Next keep, and so do the steps that the
\* processes of ExecutionWorker take through the store.
AnyStep ==
  \/ \E l \in Lanes, h \in Heads : RegisterLane(l, h)
  \/ \E l \in Lanes, d \in Delegations, h \in Heads, j \in BOOLEAN : BindReady(l, d, h, j)
  \/ \E l \in Lanes, d \in Delegations, h \in Heads, k \in Keys, term \in Nat, at \in Nat :
       ClaimReady(l, d, h, k, term, at)
  \/ \E k \in Keys, r \in Runs : MarkDispatched(k, r)
  \/ \E k \in Keys, f \in FailureIds, b \in Budgets : DispatchFailed(k, f, b)
  \/ \E k \in Keys, t \in Issued, at \in Nat : Heartbeat(k, t, at)
  \/ \E k \in Keys, t \in Issued, g \in Digests, term \in Nat, at \in Nat :
       AwaitEvaluation(k, t, g, term, at)
  \/ \E k \in Keys, t \in Issued, v \in VerdictIds, x \in Verdicts, g \in Digests,
        e \in Evaluators, at \in Nat : EvaluatorVerdict(k, t, v, x, g, e, at)
  \/ \E k \in Keys, t \in Issued, s \in Decided, at \in Nat : Terminal(k, t, s, at)
  \/ \E l \in Lanes, h \in Heads : InvalidateHead(l, h)
  \/ \E at \in Nat : Recover(at)
  \/ Tick

LEMMA StepsAreSteps == TypeOK /\ [Next]_vars => [AnyStep]_vars
<1> SUFFICES ASSUME TypeOK, [Next]_vars PROVE [AnyStep]_vars
  OBVIOUS
<1>1. Readings \subseteq Nat
  BY DEF Readings, TypeOK
<1>2. LeaseTerms \subseteq Nat /\ EvalTerms \subseteq Nat
  BY ConstantsAssumption
<1>3. CASE \E l \in Lanes, d \in Delegations, h \in Heads, k \in Keys, term \in LeaseTerms,
              at \in Readings : ClaimReady(l, d, h, k, term, at)
  BY <1>1, <1>2, <1>3 DEF AnyStep
<1>4. CASE \E k \in Keys, t \in Issued, g \in Digests, term \in EvalTerms, at \in Readings :
              AwaitEvaluation(k, t, g, term, at)
  BY <1>1, <1>2, <1>4 DEF AnyStep
<1>5. CASE \E k \in Keys, t \in Issued, at \in Readings : Heartbeat(k, t, at)
  BY <1>1, <1>5 DEF AnyStep
<1>6. CASE \E k \in Keys, t \in Issued, v \in VerdictIds, x \in Verdicts, g \in Digests,
              e \in Evaluators, at \in Readings : EvaluatorVerdict(k, t, v, x, g, e, at)
  BY <1>1, <1>6 DEF AnyStep
<1>7. CASE \E k \in Keys, t \in Issued, s \in Decided, at \in Readings : Terminal(k, t, s, at)
  BY <1>1, <1>7 DEF AnyStep
<1>8. CASE \E at \in Readings : Recover(at)
  BY <1>1, <1>8 DEF AnyStep
<1> QED
  BY <1>3, <1>4, <1>5, <1>6, <1>7, <1>8 DEF Next, AnyStep

LEMMA TypeStep == TypeOK /\ [AnyStep]_vars => TypeOK'
<1> SUFFICES ASSUME TypeOK, [AnyStep]_vars PROVE TypeOK'
  OBVIOUS
<1> USE DEF TypeOK
<1>1. ASSUME NEW l \in Lanes, NEW h \in Heads, InvalidateHead(l, h)
      PROVE  TypeOK'
  <2>1. claim' \in [Keys -> ClaimRow]
    BY <1>1, StaleType DEF InvalidateHead
  <2>2. \A d \in Delegations : [delegation[d] EXCEPT !.state = "STALE"] \in DelegationRow
    BY DEF DelegationRow, Decided
  <2>3. delegation' \in [Delegations -> DelegationRow]
    BY <1>1, <2>2 DEF InvalidateHead
  <2>4. \A k \in Keys : [outbox[k] EXCEPT !.state = "CANCELLED"] \in OutboxRow
    BY DEF OutboxRow
  <2>5. outbox' \in [Keys -> OutboxRow]
    BY <1>1, <2>4, ReleasedDispatchType DEF InvalidateHead
  <2>6. [Fenced(lane[l], 1) EXCEPT !.head = h] \in LaneRow
    BY FencedType DEF LaneRow, OrNone
  <2>7. lane' \in [Lanes -> LaneRow]
    BY <1>1, <2>6 DEF InvalidateHead
  <2> QED
    BY <1>1, <2>1, <2>3, <2>5, <2>7 DEF InvalidateHead
<1>2. ASSUME NEW l \in Lanes, NEW h \in Heads, RegisterLane(l, h)
      PROVE  TypeOK'
  <2>1. CASE InvalidateHead(l, h)
    BY <1>1, <2>1
  <2>2. CASE ~InvalidateHead(l, h)
    <3>1. [lane[l] EXCEPT !.state = "IDLE", !.head = h] \in LaneRow
      BY DEF LaneRow, OrNone
    <3> QED
      BY <1>2, <2>2, <3>1 DEF RegisterLane
  <2> QED
    BY <2>1, <2>2
<1>3. ASSUME NEW l \in Lanes, NEW d \in Delegations, NEW h \in Heads, NEW j \in BOOLEAN,
             BindReady(l, d, h, j)
      PROVE  TypeOK'
  <2>1. [state |-> "READY", lane |-> l, head |-> h, judged |-> j] \in DelegationRow
    BY DEF DelegationRow, OrNone
  <2>2. [[lane EXCEPT ![l].state = "READY"] EXCEPT ![l].current = d] \in [Lanes -> LaneRow]
    BY DEF LaneRow, OrNone
  <2> QED
    BY <1>3, <2>1, <2>2 DEF BindReady
<1>4. ASSUME NEW l \in Lanes, NEW d \in Delegations, NEW h \in Heads, NEW k \in Keys,
             NEW term \in Nat, NEW at \in Nat, ClaimReady(l, d, h, k, term, at)
      PROVE  TypeOK'
  <2>1. at \in Nat /\ term \in Nat /\ NextToken(l) \in Nat
    BY ConstantsAssumption DEF NextToken, LaneRow
  <2>2. [lane[l] EXCEPT !.fence = NextToken(l), !.state = "CLAIMED", !.current = d] \in LaneRow
    BY <2>1 DEF LaneRow, OrNone
  <2>3. [delegation EXCEPT ![d].state = "CLAIMED"] \in [Delegations -> DelegationRow]
    BY DEF DelegationRow
  <2>4. NoHandoff \in Handoff
    BY DEF NoHandoff, Handoff, OrNone
  <2>5. [status |-> "CLAIMED", released |-> FALSE, lane |-> l, delegation |-> d,
         head |-> h, token |-> NextToken(l), claimed |-> at, expires |-> at + term,
         heartbeat |-> at, handoff |-> NoHandoff] \in ClaimRow
    BY <2>1, <2>4 DEF ClaimRow, OrNone
  <2>6. [state |-> "PENDING", attempt |-> 0, run |-> NONE, token |-> NextToken(l)] \in OutboxRow
    BY <2>1 DEF OutboxRow, OrNone
  <2> QED
    BY <1>4, <2>2, <2>3, <2>5, <2>6 DEF ClaimReady
<1>5. ASSUME NEW k \in Keys, NEW r \in Runs, MarkDispatched(k, r)
      PROVE  TypeOK'
  <2>1. Acknowledged(outbox[k], r) \in OutboxRow
    BY AcknowledgedType
  <2> QED
    BY <1>5, <2>1 DEF MarkDispatched
<1>6. ASSUME NEW k \in Keys, NEW f \in FailureIds, NEW b \in Budgets, DispatchFailed(k, f, b)
      PROVE  TypeOK'
  <2>1. outbox[k].attempt + 1 \in Nat
    BY DEF OutboxRow
  <2>2. \A s \in {"CIRCUIT_OPEN", "RETRY_WAIT"} :
          [outbox[k] EXCEPT !.attempt = outbox[k].attempt + 1, !.state = s] \in OutboxRow
    BY <2>1 DEF OutboxRow
  <2>3. \A o \in BOOLEAN :
          [dispatch |-> k, attempt |-> outbox[k].attempt + 1, opened |-> o] \in FailureRow
    BY <2>1 DEF FailureRow, OrNone
  <2>4. (outbox[k].attempt + 1 >= b) \in BOOLEAN
    OBVIOUS
  <2>5. outbox' \in [Keys -> OutboxRow]
    BY <1>6, <2>2 DEF DispatchFailed
  <2>6. failures' \in [FailureIds -> FailureRow]
    BY <1>6, <2>3, <2>4 DEF DispatchFailed
  <2> QED
    BY <1>6, <2>5, <2>6 DEF DispatchFailed
<1>7. ASSUME NEW k \in Keys, NEW t \in Issued, NEW at \in Nat, Heartbeat(k, t, at)
      PROVE  TypeOK'
  <2>1. [claim[k] EXCEPT !.heartbeat = at, !.status = "RUNNING"] \in ClaimRow
    BY DEF ClaimRow
  <2> QED
    BY <1>7, <2>1 DEF Heartbeat
<1>8. ASSUME NEW k \in Keys, NEW t \in Issued, NEW g \in Digests, NEW term \in Nat,
             NEW at \in Nat, AwaitEvaluation(k, t, g, term, at)
      PROVE  TypeOK'
  <2>1. at + term \in Nat
    OBVIOUS
  <2>2. [digest |-> g, worker |-> outbox[k].run, deadline |-> at + term] \in Handoff
    BY <2>1 DEF Handoff, OutboxRow, OrNone
  <2>3. [claim[k] EXCEPT !.status = "VALIDATING", !.released = TRUE,
           !.handoff = [digest |-> g, worker |-> outbox[k].run, deadline |-> at + term]]
          \in ClaimRow
    BY <2>2 DEF ClaimRow
  <2>4. [delegation EXCEPT ![claim[k].delegation].state = "VALIDATING"]
          \in [Delegations -> DelegationRow]
    BY DEF DelegationRow
  <2>5. [lane EXCEPT ![claim[k].lane] = Reconcile(lane[claim[k].lane])] \in [Lanes -> LaneRow]
    BY ReconcileType
  <2>6. [outbox EXCEPT ![k].state = "VALIDATING"] \in [Keys -> OutboxRow]
    BY DEF OutboxRow
  <2> QED
    BY <1>8, <2>3, <2>4, <2>5, <2>6 DEF AwaitEvaluation
<1>9. ASSUME NEW k \in Keys, NEW t \in Issued, NEW v \in VerdictIds, NEW x \in Verdicts,
             NEW g \in Digests, NEW e \in Evaluators, NEW at \in Nat,
             EvaluatorVerdict(k, t, v, x, g, e, at)
      PROVE  TypeOK'
  <2>1. Outcome(x) \in {"COMPLETED", "BLOCKED"} /\ NoHandoff \in Handoff
    BY DEF Outcome, NoHandoff, Handoff, OrNone
  <2>2. [[claim EXCEPT ![k].status = Outcome(x)] EXCEPT ![k].handoff = NoHandoff]
          \in [Keys -> ClaimRow]
    <3>1. [claim EXCEPT ![k].status = Outcome(x)] \in [Keys -> ClaimRow]
      BY <2>1 DEF ClaimRow, Decided
    <3> QED
      BY <2>1, <3>1 DEF ClaimRow
  <2>3. [delegation EXCEPT ![claim[k].delegation].state = Outcome(x)]
          \in [Delegations -> DelegationRow]
    BY <2>1 DEF DelegationRow, Decided
  <2>4. [outbox EXCEPT ![k].state = Outcome(x)] \in [Keys -> OutboxRow]
    BY <2>1 DEF OutboxRow
  <2>5. [claim |-> k, verdict |-> x, digest |-> g, evaluator |-> e] \in VerdictRow
    BY DEF VerdictRow, OrNone
  <2> QED
    BY <1>9, <2>2, <2>3, <2>4, <2>5 DEF EvaluatorVerdict
<1>10. ASSUME NEW k \in Keys, NEW t \in Issued, NEW s \in Decided, NEW at \in Nat,
              Terminal(k, t, s, at)
       PROVE  TypeOK'
  <2>1. [[claim EXCEPT ![k].status = s] EXCEPT ![k].released = TRUE] \in [Keys -> ClaimRow]
    BY DEF ClaimRow
  <2>2. [delegation EXCEPT ![claim[k].delegation].state = s] \in [Delegations -> DelegationRow]
    BY DEF DelegationRow
  <2>3. [lane EXCEPT ![claim[k].lane] = Reconcile(lane[claim[k].lane])] \in [Lanes -> LaneRow]
    BY ReconcileType
  <2>4. [outbox[k] EXCEPT !.state = "CANCELLED"] \in OutboxRow
    BY DEF OutboxRow
  <2>5. outbox' \in [Keys -> OutboxRow]
    BY <1>10, <2>4, ReleasedDispatchType DEF Terminal
  <2> QED
    BY <1>10, <2>1, <2>2, <2>3, <2>5 DEF Terminal
<1>11. ASSUME NEW at \in Nat, Recover(at)
       PROVE  TypeOK'
  <2> DEFINE stale == {k \in Keys : Abandoned(k, at)} \cup {k \in Keys : Overdue(k, at)}
             On(l) == {k \in stale : claim[k].lane = l}
  <2>1. claim' \in [Keys -> ClaimRow]
    BY <1>11, StaleType DEF Recover
  <2>2. \A d \in Delegations : [delegation[d] EXCEPT !.state = "STALE"] \in DelegationRow
    BY DEF DelegationRow, Decided
  <2>3. delegation' \in [Delegations -> DelegationRow]
    BY <1>11, <2>2 DEF Recover
  <2>4. \A k \in Keys : [outbox[k] EXCEPT !.state = "CANCELLED"] \in OutboxRow
    BY DEF OutboxRow
  <2>5. outbox' \in [Keys -> OutboxRow]
    BY <1>11, <2>4, ReleasedDispatchType DEF Recover
  <2>6. ASSUME NEW l \in Lanes
        PROVE  Fenced(lane[l], Cardinality(On(l))) \in LaneRow
    <3>1. Cardinality(On(l)) \in Nat
      BY SweepCounts
    <3> QED
      BY <3>1, FencedType
  <2>7. lane' \in [Lanes -> LaneRow]
    BY <1>11, <2>6 DEF Recover
  <2> QED
    BY <1>11, <2>1, <2>3, <2>5, <2>7 DEF Recover
<1>12. ASSUME Tick
       PROVE  TypeOK'
  BY <1>12 DEF Tick
<1>13. ASSUME UNCHANGED vars
       PROVE  TypeOK'
  BY <1>13 DEF vars
<1> QED
  BY <1>1, <1>2, <1>3, <1>4, <1>5, <1>6, <1>7, <1>8, <1>9, <1>10, <1>11, <1>12, <1>13 DEF AnyStep

\* Every row of every table stays within its type, for every value of the constants.
THEOREM TypeCorrect == Spec => []TypeOK
BY TypeInit, TypeStep, StepsAreSteps, PTL DEF Spec

LEMMA SpecSteps == Spec => [][AnyStep]_vars
BY TypeCorrect, StepsAreSteps, PTL DEF Spec

-----------------------------------------------------------------------------
(* Exclusion and fencing *)

Claimed(k) == claim[k].status # "ABSENT"

\* A claim is made on a lane, for a delegation; an unused key names neither.
Placed ==
  \A k \in Keys : IF Claimed(k)
                  THEN claim[k].lane \in Lanes /\ claim[k].delegation \in Delegations
                  ELSE claim[k].lane = NONE /\ claim[k].delegation = NONE

\* No claim carries a token its lane has not reached.
TokensBelowFence ==
  \A k \in Keys : Claimed(k) => claim[k].token <= lane[claim[k].lane].fence

\* LaneExclusion is inductive once every token is known to be spent.
ExclusionInv == TypeOK /\ Placed /\ TokensBelowFence /\ LaneExclusion

LEMMA StaleKeeps ==
  ASSUME NEW c \in ClaimRow
  PROVE  /\ Stale(c).status = "STALE"
         /\ Stale(c).released
         /\ Stale(c).lane = c.lane
         /\ Stale(c).delegation = c.delegation
         /\ Stale(c).head = c.head
         /\ Stale(c).token = c.token
BY DEF Stale, ClaimRow

\* What no step does to a claim that was made: it keeps its lane, delegation, head and
\* token, and it is not revived.
Persists(k) ==
  /\ claim'[k].status # "ABSENT"
  /\ claim'[k].lane = claim[k].lane
  /\ claim'[k].delegation = claim[k].delegation
  /\ claim'[k].head = claim[k].head
  /\ claim'[k].token = claim[k].token
  /\ claim[k].released => claim'[k].released

Granting == \E l \in Lanes, d \in Delegations, h \in Heads, k \in Keys, term \in Nat,
               at \in Nat : ClaimReady(l, d, h, k, term, at)

\* Every step but a grant leaves unused keys unused; every step lets claims persist.
LEMMA ClaimsPersist ==
  ASSUME TypeOK, Placed, [AnyStep]_vars
  PROVE  /\ \A k \in Keys : Claimed(k) => Persists(k)
         /\ Granting \/ \A k \in Keys : ~Claimed(k) => claim'[k] = claim[k]
<1> USE DEF TypeOK, Claimed, Persists
<1> DEFINE Kept == /\ \A k \in Keys : Claimed(k) => Persists(k)
                   /\ \A k \in Keys : ~Claimed(k) => claim'[k] = claim[k]
<1>1. ASSUME NEW l \in Lanes, NEW h \in Heads, InvalidateHead(l, h)
      PROVE  Kept
  <2>1. \A k \in Active(l) : Claimed(k)
    BY DEF Active, Live
  <2>2. \A k \in Keys : Validating(k) => Claimed(k)
    BY DEF Validating
  <2>3. \A k \in Keys : claim'[k] = claim[k] \/ (claim'[k] = Stale(claim[k]) /\ Claimed(k))
    BY <1>1, <2>1, <2>2 DEF InvalidateHead
  <2> QED
    BY <2>3, StaleKeeps
<1>2. ASSUME NEW l \in Lanes, NEW h \in Heads, RegisterLane(l, h)
      PROVE  Kept
  BY <1>1, <1>2 DEF RegisterLane
<1>3. ASSUME NEW l \in Lanes, NEW d \in Delegations, NEW h \in Heads, NEW j \in BOOLEAN,
             BindReady(l, d, h, j)
      PROVE  Kept
  BY <1>3 DEF BindReady
<1>4. ASSUME NEW l \in Lanes, NEW d \in Delegations, NEW h \in Heads, NEW k \in Keys,
             NEW term \in Nat, NEW at \in Nat, ClaimReady(l, d, h, k, term, at)
      PROVE  /\ \A i \in Keys : Claimed(i) => Persists(i)
             /\ Granting
  <2>1. \A i \in Keys : Claimed(i) => claim'[i] = claim[i]
    BY <1>4 DEF ClaimReady
  <2> QED
    BY <1>4, <2>1 DEF Granting
<1>5. ASSUME NEW k \in Keys, NEW r \in Runs, MarkDispatched(k, r)
      PROVE  Kept
  BY <1>5 DEF MarkDispatched
<1>6. ASSUME NEW k \in Keys, NEW f \in FailureIds, NEW b \in Budgets, DispatchFailed(k, f, b)
      PROVE  Kept
  BY <1>6 DEF DispatchFailed
<1>7. ASSUME NEW k \in Keys, NEW t \in Issued, NEW at \in Nat, Heartbeat(k, t, at)
      PROVE  Kept
  <2>1. Claimed(k)
    BY <1>7 DEF Heartbeat, LiveWorker, Live
  <2> QED
    BY <1>7, <2>1 DEF Heartbeat, ClaimRow
<1>8. ASSUME NEW k \in Keys, NEW t \in Issued, NEW g \in Digests, NEW term \in Nat,
             NEW at \in Nat, AwaitEvaluation(k, t, g, term, at)
      PROVE  Kept
  <2>1. Claimed(k)
    BY <1>8 DEF AwaitEvaluation, LiveWorker, Live
  <2> QED
    BY <1>8, <2>1 DEF AwaitEvaluation, ClaimRow
<1>9. ASSUME NEW k \in Keys, NEW t \in Issued, NEW v \in VerdictIds, NEW x \in Verdicts,
             NEW g \in Digests, NEW e \in Evaluators, NEW at \in Nat,
             EvaluatorVerdict(k, t, v, x, g, e, at)
      PROVE  Kept
  <2>1. Claimed(k) /\ Outcome(x) # "ABSENT"
    BY <1>9 DEF EvaluatorVerdict, VerdictAdmissible, Validating, Outcome
  <2> QED
    BY <1>9, <2>1 DEF EvaluatorVerdict, ClaimRow
<1>10. ASSUME NEW k \in Keys, NEW t \in Issued, NEW s \in Decided, NEW at \in Nat,
              Terminal(k, t, s, at)
       PROVE  Kept
  <2>1. Claimed(k) /\ s # "ABSENT"
    BY <1>10 DEF Terminal, MayTerminalize, LiveWorker, Live, Decided
  <2> QED
    BY <1>10, <2>1 DEF Terminal, ClaimRow
<1>11. ASSUME NEW at \in Nat, Recover(at)
       PROVE  Kept
  <2>1. \A k \in Keys : Abandoned(k, at) \/ Overdue(k, at) => Claimed(k)
    BY DEF Abandoned, Overdue, Live, Validating
  <2>2. \A k \in Keys : claim'[k] = claim[k] \/ (claim'[k] = Stale(claim[k]) /\ Claimed(k))
    BY <1>11, <2>1 DEF Recover
  <2> QED
    BY <2>2, StaleKeeps
<1>12. ASSUME Tick \/ UNCHANGED vars
       PROVE  Kept
  BY <1>12 DEF Tick, vars
<1> QED
  BY <1>1, <1>2, <1>3, <1>4, <1>5, <1>6, <1>7, <1>8, <1>9, <1>10, <1>11, <1>12 DEF AnyStep

\* No step takes a lane's fence back.
LEMMA FenceMonotonic ==
  ASSUME TypeOK, [AnyStep]_vars
  PROVE  \A l \in Lanes : lane'[l].fence >= lane[l].fence
<1> USE DEF TypeOK
<1> DEFINE Rising == \A l \in Lanes : lane'[l].fence >= lane[l].fence
<1>a. \A l \in Lanes : lane[l].fence \in Nat
  BY DEF LaneRow
<1>b. \A l \in Lanes : Reconcile(lane[l]).fence = lane[l].fence
  BY DEF Reconcile, LaneRow
<1>1. ASSUME NEW l \in Lanes, NEW h \in Heads, InvalidateHead(l, h)
      PROVE  Rising
  <2>1. [Fenced(lane[l], 1) EXCEPT !.head = h].fence = lane[l].fence + 1
    BY FencedType DEF LaneRow
  <2>2. lane' = [lane EXCEPT ![l] = [Fenced(lane[l], 1) EXCEPT !.head = h]]
    BY <1>1 DEF InvalidateHead
  <2> QED
    BY <1>a, <2>1, <2>2
<1>2. ASSUME NEW l \in Lanes, NEW h \in Heads, RegisterLane(l, h)
      PROVE  Rising
  <2>1. CASE InvalidateHead(l, h)
    BY <1>1, <2>1
  <2>2. CASE ~InvalidateHead(l, h)
    <3>1. lane' = [lane EXCEPT ![l] = [lane[l] EXCEPT !.state = "IDLE", !.head = h]]
      BY <1>2, <2>2 DEF RegisterLane
    <3>2. lane'[l].fence = lane[l].fence
      BY <3>1 DEF LaneRow
    <3> QED
      BY <3>1, <3>2, <1>a
  <2> QED
    BY <2>1, <2>2
<1>3. ASSUME NEW l \in Lanes, NEW d \in Delegations, NEW h \in Heads, NEW j \in BOOLEAN,
             BindReady(l, d, h, j)
      PROVE  Rising
  <2>1. lane' = [[lane EXCEPT ![l].state = "READY"] EXCEPT ![l].current = d]
    BY <1>3 DEF BindReady
  <2>2. \A m \in Lanes : lane'[m].fence = lane[m].fence
    BY <2>1 DEF LaneRow
  <2> QED
    BY <2>2, <1>a
<1>4. ASSUME NEW l \in Lanes, NEW d \in Delegations, NEW h \in Heads, NEW k \in Keys,
             NEW term \in Nat, NEW at \in Nat, ClaimReady(l, d, h, k, term, at)
      PROVE  Rising
  <2>1. lane' = [lane EXCEPT ![l] = [lane[l] EXCEPT !.fence = NextToken(l),
                                                    !.state = "CLAIMED", !.current = d]]
    BY <1>4 DEF ClaimReady
  <2>2. lane'[l].fence = lane[l].fence + 1
    BY <2>1 DEF NextToken, LaneRow
  <2> QED
    BY <2>1, <2>2, <1>a
<1>5. ASSUME NEW k \in Keys,
             \/ \E r \in Runs : MarkDispatched(k, r)
             \/ \E f \in FailureIds, b \in Budgets : DispatchFailed(k, f, b)
             \/ \E t \in Issued, at \in Nat : Heartbeat(k, t, at)
             \/ \E t \in Issued, v \in VerdictIds, x \in Verdicts, g \in Digests,
                   e \in Evaluators, at \in Nat : EvaluatorVerdict(k, t, v, x, g, e, at)
      PROVE  Rising
  <2>1. UNCHANGED lane
    BY <1>5 DEF MarkDispatched, DispatchFailed, Heartbeat, EvaluatorVerdict
  <2> QED
    BY <2>1, <1>a
<1>6. ASSUME NEW k \in Keys,
             \/ \E t \in Issued, g \in Digests, term \in Nat, at \in Nat :
                  AwaitEvaluation(k, t, g, term, at)
             \/ \E t \in Issued, s \in Decided, at \in Nat : Terminal(k, t, s, at)
      PROVE  Rising
  <2>1. lane' = [lane EXCEPT ![claim[k].lane] = Reconcile(lane[claim[k].lane])]
    BY <1>6 DEF AwaitEvaluation, Terminal
  <2> QED
    BY <2>1, <1>a, <1>b
<1>7. ASSUME NEW at \in Nat, Recover(at)
      PROVE  Rising
  <2> DEFINE stale == {k \in Keys : Abandoned(k, at)} \cup {k \in Keys : Overdue(k, at)}
             On(l) == {k \in stale : claim[k].lane = l}
  <2>1. \A l \in Lanes : Cardinality(On(l)) \in Nat
    BY SweepCounts
  <2>2. \A l \in Lanes : Fenced(lane[l], Cardinality(On(l))).fence
                           = lane[l].fence + Cardinality(On(l))
    BY <2>1, FencedType
  <2>3. \A l \in Lanes : \/ lane'[l] = lane[l]
                         \/ lane'[l] = Fenced(lane[l], Cardinality(On(l)))
    BY <1>7 DEF Recover
  <2>4. \A l \in Lanes : \/ lane'[l].fence = lane[l].fence
                         \/ lane'[l].fence = lane[l].fence + Cardinality(On(l))
    BY <2>2, <2>3
  <2> HIDE DEF On
  <2> QED
    BY <1>a, <2>1, <2>4
<1>8. ASSUME Tick \/ UNCHANGED vars
      PROVE  Rising
  BY <1>8, <1>a DEF Tick, vars
<1> QED
  BY <1>1, <1>2, <1>3, <1>4, <1>5, <1>6, <1>7, <1>8 DEF AnyStep

\* What a grant does: the key was unused, the lane had no live claim, and the new
\* token is the lane's new fence.
LEMMA GrantEffect ==
  ASSUME TypeOK, NEW l \in Lanes, NEW d \in Delegations, NEW h \in Heads, NEW k \in Keys,
         NEW term \in Nat, NEW at \in Nat, ClaimReady(l, d, h, k, term, at)
  PROVE  /\ ~Claimed(k) /\ Active(l) = {}
         /\ delegation[d].state = "READY" /\ delegation[d].lane = l
         /\ claim'[k].status = "CLAIMED" /\ ~claim'[k].released
         /\ claim'[k].lane = l /\ claim'[k].delegation = d
         /\ claim'[k].token = lane[l].fence + 1
         /\ lane'[l].fence = lane[l].fence + 1
         /\ outbox'[k].state = "PENDING" /\ outbox'[k].token = lane[l].fence + 1
         /\ \A i \in Keys \ {k} : claim'[i] = claim[i] /\ outbox'[i] = outbox[i]
         /\ delegation' = [delegation EXCEPT ![d].state = "CLAIMED"]
<1> USE DEF TypeOK
<1>1. /\ ~Claimed(k) /\ Active(l) = {}
      /\ delegation[d].state = "READY" /\ delegation[d].lane = l
  BY DEF ClaimReady, Claimable, Claimed
<1>2. claim' = [claim EXCEPT ![k] =
        [status |-> "CLAIMED", released |-> FALSE, lane |-> l, delegation |-> d,
         head |-> h, token |-> NextToken(l), claimed |-> at, expires |-> at + term,
         heartbeat |-> at, handoff |-> NoHandoff]]
  BY DEF ClaimReady
<1>3. /\ claim'[k].status = "CLAIMED" /\ ~claim'[k].released
      /\ claim'[k].lane = l /\ claim'[k].delegation = d
      /\ claim'[k].token = lane[l].fence + 1
  BY <1>2 DEF NextToken
<1>4. lane' = [lane EXCEPT ![l] = [lane[l] EXCEPT !.fence = NextToken(l),
                                                  !.state = "CLAIMED", !.current = d]]
  BY DEF ClaimReady
<1>5. lane'[l].fence = lane[l].fence + 1
  BY <1>4 DEF NextToken, LaneRow
<1>6. outbox' = [outbox EXCEPT ![k] =
        [state |-> "PENDING", attempt |-> 0, run |-> NONE, token |-> NextToken(l)]]
  BY DEF ClaimReady
<1>7. delegation' = [delegation EXCEPT ![d].state = "CLAIMED"]
  BY DEF ClaimReady
<1> QED
  BY <1>1, <1>2, <1>3, <1>5, <1>6, <1>7

LEMMA ExclusionInit == Init => ExclusionInv
<1> SUFFICES ASSUME Init PROVE ExclusionInv
  OBVIOUS
<1>1. \A k \in Keys : claim[k] = NoClaim /\ ~Claimed(k)
  BY DEF Init, NoClaim, Claimed
<1> QED
  BY <1>1, TypeInit DEF ExclusionInv, Placed, TokensBelowFence, LaneExclusion, NoClaim, Claimed

\* The claims of a lane stay apart: only a grant adds one, to a lane without a live
\* claim and with a token above every token of the lane.
LEMMA ExclusionStep == ExclusionInv /\ [AnyStep]_vars => ExclusionInv'
<1> SUFFICES ASSUME ExclusionInv, [AnyStep]_vars PROVE ExclusionInv'
  OBVIOUS
<1> USE DEF ExclusionInv, Claimed
<1>1. TypeOK'
  BY TypeStep
<1>2. \A k \in Keys : Claimed(k) => Persists(k)
  BY ClaimsPersist
<1>3. \A l \in Lanes : lane'[l].fence >= lane[l].fence
  BY FenceMonotonic
<1>n. /\ \A l \in Lanes : lane[l].fence \in Nat /\ lane'[l].fence \in Nat
      /\ \A k \in Keys : claim[k].token \in Nat /\ claim'[k].token \in Nat
  BY <1>1 DEF TypeOK, LaneRow, ClaimRow
<1>4. CASE \A k \in Keys : ~Claimed(k) => claim'[k] = claim[k]
  <2>1. \A k \in Keys : /\ Claimed(k)' <=> Claimed(k)
                        /\ claim'[k].lane = claim[k].lane
                        /\ claim'[k].delegation = claim[k].delegation
                        /\ claim'[k].token = claim[k].token
                        /\ Live(k)' => Live(k)
    BY <1>2, <1>4 DEF Persists, Live
  <2>2. Placed'
    BY <2>1 DEF Placed
  <2>3. TokensBelowFence'
    <3> SUFFICES ASSUME NEW k \in Keys, Claimed(k)'
                 PROVE  claim'[k].token <= lane'[claim'[k].lane].fence
      BY DEF TokensBelowFence
    <3>1. claim[k].lane \in Lanes /\ claim[k].token <= lane[claim[k].lane].fence
      BY <2>1 DEF Placed, TokensBelowFence
    <3> QED
      BY <3>1, <2>1, <1>3, <1>n
  <2>4. LaneExclusion'
    BY <2>1 DEF LaneExclusion
  <2> QED
    BY <1>1, <2>2, <2>3, <2>4
<1>5. CASE Granting
  <2>1. PICK l \in Lanes, d \in Delegations, h \in Heads, k \in Keys, term \in Nat,
             at \in Nat : ClaimReady(l, d, h, k, term, at)
    BY <1>5 DEF Granting
  <2>2. /\ ~Claimed(k) /\ Active(l) = {}
        /\ claim'[k].status = "CLAIMED" /\ ~claim'[k].released
        /\ claim'[k].lane = l /\ claim'[k].delegation = d
        /\ claim'[k].token = lane[l].fence + 1
        /\ lane'[l].fence = lane[l].fence + 1
        /\ \A i \in Keys \ {k} : claim'[i] = claim[i]
    BY <2>1, GrantEffect
  <2>3. Placed'
    BY <2>2 DEF Placed
  <2>4. TokensBelowFence'
    <3> SUFFICES ASSUME NEW i \in Keys, Claimed(i)'
                 PROVE  claim'[i].token <= lane'[claim'[i].lane].fence
      BY DEF TokensBelowFence
    <3>1. CASE i = k
      BY <3>1, <2>2, <1>n
    <3>2. CASE i # k
      <4>1. claim[i].lane \in Lanes /\ claim[i].token <= lane[claim[i].lane].fence
        BY <3>2, <2>2 DEF Placed, TokensBelowFence
      <4> QED
        BY <4>1, <3>2, <2>2, <1>3, <1>n
    <3> QED
      BY <3>1, <3>2
  <2>5. \A i \in Keys \ {k} : Claimed(i) /\ claim[i].lane = l =>
                                ~Live(i) /\ claim[i].token < claim'[k].token
    <3> TAKE i \in Keys \ {k}
    <3> HAVE Claimed(i) /\ claim[i].lane = l
    <3>1. ~Live(i)
      BY <2>2 DEF Active
    <3>2. claim[i].token <= lane[l].fence
      BY DEF TokensBelowFence
    <3> QED
      BY <3>1, <3>2, <2>2, <1>n
  <2>6. LaneExclusion'
    <3> SUFFICES ASSUME NEW i \in Keys, NEW j \in Keys, i # j,
                        claim'[i].status # "ABSENT", claim'[i].lane = claim'[j].lane
                 PROVE  ~(Live(i)' /\ Live(j)') /\ claim'[i].token # claim'[j].token
      BY DEF LaneExclusion
    <3>1. CASE i # k /\ j # k
      BY <3>1, <2>2 DEF LaneExclusion, Live
    <3>2. CASE i = k
      <4>1. Claimed(j) /\ claim[j].lane = l /\ claim'[j] = claim[j]
        BY <3>2, <2>2, ConstantsAssumption DEF Placed
      <4> QED
        BY <4>1, <3>2, <2>5, <1>n DEF Live
    <3>3. CASE j = k
      <4>1. Claimed(i) /\ claim[i].lane = l /\ claim'[i] = claim[i]
        BY <3>3, <2>2
      <4> QED
        BY <4>1, <3>3, <2>5, <1>n DEF Live
    <3> QED
      BY <3>1, <3>2, <3>3
  <2> QED
    BY <1>1, <2>3, <2>4, <2>6
<1> QED
  BY <1>4, <1>5, ClaimsPersist

LEMMA ExclusionInvariant == Spec => []ExclusionInv
BY ExclusionInit, ExclusionStep, SpecSteps, PTL DEF Spec

\* The central invariant of P10: one live claim per lane, and no two claims of a lane
\* with the same token, under any number of callers, keys and lanes and any clock lag.
THEOREM Exclusion == Spec => []LaneExclusion
BY ExclusionInvariant, PTL DEF ExclusionInv

\* Fences only rise and a new claim's token is above all earlier ones of its lane.
THEOREM Fencing == Spec => FenceAdvances
<1>1. ExclusionInv /\ [AnyStep]_vars =>
        [/\ \A l \in Lanes : lane'[l].fence >= lane[l].fence
         /\ \A j, k \in Keys :
              /\ claim[k].status = "ABSENT" /\ claim'[k].status # "ABSENT"
              /\ claim[j].status # "ABSENT" /\ claim[j].lane = claim'[k].lane
              => claim[j].token < claim'[k].token]_vars
  <2> SUFFICES ASSUME ExclusionInv, [AnyStep]_vars,
                      NEW j \in Keys, NEW k \in Keys,
                      claim[k].status = "ABSENT", claim'[k].status # "ABSENT",
                      claim[j].status # "ABSENT", claim[j].lane = claim'[k].lane
               PROVE  claim[j].token < claim'[k].token
    BY FenceMonotonic DEF ExclusionInv
  <2>1. Granting
    BY ClaimsPersist DEF ExclusionInv, Claimed
  <2>2. PICK l \in Lanes, d \in Delegations, h \in Heads, i \in Keys, term \in Nat,
             at \in Nat : ClaimReady(l, d, h, i, term, at)
    BY <2>1 DEF Granting
  <2>3. i = k /\ claim'[k].lane = l /\ claim'[k].token = lane[l].fence + 1
    BY <2>2, GrantEffect DEF ExclusionInv
  <2>4. claim[j].token <= lane[l].fence
    BY <2>3 DEF ExclusionInv, TokensBelowFence, Claimed
  <2>5. claim[j].token \in Nat /\ lane[l].fence \in Nat
    BY DEF ExclusionInv, TypeOK, ClaimRow, LaneRow
  <2> QED
    BY <2>3, <2>4, <2>5
<1> QED
  BY <1>1, ExclusionInvariant, SpecSteps, PTL DEF Spec, FenceAdvances

-----------------------------------------------------------------------------
(* Agreement of the tables and finality of outcomes *)

\* A released claim awaits a verdict or has its outcome; a live one has neither.
ReleasedIsHandedOver ==
  \A k \in Keys : Claimed(k) =>
    IF claim[k].released THEN claim[k].status \in {"VALIDATING"} \cup Decided
                         ELSE claim[k].status \in {"CLAIMED", "RUNNING", "RECOVERED"}

\* A claim's rows in the tables delegations and dispatch_outbox.
Agrees(k) ==
  /\ delegation[claim[k].delegation].state =
       IF claim[k].released THEN claim[k].status ELSE "CLAIMED"
  /\ outbox[k].state = "VALIDATING" <=> Validating(k)

OneClaimEach ==
  \A j, k \in Keys : Claimed(k) /\ j # k => claim[j].delegation # claim[k].delegation

AgreementInv ==
  /\ ExclusionInv
  /\ ReleasedIsHandedOver
  /\ OneClaimEach
  /\ \A k \in Keys : Claimed(k) => Agrees(k)

LEMMA AgreementImplies == AgreementInv => LifecycleAgreement
BY DEF AgreementInv, LifecycleAgreement, OneClaimEach, Agrees, Claimed

LEMMA ReleasedDispatchJudgesNothing ==
  ASSUME NEW o \in OutboxRow, o.state # "VALIDATING"
  PROVE  ReleasedDispatch(o).state # "VALIDATING"
BY DEF ReleasedDispatch, OutboxRow

LEMMA AgreementInit == Init => AgreementInv
<1> SUFFICES ASSUME Init PROVE AgreementInv
  OBVIOUS
<1>1. \A k \in Keys : ~Claimed(k)
  BY DEF Init, NoClaim, Claimed
<1> QED
  BY <1>1, ExclusionInit DEF AgreementInv, ReleasedIsHandedOver, OneClaimEach

\* A delegation is claimed at most once: a grant needs it READY, and the delegation of a
\* claim never is.
LEMMA OneClaimStep ==
  ASSUME AgreementInv, [AnyStep]_vars
  PROVE  OneClaimEach'
<1> USE DEF AgreementInv, ExclusionInv, Claimed
<1>1. Placed'
  BY ExclusionStep
<1>2. \A k \in Keys : Claimed(k) => Persists(k)
  BY ClaimsPersist
<1>3. CASE \A k \in Keys : ~Claimed(k) => claim'[k] = claim[k]
  <2>1. \A k \in Keys : /\ Claimed(k)' <=> Claimed(k)
                        /\ claim'[k].delegation = claim[k].delegation
    BY <1>2, <1>3 DEF Persists
  <2> QED
    BY <2>1 DEF OneClaimEach
<1>4. CASE Granting
  <2>1. PICK l \in Lanes, d \in Delegations, h \in Heads, k \in Keys, term \in Nat,
             at \in Nat : ClaimReady(l, d, h, k, term, at)
    BY <1>4 DEF Granting
  <2>2. /\ ~Claimed(k) /\ delegation[d].state = "READY" /\ claim'[k].delegation = d
        /\ \A i \in Keys \ {k} : claim'[i] = claim[i]
    BY <2>1, GrantEffect
  <2>3. \A i \in Keys \ {k} : claim'[i].delegation # d
    <3> TAKE i \in Keys \ {k}
    <3>1. CASE Claimed(i)
      BY <3>1, <2>2 DEF Agrees, ReleasedIsHandedOver, Decided
    <3>2. CASE ~Claimed(i)
      BY <3>2, <2>2, ConstantsAssumption DEF Placed
    <3> QED
      BY <3>1, <3>2
  <2> QED
    BY <2>2, <2>3 DEF OneClaimEach
<1> QED
  BY <1>3, <1>4, ClaimsPersist

\* What a step must do to the rows of a claim k to keep them in agreement.
StaysHandedOver(k) ==
  /\ Agrees(k)'
  /\ IF claim'[k].released THEN claim'[k].status \in {"VALIDATING"} \cup Decided
                           ELSE claim'[k].status \in {"CLAIMED", "RUNNING", "RECOVERED"}

\* What was decided of a claim and of a delegation is not rewritten.
KeepsOutcomes ==
  /\ \A k \in Keys : claim[k].status \in Decided => claim'[k] = claim[k]
  /\ \A d \in Delegations : delegation[d].state \in Decided => delegation'[d] = delegation[d]

\* A claim none of whose rows change stays in agreement.
LEMMA Untouched ==
  ASSUME AgreementInv, NEW k \in Keys, Claimed(k), claim'[k] = claim[k],
         outbox'[k].state = outbox[k].state,
         delegation'[claim[k].delegation].state = delegation[claim[k].delegation].state
  PROVE  StaysHandedOver(k)
BY DEF StaysHandedOver, AgreementInv, Agrees, ReleasedIsHandedOver, Validating

LEMMA SweepStep ==
  ASSUME AgreementInv,
         NEW T \in SUBSET {k \in Keys : Live(k) \/ Validating(k)},
         claim' = [k \in Keys |-> IF k \in T THEN Stale(claim[k]) ELSE claim[k]],
         \A k \in T : outbox'[k].state # "VALIDATING",
         \A k \in Keys \ T : outbox'[k] = outbox[k],
         \A d \in DelegationsOf(T) : delegation'[d] = [delegation[d] EXCEPT !.state = "STALE"],
         \A d \in Delegations \ DelegationsOf(T) :
           delegation[d].state # "READY" => delegation'[d] = delegation[d]
  PROVE  (\A k \in Keys : Claimed(k)' => StaysHandedOver(k)) /\ KeepsOutcomes
<1> USE DEF AgreementInv, ExclusionInv, Claimed
<1>1. \A k \in T : Claimed(k) /\ claim[k].delegation \in Delegations
  BY DEF Live, Validating, Placed
<1>2. ASSUME NEW k \in T
      PROVE  StaysHandedOver(k)
  <2>1. claim'[k].status = "STALE" /\ claim'[k].released
        /\ claim'[k].delegation = claim[k].delegation
    BY StaleKeeps DEF TypeOK
  <2>2. delegation'[claim[k].delegation].state = "STALE"
    <3>1. delegation[claim[k].delegation] \in DelegationRow
      BY <1>1 DEF TypeOK
    <3>2. claim[k].delegation \in DelegationsOf(T)
      BY DEF DelegationsOf
    <3>3. delegation'[claim[k].delegation]
            = [delegation[claim[k].delegation] EXCEPT !.state = "STALE"]
      BY <3>2
    <3> QED
      BY <3>1, <3>3 DEF DelegationRow
  <2> QED
    BY <2>1, <2>2 DEF StaysHandedOver, Agrees, Validating, Decided
<1>3. ASSUME NEW k \in Keys \ T, Claimed(k)
      PROVE  StaysHandedOver(k)
  <2>1. claim[k].delegation \in Delegations \ DelegationsOf(T)
    BY <1>3 DEF Placed, DelegationsOf, OneClaimEach
  <2>2. delegation[claim[k].delegation].state # "READY"
    BY <1>3 DEF Agrees, ReleasedIsHandedOver, Decided
  <2> QED
    BY <1>3, <2>1, <2>2, Untouched
<1>4. \A k \in T : claim[k].status \notin Decided
  BY DEF Live, Validating, ReleasedIsHandedOver, Decided
<1>5. \A d \in DelegationsOf(T) : delegation[d].state \notin Decided
  BY <1>1 DEF DelegationsOf, Agrees, Live, Validating, ReleasedIsHandedOver, Decided
<1>6. KeepsOutcomes
  BY <1>4, <1>5 DEF KeepsOutcomes, Decided
<1>7. \A k \in Keys \ T : Claimed(k)' => Claimed(k)
  OBVIOUS
<1> QED
  BY <1>2, <1>3, <1>6, <1>7

\* A step that changes the rows of one undecided claim and of nothing else.
LEMMA MoveStep ==
  ASSUME AgreementInv, NEW k \in Keys, Live(k) \/ Validating(k),
         \A i \in Keys \ {k} : claim'[i] = claim[i] /\ outbox'[i].state = outbox[i].state,
         \A d \in Delegations \ {claim[k].delegation} : delegation'[d] = delegation[d],
         StaysHandedOver(k)
  PROVE  (\A i \in Keys : Claimed(i)' => StaysHandedOver(i)) /\ KeepsOutcomes
<1> USE DEF AgreementInv, ExclusionInv, Claimed
<1>1. Claimed(k) /\ claim[k].delegation \in Delegations
  BY DEF Live, Validating, Placed
<1>2. ASSUME NEW i \in Keys \ {k}, Claimed(i)
      PROVE  StaysHandedOver(i)
  <2>1. claim[i].delegation \in Delegations \ {claim[k].delegation}
    BY <1>1, <1>2 DEF Placed, OneClaimEach
  <2> QED
    BY <1>2, <2>1, Untouched
<1>3. claim[k].status \notin Decided /\ delegation[claim[k].delegation].state \notin Decided
  BY <1>1 DEF Agrees, Live, Validating, ReleasedIsHandedOver, Decided
<1>4. KeepsOutcomes
  BY <1>3 DEF KeepsOutcomes
<1> QED
  BY <1>2, <1>4

\* Every method keeps the rows of every claim in agreement and rewrites no outcome.
LEMMA RowsStep ==
  ASSUME AgreementInv, [AnyStep]_vars
  PROVE  (\A k \in Keys : Claimed(k)' => StaysHandedOver(k)) /\ KeepsOutcomes
<1> DEFINE Good == (\A k \in Keys : Claimed(k)' => StaysHandedOver(k)) /\ KeepsOutcomes
<1> USE DEF AgreementInv, ExclusionInv, TypeOK
<1>t. \A k \in Keys : claim[k] \in ClaimRow /\ outbox[k] \in OutboxRow
  OBVIOUS
<1>u. ASSUME UNCHANGED <<delegation, claim>>,
             \A k \in Keys : outbox[k].state = "VALIDATING" <=> outbox'[k].state = "VALIDATING"
      PROVE  Good
  BY <1>u DEF StaysHandedOver, Agrees, ReleasedIsHandedOver, Validating, KeepsOutcomes, Claimed
<1>1. ASSUME NEW l \in Lanes, NEW h \in Heads, InvalidateHead(l, h)
      PROVE  Good
  <2> DEFINE V == {k \in Keys : claim[k].lane = l /\ Validating(k)}
             T == Active(l) \cup V
  <2>1. T \in SUBSET {k \in Keys : Live(k) \/ Validating(k)}
    BY DEF Active
  <2>2. claim' = [k \in Keys |-> IF k \in T THEN Stale(claim[k]) ELSE claim[k]]
    BY <1>1 DEF InvalidateHead
  <2>3. ASSUME NEW k \in T
        PROVE  outbox'[k].state # "VALIDATING"
    <3>1. Claimed(k) /\ Agrees(k)
      BY DEF Active, Live, Validating, Claimed
    <3>2. CASE k \in Active(l)
      <4>1. outbox'[k] = ReleasedDispatch(outbox[k])
        BY <1>1, <3>2 DEF InvalidateHead, Active
      <4>2. outbox[k].state # "VALIDATING"
        BY <3>1, <3>2 DEF Agrees, Active, Live, Validating
      <4> QED
        BY <4>1, <4>2, <1>t, ReleasedDispatchJudgesNothing DEF Active
    <3>3. CASE k \notin Active(l)
      <4>1. outbox[k].state = "VALIDATING"
        BY <3>1, <3>3 DEF Agrees
      <4>2. outbox'[k] = [outbox[k] EXCEPT !.state = "CANCELLED"]
        BY <1>1, <3>3, <4>1 DEF InvalidateHead
      <4> QED
        BY <4>2, <1>t DEF OutboxRow
    <3> QED
      BY <3>2, <3>3
  <2>4. \A k \in Keys \ T : outbox'[k] = outbox[k]
    BY <1>1 DEF InvalidateHead
  <2>5. ASSUME NEW d \in DelegationsOf(T)
        PROVE  delegation'[d] = [delegation[d] EXCEPT !.state = "STALE"]
    <3>1. PICK k \in T : d = claim[k].delegation
      BY DEF DelegationsOf
    <3>2. Claimed(k) /\ Agrees(k) /\ d \in Delegations
      BY <3>1 DEF Active, Live, Validating, Claimed, Placed
    <3>3. CASE k \in Active(l)
      <4>1. d \in DelegationsOf(Active(l))
        BY <3>1, <3>3 DEF DelegationsOf
      <4> QED
        BY <1>1, <3>2, <4>1 DEF InvalidateHead
    <3>4. CASE k \notin Active(l)
      <4>1. d \in DelegationsOf(V) /\ delegation[d].state = "VALIDATING"
        BY <3>1, <3>2, <3>4 DEF DelegationsOf, Agrees, Validating
      <4> QED
        BY <1>1, <3>2, <4>1 DEF InvalidateHead
    <3> QED
      BY <3>3, <3>4
  <2>6. \A d \in Delegations \ DelegationsOf(T) :
          delegation[d].state # "READY" => delegation'[d] = delegation[d]
    BY <1>1 DEF InvalidateHead, DelegationsOf
  <2> HIDE DEF T
  <2> QED
    BY <2>1, <2>2, <2>3, <2>4, <2>5, <2>6, SweepStep
<1>2. ASSUME NEW l \in Lanes, NEW h \in Heads, RegisterLane(l, h)
      PROVE  Good
  <2>1. CASE InvalidateHead(l, h)
    BY <1>1, <2>1
  <2>2. CASE ~InvalidateHead(l, h)
    BY <1>2, <2>2, <1>u DEF RegisterLane
  <2> QED
    BY <2>1, <2>2
<1>3. ASSUME NEW l \in Lanes, NEW d \in Delegations, NEW h \in Heads, NEW j \in BOOLEAN,
             BindReady(l, d, h, j)
      PROVE  Good
  <2>1. UNCHANGED <<claim, outbox>> /\ delegation[d].state = "ABSENT"
        /\ \A e \in Delegations \ {d} : delegation'[e] = delegation[e]
    BY <1>3 DEF BindReady
  <2>2. ASSUME NEW k \in Keys, Claimed(k)
        PROVE  StaysHandedOver(k)
    <3>1. claim[k].delegation \in Delegations \ {d}
      BY <2>1, <2>2 DEF Agrees, ReleasedIsHandedOver, Placed, Decided
    <3> QED
      BY <2>1, <2>2, <3>1, Untouched
  <2>3. KeepsOutcomes
    BY <2>1 DEF KeepsOutcomes, Decided
  <2> QED
    BY <2>1, <2>2, <2>3 DEF Claimed
<1>4. ASSUME NEW l \in Lanes, NEW d \in Delegations, NEW h \in Heads, NEW k \in Keys,
             NEW term \in Nat, NEW at \in Nat, ClaimReady(l, d, h, k, term, at)
      PROVE  Good
  <2>1. /\ ~Claimed(k) /\ delegation[d].state = "READY"
        /\ claim'[k].status = "CLAIMED" /\ ~claim'[k].released /\ claim'[k].delegation = d
        /\ outbox'[k].state = "PENDING"
        /\ \A i \in Keys \ {k} : claim'[i] = claim[i] /\ outbox'[i] = outbox[i]
        /\ delegation' = [delegation EXCEPT ![d].state = "CLAIMED"]
    BY <1>4, GrantEffect
  <2>2. StaysHandedOver(k)
    BY <2>1 DEF StaysHandedOver, Agrees, Validating, DelegationRow
  <2>3. ASSUME NEW i \in Keys \ {k}, Claimed(i)
        PROVE  StaysHandedOver(i)
    <3>1. claim[i].delegation \in Delegations \ {d}
      BY <2>1, <2>3 DEF Agrees, ReleasedIsHandedOver, Placed, Decided
    <3> QED
      BY <2>1, <2>3, <3>1, Untouched
  <2>4. KeepsOutcomes
    BY <2>1 DEF KeepsOutcomes, Decided, Claimed
  <2> QED
    BY <2>1, <2>2, <2>3, <2>4 DEF Claimed
<1>5. ASSUME NEW k \in Keys, NEW r \in Runs, MarkDispatched(k, r)
      PROVE  Good
  <2>1. outbox[k].state # "VALIDATING"
    BY <1>5 DEF MarkDispatched, Live, Agrees, Validating, Claimed
  <2>2. Acknowledged(outbox[k], r).state = "DISPATCHED"
    BY <1>t DEF Acknowledged, OutboxRow
  <2>3. outbox' = [outbox EXCEPT ![k] = Acknowledged(outbox[k], r)]
        /\ UNCHANGED <<delegation, claim>>
    BY <1>5 DEF MarkDispatched
  <2> QED
    BY <2>1, <2>2, <2>3, <1>u
<1>6. ASSUME NEW k \in Keys, NEW f \in FailureIds, NEW b \in Budgets, DispatchFailed(k, f, b)
      PROVE  Good
  <2>1. outbox[k].state # "VALIDATING" /\ UNCHANGED <<delegation, claim>>
        /\ \A i \in Keys \ {k} : outbox'[i] = outbox[i]
    BY <1>6 DEF DispatchFailed, Retryable
  <2>2. outbox'[k].state \in {"CIRCUIT_OPEN", "RETRY_WAIT"}
    BY <1>6 DEF DispatchFailed, OutboxRow
  <2> QED
    BY <2>1, <2>2, <1>u
<1>7. ASSUME NEW k \in Keys, NEW t \in Issued, NEW at \in Nat, Heartbeat(k, t, at)
      PROVE  Good
  <2>1. Live(k) /\ UNCHANGED <<delegation, outbox>>
        /\ \A i \in Keys \ {k} : claim'[i] = claim[i]
    BY <1>7 DEF Heartbeat, LiveWorker
  <2>2. claim'[k].status = "RUNNING" /\ ~claim'[k].released
        /\ claim'[k].delegation = claim[k].delegation
    BY <1>7, <2>1 DEF Heartbeat, ClaimRow, Live
  <2>3. StaysHandedOver(k)
    BY <2>1, <2>2 DEF StaysHandedOver, Agrees, Validating, Live, Claimed
  <2> QED
    BY <2>1, <2>3, MoveStep
<1>8. ASSUME NEW k \in Keys, NEW t \in Issued, NEW g \in Digests, NEW term \in Nat,
             NEW at \in Nat, AwaitEvaluation(k, t, g, term, at)
      PROVE  Good
  <2>1. Live(k) /\ claim[k].delegation \in Delegations
        /\ (\A i \in Keys \ {k} : claim'[i] = claim[i] /\ outbox'[i] = outbox[i])
        /\ \A d \in Delegations \ {claim[k].delegation} : delegation'[d] = delegation[d]
    BY <1>8 DEF AwaitEvaluation, LiveWorker, Live, Placed, Claimed
  <2>2. /\ claim'[k].status = "VALIDATING" /\ claim'[k].released
        /\ claim'[k].delegation = claim[k].delegation
    BY <1>8 DEF AwaitEvaluation, ClaimRow
  <2>3. delegation'[claim[k].delegation].state = "VALIDATING" /\ outbox'[k].state = "VALIDATING"
    BY <1>8, <2>1 DEF AwaitEvaluation, DelegationRow, OutboxRow
  <2>4. StaysHandedOver(k)
    BY <2>2, <2>3 DEF StaysHandedOver, Agrees, Validating
  <2> QED
    BY <2>1, <2>4, MoveStep
<1>9. ASSUME NEW k \in Keys, NEW t \in Issued, NEW v \in VerdictIds, NEW x \in Verdicts,
             NEW g \in Digests, NEW e \in Evaluators, NEW at \in Nat,
             EvaluatorVerdict(k, t, v, x, g, e, at)
      PROVE  Good
  <2>1. Validating(k) /\ claim[k].delegation \in Delegations
        /\ (\A i \in Keys \ {k} : claim'[i] = claim[i] /\ outbox'[i] = outbox[i])
        /\ \A d \in Delegations \ {claim[k].delegation} : delegation'[d] = delegation[d]
    BY <1>9 DEF EvaluatorVerdict, VerdictAdmissible, Validating, Placed, Claimed
  <2>2. /\ claim'[k].status = Outcome(x) /\ claim'[k].released
        /\ claim'[k].delegation = claim[k].delegation
    BY <1>9, <2>1 DEF EvaluatorVerdict, ClaimRow, Validating
  <2>3. delegation'[claim[k].delegation].state = Outcome(x) /\ outbox'[k].state = Outcome(x)
    BY <1>9, <2>1 DEF EvaluatorVerdict, DelegationRow, OutboxRow
  <2>4. Outcome(x) \in Decided /\ Outcome(x) # "VALIDATING"
    BY DEF Outcome, Decided
  <2>5. StaysHandedOver(k)
    BY <2>2, <2>3, <2>4 DEF StaysHandedOver, Agrees, Validating
  <2> QED
    BY <2>1, <2>5, MoveStep
<1>10. ASSUME NEW k \in Keys, NEW t \in Issued, NEW s \in Decided, NEW at \in Nat,
              Terminal(k, t, s, at)
       PROVE  Good
  <2>1. Live(k) /\ claim[k].delegation \in Delegations
        /\ (\A i \in Keys \ {k} : claim'[i] = claim[i] /\ outbox'[i] = outbox[i])
        /\ \A d \in Delegations \ {claim[k].delegation} : delegation'[d] = delegation[d]
    BY <1>10 DEF Terminal, MayTerminalize, LiveWorker, Live, Placed, Claimed
  <2>2. /\ claim'[k].status = s /\ claim'[k].released
        /\ claim'[k].delegation = claim[k].delegation
    BY <1>10 DEF Terminal, ClaimRow
  <2>3. delegation'[claim[k].delegation].state = s
    BY <1>10, <2>1 DEF Terminal, DelegationRow
  <2>4. outbox[k].state # "VALIDATING"
    BY <2>1 DEF Live, Agrees, Validating, Claimed
  <2>5. outbox'[k].state # "VALIDATING"
    <3>1. outbox'[k] \in {ReleasedDispatch(outbox[k]), outbox[k],
                          [outbox[k] EXCEPT !.state = "CANCELLED"]}
      BY <1>10 DEF Terminal
    <3> QED
      BY <3>1, <2>4, <1>t, ReleasedDispatchJudgesNothing DEF OutboxRow
  <2>6. StaysHandedOver(k)
    BY <2>2, <2>3, <2>5 DEF StaysHandedOver, Agrees, Validating, Decided
  <2> QED
    BY <2>1, <2>6, MoveStep
<1>11. ASSUME NEW at \in Nat, Recover(at)
       PROVE  Good
  <2> DEFINE A == {k \in Keys : Abandoned(k, at)}
             O == {k \in Keys : Overdue(k, at)}
             T == A \cup O
  <2>1. T \in SUBSET {k \in Keys : Live(k) \/ Validating(k)}
    BY DEF Abandoned, Overdue
  <2>2. claim' = [k \in Keys |-> IF k \in T THEN Stale(claim[k]) ELSE claim[k]]
    BY <1>11 DEF Recover
  <2>3. ASSUME NEW k \in T
        PROVE  outbox'[k].state # "VALIDATING"
    <3>1. CASE k \in A
      <4>1. outbox'[k] = ReleasedDispatch(outbox[k])
        BY <1>11, <3>1 DEF Recover
      <4>2. outbox[k].state # "VALIDATING"
        BY <3>1 DEF Abandoned, Agrees, Live, Validating, Claimed
      <4> QED
        BY <4>1, <4>2, <1>t, ReleasedDispatchJudgesNothing
    <3>2. CASE k \notin A
      <4>1. outbox'[k] = [outbox[k] EXCEPT !.state = "CANCELLED"]
        BY <1>11, <3>2 DEF Recover
      <4> QED
        BY <4>1, <1>t DEF OutboxRow
    <3> QED
      BY <3>1, <3>2
  <2>4. \A k \in Keys \ T : outbox'[k] = outbox[k]
    BY <1>11 DEF Recover
  <2>5. ASSUME NEW d \in DelegationsOf(T)
        PROVE  delegation'[d] = [delegation[d] EXCEPT !.state = "STALE"]
    <3>1. d \in Delegations
      BY DEF DelegationsOf, Abandoned, Overdue, Live, Validating, Placed, Claimed
    <3> QED
      BY <1>11, <3>1 DEF Recover
  <2>6. \A d \in Delegations \ DelegationsOf(T) : delegation'[d] = delegation[d]
    BY <1>11 DEF Recover
  <2> HIDE DEF T
  <2> QED
    BY <2>1, <2>2, <2>3, <2>4, <2>5, <2>6, SweepStep
<1>12. ASSUME Tick \/ UNCHANGED vars
       PROVE  Good
  BY <1>12, <1>u DEF Tick, vars
<1> QED
  BY <1>1, <1>2, <1>3, <1>4, <1>5, <1>6, <1>7, <1>8, <1>9, <1>10, <1>11, <1>12 DEF AnyStep

LEMMA AgreementStep == AgreementInv /\ [AnyStep]_vars => AgreementInv'
<1> SUFFICES ASSUME AgreementInv, [AnyStep]_vars PROVE AgreementInv'
  OBVIOUS
<1>1. ExclusionInv'
  BY ExclusionStep DEF AgreementInv
<1>2. OneClaimEach'
  BY OneClaimStep
<1>3. \A k \in Keys : Claimed(k)' => StaysHandedOver(k)
  BY RowsStep
<1>4. ReleasedIsHandedOver'
  BY <1>3 DEF ReleasedIsHandedOver, StaysHandedOver
<1> QED
  BY <1>1, <1>2, <1>3, <1>4 DEF AgreementInv, StaysHandedOver

LEMMA AgreementInvariant == Spec => []AgreementInv
BY AgreementInit, AgreementStep, SpecSteps, PTL DEF Spec

\* The four tables tell one story: every method leaves a delegation in the state of its
\* only claim and a dispatch VALIDATING exactly while its claim is, for any sets of rows
\* a head change or a recovery sweeps.
THEOREM Agreement == Spec => []LifecycleAgreement
BY AgreementInvariant, AgreementImplies, PTL

\* An outcome is final, for a claim and for a delegation.
THEOREM Finality == Spec => OutcomeIsFinal
<1>1. AgreementInv /\ [AnyStep]_vars =>
        [/\ \A k \in Keys : claim[k].status \in Decided => claim'[k] = claim[k]
         /\ \A d \in Delegations :
              delegation[d].state \in Decided => delegation'[d] = delegation[d]]_vars
  BY RowsStep DEF KeepsOutcomes
<1> QED
  BY <1>1, AgreementInvariant, SpecSteps, PTL DEF Spec, OutcomeIsFinal

-----------------------------------------------------------------------------
(* Completion on the current authority                                     *)

\* A bound delegation keeps what it was bound to.
LEMMA BindingsPersist ==
  ASSUME TypeOK, [AnyStep]_vars, NEW d \in Delegations, delegation[d].state # "ABSENT"
  PROVE  /\ delegation'[d].head = delegation[d].head
         /\ delegation'[d].judged = delegation[d].judged
         /\ delegation'[d].lane = delegation[d].lane
<1> DEFINE Bound == /\ delegation'[d].head = delegation[d].head
                    /\ delegation'[d].judged = delegation[d].judged
                    /\ delegation'[d].lane = delegation[d].lane
<1>t. delegation \in [Delegations -> DelegationRow]
  BY DEF TypeOK
<1>m. ASSUME NEW s, delegation'[d] \in {delegation[d], [delegation[d] EXCEPT !.state = s]}
      PROVE  Bound
  BY <1>m, <1>t DEF DelegationRow
<1>1. ASSUME NEW l \in Lanes, NEW h \in Heads, InvalidateHead(l, h)
      PROVE  Bound
  <2>1. delegation'[d] \in {delegation[d], [delegation[d] EXCEPT !.state = "STALE"]}
    BY <1>1 DEF InvalidateHead
  <2> QED
    BY <2>1, <1>m
<1>2. ASSUME NEW l \in Lanes, NEW h \in Heads, RegisterLane(l, h)
      PROVE  Bound
  BY <1>1, <1>2 DEF RegisterLane
<1>3. ASSUME NEW l \in Lanes, NEW e \in Delegations, NEW h \in Heads, NEW j \in BOOLEAN,
             BindReady(l, e, h, j)
      PROVE  Bound
  <2>1. delegation'[d] = delegation[d]
    BY <1>3 DEF BindReady
  <2> QED
    BY <2>1
<1>4. ASSUME NEW s, NEW e, delegation' = [delegation EXCEPT ![e].state = s]
      PROVE  Bound
  <2>1. delegation'[d] \in {delegation[d], [delegation[d] EXCEPT !.state = s]}
    BY <1>4, <1>t
  <2> QED
    BY <2>1, <1>m
<1>5. ASSUME NEW l \in Lanes, NEW e \in Delegations, NEW h \in Heads, NEW k \in Keys,
             NEW term \in Nat, NEW at \in Nat, ClaimReady(l, e, h, k, term, at)
      PROVE  Bound
  BY <1>4, <1>5 DEF ClaimReady
<1>6. ASSUME NEW k \in Keys, NEW t \in Issued, NEW g \in Digests, NEW term \in Nat,
             NEW at \in Nat, AwaitEvaluation(k, t, g, term, at)
      PROVE  Bound
  BY <1>4, <1>6 DEF AwaitEvaluation
<1>7. ASSUME NEW k \in Keys, NEW t \in Issued, NEW v \in VerdictIds, NEW x \in Verdicts,
             NEW g \in Digests, NEW e \in Evaluators, NEW at \in Nat,
             EvaluatorVerdict(k, t, v, x, g, e, at)
      PROVE  Bound
  BY <1>4, <1>7 DEF EvaluatorVerdict
<1>8. ASSUME NEW k \in Keys, NEW t \in Issued, NEW s \in Decided, NEW at \in Nat,
             Terminal(k, t, s, at)
      PROVE  Bound
  BY <1>4, <1>8 DEF Terminal
<1>9. ASSUME NEW at \in Nat, Recover(at)
      PROVE  Bound
  <2>1. delegation'[d] \in {delegation[d], [delegation[d] EXCEPT !.state = "STALE"]}
    BY <1>9 DEF Recover
  <2> QED
    BY <2>1, <1>m
<1>10. ASSUME \/ \E k \in Keys, r \in Runs : MarkDispatched(k, r)
              \/ \E k \in Keys, f \in FailureIds, b \in Budgets : DispatchFailed(k, f, b)
              \/ \E k \in Keys, t \in Issued, at \in Nat : Heartbeat(k, t, at)
              \/ Tick \/ UNCHANGED vars
       PROVE  Bound
  BY <1>10 DEF MarkDispatched, DispatchFailed, Heartbeat, Tick, vars
<1> QED
  BY <1>1, <1>2, <1>3, <1>5, <1>6, <1>7, <1>8, <1>9, <1>10 DEF AnyStep

\* A claim is made for the head its delegation was bound to.
HeadsAgree ==
  \A k \in Keys : Claimed(k) => claim[k].head = delegation[claim[k].delegation].head

BindingInv == AgreementInv /\ HeadsAgree

\* The delegation of a claim is bound.
LEMMA ClaimedIsBound ==
  ASSUME AgreementInv, NEW k \in Keys, Claimed(k)
  PROVE  /\ claim[k].delegation \in Delegations
         /\ delegation[claim[k].delegation].state \notin {"ABSENT", "READY"}
BY DEF AgreementInv, ExclusionInv, Placed, Agrees, ReleasedIsHandedOver, Decided

LEMMA BindingInvariant == Spec => []BindingInv
<1>1. Init => BindingInv
  <2> SUFFICES ASSUME Init PROVE BindingInv
    OBVIOUS
  <2>1. \A k \in Keys : ~Claimed(k)
    BY DEF Init, NoClaim, Claimed
  <2> QED
    BY <2>1, AgreementInit DEF BindingInv, HeadsAgree
<1>2. BindingInv /\ [AnyStep]_vars => BindingInv'
  <2> SUFFICES ASSUME BindingInv, [AnyStep]_vars PROVE HeadsAgree'
    BY AgreementStep DEF BindingInv
  <2> USE DEF BindingInv
  <2>t. TypeOK /\ Placed
    BY DEF AgreementInv, ExclusionInv
  <2>1. ASSUME NEW k \in Keys, Claimed(k)
        PROVE  claim'[k].head = delegation'[claim'[k].delegation].head
    <3>1. Persists(k)
      BY <2>1, <2>t, ClaimsPersist
    <3>2. /\ claim[k].delegation \in Delegations
          /\ delegation[claim[k].delegation].state # "ABSENT"
      BY <2>1, ClaimedIsBound
    <3> QED
      BY <2>1, <2>t, <3>1, <3>2, BindingsPersist DEF Persists, HeadsAgree
  <2>2. ASSUME NEW k \in Keys, ~Claimed(k), Claimed(k)'
        PROVE  claim'[k].head = delegation'[claim'[k].delegation].head
    <3>1. Granting
      BY <2>2, <2>t, ClaimsPersist DEF Claimed
    <3>2. PICK l \in Lanes, d \in Delegations, h \in Heads, i \in Keys, term \in Nat,
               at \in Nat : ClaimReady(l, d, h, i, term, at)
      BY <3>1 DEF Granting
    <3>3. i = k
      BY <2>2, <2>t, <3>2, GrantEffect DEF Claimed
    <3>4. claim'[k].head = h /\ claim'[k].delegation = d /\ delegation[d].head = h
      BY <2>t, <3>2, <3>3 DEF ClaimReady, Claimable, TypeOK
    <3>5. delegation'[d].head = delegation[d].head
      BY <2>t, <3>2 DEF ClaimReady, TypeOK, DelegationRow
    <3> QED
      BY <3>4, <3>5
  <2> QED
    BY <2>1, <2>2 DEF HeadsAgree
<1> QED
  BY <1>1, <1>2, SpecSteps, PTL DEF Spec

\* How a claim becomes COMPLETED: by a verdict that passes it or by the report of its worker.
Passed(k) == \E t \in Issued, v \in VerdictIds, g \in Digests, e \in Evaluators, at \in Nat :
               EvaluatorVerdict(k, t, v, "PASS", g, e, at)
Reported(k) == \E t \in Issued, at \in Nat : Terminal(k, t, "COMPLETED", at)

LEMMA CompletionStep ==
  ASSUME TypeOK, Placed, [AnyStep]_vars, NEW k \in Keys,
         claim[k].status # "COMPLETED", claim'[k].status = "COMPLETED"
  PROVE  Passed(k) \/ Reported(k)
<1> USE DEF TypeOK
<1>t. \A i \in Keys : Stale(claim[i]).status = "STALE"
  BY StaleKeeps
<1>1. ASSUME NEW l \in Lanes, NEW h \in Heads, InvalidateHead(l, h)
      PROVE  FALSE
  <2>1. claim'[k] \in {claim[k], Stale(claim[k])}
    BY <1>1 DEF InvalidateHead
  <2> QED
    BY <2>1, <1>t
<1>2. ASSUME NEW at \in Nat, Recover(at)
      PROVE  FALSE
  <2>1. claim'[k] \in {claim[k], Stale(claim[k])}
    BY <1>2 DEF Recover
  <2> QED
    BY <2>1, <1>t
<1>3. ASSUME NEW l \in Lanes, NEW d \in Delegations, NEW h \in Heads, NEW i \in Keys,
             NEW term \in Nat, NEW at \in Nat, ClaimReady(l, d, h, i, term, at)
      PROVE  FALSE
  BY <1>3, GrantEffect
<1>4. ASSUME NEW i \in Keys, NEW t \in Issued, NEW at \in Nat, Heartbeat(i, t, at)
      PROVE  FALSE
  BY <1>4 DEF Heartbeat, ClaimRow
<1>5. ASSUME NEW i \in Keys, NEW t \in Issued, NEW g \in Digests, NEW term \in Nat,
             NEW at \in Nat, AwaitEvaluation(i, t, g, term, at)
      PROVE  FALSE
  BY <1>5 DEF AwaitEvaluation, ClaimRow
<1>6. ASSUME NEW i \in Keys, NEW t \in Issued, NEW v \in VerdictIds, NEW x \in Verdicts,
             NEW g \in Digests, NEW e \in Evaluators, NEW at \in Nat,
             EvaluatorVerdict(i, t, v, x, g, e, at)
      PROVE  Passed(k)
  <2>1. i = k
    BY <1>6 DEF EvaluatorVerdict
  <2>2. claim'[k].status = Outcome(x)
    BY <1>6, <2>1 DEF EvaluatorVerdict, ClaimRow
  <2>3. x = "PASS"
    BY <2>2 DEF Outcome
  <2> QED
    BY <1>6, <2>1, <2>3 DEF Passed
<1>7. ASSUME NEW i \in Keys, NEW t \in Issued, NEW s \in Decided, NEW at \in Nat,
             Terminal(i, t, s, at)
      PROVE  Reported(k)
  <2>1. i = k
    BY <1>7 DEF Terminal
  <2>2. s = "COMPLETED"
    BY <1>7, <2>1 DEF Terminal, ClaimRow
  <2> QED
    BY <1>7, <2>1, <2>2 DEF Reported
<1>8. ASSUME \/ \E l \in Lanes, d \in Delegations, h \in Heads, j \in BOOLEAN :
                  BindReady(l, d, h, j)
             \/ \E i \in Keys, r \in Runs : MarkDispatched(i, r)
             \/ \E i \in Keys, f \in FailureIds, b \in Budgets : DispatchFailed(i, f, b)
             \/ Tick \/ UNCHANGED vars
      PROVE  FALSE
  BY <1>8 DEF BindReady, MarkDispatched, DispatchFailed, Tick, vars
<1>9. ASSUME NEW l \in Lanes, NEW h \in Heads, RegisterLane(l, h)
      PROVE  FALSE
  BY <1>1, <1>9 DEF RegisterLane
<1> QED
  BY <1>1, <1>2, <1>3, <1>4, <1>5, <1>6, <1>7, <1>8, <1>9 DEF AnyStep

\* Nothing completes on a head that the lane has left or after a newer grant on its lane,
\* for any callers, tokens presented, redeliveries and readings of the clock: whoever
\* completes a claim holds the lane's fence, above which no token of the lane is.
THEOREM Currency == Spec => CompletionIsCurrent
<1> DEFINE A == \A k \in Keys :
                  claim[k].status # "COMPLETED" /\ claim'[k].status = "COMPLETED" =>
                    /\ lane[claim[k].lane].head = delegation[claim[k].delegation].head
                    /\ \A j \in Keys \ {k} :
                         claim[j].lane = claim[k].lane => claim[j].token < claim[k].token
<1>1. BindingInv /\ [AnyStep]_vars => A
  <2> SUFFICES ASSUME BindingInv, [AnyStep]_vars, NEW k \in Keys,
                      claim[k].status # "COMPLETED", claim'[k].status = "COMPLETED"
               PROVE  /\ lane[claim[k].lane].head = delegation[claim[k].delegation].head
                      /\ \A j \in Keys \ {k} :
                           claim[j].lane = claim[k].lane => claim[j].token < claim[k].token
    OBVIOUS
  <2> USE DEF BindingInv, AgreementInv, ExclusionInv
  <2>1. /\ Claimed(k)
        /\ lane[claim[k].lane].head = claim[k].head
        /\ lane[claim[k].lane].fence = claim[k].token
    <3>1. CASE Passed(k)
      BY <3>1 DEF Passed, EvaluatorVerdict, VerdictAdmissible, Validating, Claimed
    <3>2. CASE Reported(k)
      BY <3>2 DEF Reported, Terminal, MayTerminalize, LiveWorker, Live, Claimed
    <3> QED
      BY <3>1, <3>2, CompletionStep
  <2>2. ASSUME NEW j \in Keys \ {k}, claim[j].lane = claim[k].lane
        PROVE  claim[j].token < claim[k].token
    <3>1. claim[k].lane \in Lanes
      BY <2>1 DEF Placed
    <3>2. Claimed(j)
      BY <2>2, <3>1, ConstantsAssumption DEF Placed
    <3>3. claim[j].token <= claim[k].token
      BY <2>1, <2>2, <3>2 DEF TokensBelowFence
    <3>4. claim[j].token # claim[k].token
      BY <2>1, <2>2, <3>2 DEF LaneExclusion, Claimed
    <3>5. claim[j].token \in Nat /\ claim[k].token \in Nat
      BY DEF TypeOK, ClaimRow
    <3> QED
      BY <3>3, <3>4, <3>5
  <2> QED
    BY <2>1, <2>2 DEF HeadsAgree
<1>2. BindingInv /\ [AnyStep]_vars => [A]_vars
  BY <1>1
<1> QED
  BY <1>2, BindingInvariant, SpecSteps, PTL DEF Spec, CompletionIsCurrent

-----------------------------------------------------------------------------
(* The audit of lanes and candidates                                       *)

\* A CLAIMED lane has its claim: what releases the claim moves the lane on.
LaneHeld == \A l \in Lanes : lane[l].state = "CLAIMED" => Active(l) # {}

\* A delegation under evaluation has its claim.
CandidateHeld ==
  \A d \in Delegations : delegation[d].state = "VALIDATING" =>
    \E k \in Keys : Claimed(k) /\ claim[k].delegation = d

\* A step keeps a lane CLAIMED only if it releases none of its claims.
LEMMA LaneHeldStep ==
  ASSUME AgreementInv, LaneHeld, [AnyStep]_vars
  PROVE  LaneHeld'
<1> USE DEF AgreementInv, ExclusionInv, TypeOK
<1>t. \A l \in Lanes : Reconcile(lane[l]).state = "RECONCILE"
  BY DEF Reconcile, LaneRow
<1>m. ASSUME NEW l \in Lanes, NEW k \in Active(l),
             claim'[k].lane = l, claim'[k].status # "ABSENT", ~claim'[k].released
      PROVE  Active(l)' # {}
  BY <1>m DEF Active, Live
<1> SUFFICES ASSUME NEW l \in Lanes, lane'[l].state = "CLAIMED"
             PROVE  Active(l)' # {}
  BY DEF LaneHeld
<1>k. ASSUME lane'[l] = lane[l], \A k \in Active(l) : claim'[k] = claim[k]
      PROVE  Active(l)' # {}
  BY <1>k DEF LaneHeld, Active, Live
<1>1. ASSUME NEW i \in Lanes, NEW h \in Heads, InvalidateHead(i, h)
      PROVE  Active(l)' # {}
  <2>1. CASE i = l
    <3>1. lane'[l] = [Fenced(lane[l], 1) EXCEPT !.head = h]
      BY <1>1, <2>1 DEF InvalidateHead
    <3>2. lane'[l].state = "RECONCILE"
      BY <3>1, FencedType DEF LaneRow
    <3> QED
      BY <3>2
  <2>2. CASE i # l
    <3>1. \A k \in Active(l) : claim'[k] = claim[k]
      BY <1>1, <2>2 DEF InvalidateHead, Active
    <3> QED
      BY <1>1, <2>2, <3>1, <1>k DEF InvalidateHead
  <2> QED
    BY <2>1, <2>2
<1>2. ASSUME NEW i \in Lanes, NEW h \in Heads, RegisterLane(i, h)
      PROVE  Active(l)' # {}
  <2>1. CASE InvalidateHead(i, h)
    BY <1>1, <2>1
  <2>2. CASE ~InvalidateHead(i, h)
    BY <1>2, <2>2, <1>k DEF RegisterLane, LaneRow
  <2> QED
    BY <2>1, <2>2
<1>3. ASSUME NEW i \in Lanes, NEW d \in Delegations, NEW h \in Heads, NEW j \in BOOLEAN,
             BindReady(i, d, h, j)
      PROVE  Active(l)' # {}
  <2>1. i # l
    BY <1>3 DEF BindReady, LaneRow
  <2> QED
    BY <1>3, <2>1, <1>k DEF BindReady
<1>4. ASSUME NEW i \in Lanes, NEW d \in Delegations, NEW h \in Heads, NEW k \in Keys,
             NEW term \in Nat, NEW at \in Nat, ClaimReady(i, d, h, k, term, at)
      PROVE  Active(l)' # {}
  <2>1. /\ claim'[k].status = "CLAIMED" /\ ~claim'[k].released /\ claim'[k].lane = i
        /\ ~Claimed(k) /\ \A j \in Keys \ {k} : claim'[j] = claim[j]
    BY <1>4, GrantEffect
  <2>2. CASE i = l
    BY <2>1, <2>2 DEF Active, Live
  <2>3. CASE i # l
    <3>1. \A j \in Active(l) : claim'[j] = claim[j]
      BY <2>1 DEF Active, Live, Claimed
    <3> QED
      BY <1>4, <2>3, <3>1, <1>k DEF ClaimReady
  <2> QED
    BY <2>2, <2>3
<1>5. ASSUME NEW k \in Keys, NEW t \in Issued, NEW at \in Nat, Heartbeat(k, t, at)
      PROVE  Active(l)' # {}
  <2>1. \A j \in Keys : /\ claim'[j].lane = claim[j].lane
                        /\ claim'[j].released = claim[j].released
                        /\ Live(j) => claim'[j].status # "ABSENT"
    BY <1>5 DEF Heartbeat, ClaimRow, Live
  <2>2. lane' = lane
    BY <1>5 DEF Heartbeat
  <2>3. PICK j \in Active(l) : TRUE
    BY <2>2 DEF LaneHeld
  <2> QED
    BY <2>1, <2>3 DEF Active, Live
<1>6. ASSUME NEW k \in Keys, Live(k),
             lane' = [lane EXCEPT ![claim[k].lane] = Reconcile(lane[claim[k].lane])],
             \A j \in Keys \ {k} : claim'[j] = claim[j]
      PROVE  Active(l)' # {}
  <2>1. claim[k].lane # l
    BY <1>6, <1>t
  <2> QED
    BY <1>6, <2>1, <1>k DEF Active
<1>7. ASSUME NEW k \in Keys, NEW t \in Issued, NEW g \in Digests, NEW term \in Nat,
             NEW at \in Nat, AwaitEvaluation(k, t, g, term, at)
      PROVE  Active(l)' # {}
  BY <1>6, <1>7 DEF AwaitEvaluation, LiveWorker
<1>8. ASSUME NEW k \in Keys, NEW t \in Issued, NEW v \in VerdictIds, NEW x \in Verdicts,
             NEW g \in Digests, NEW e \in Evaluators, NEW at \in Nat,
             EvaluatorVerdict(k, t, v, x, g, e, at)
      PROVE  Active(l)' # {}
  <2>1. k \notin Active(l)
    BY <1>8 DEF EvaluatorVerdict, VerdictAdmissible, Validating, Active, Live
  <2>2. lane' = lane /\ \A j \in Keys \ {k} : claim'[j] = claim[j]
    BY <1>8 DEF EvaluatorVerdict
  <2> QED
    BY <2>1, <2>2, <1>k DEF Active
<1>9. ASSUME NEW k \in Keys, NEW t \in Issued, NEW s \in Decided, NEW at \in Nat,
             Terminal(k, t, s, at)
      PROVE  Active(l)' # {}
  BY <1>6, <1>9 DEF Terminal, MayTerminalize, LiveWorker
<1>10. ASSUME NEW at \in Nat, Recover(at)
       PROVE  Active(l)' # {}
  <2> DEFINE stale == {k \in Keys : Abandoned(k, at)} \cup {k \in Keys : Overdue(k, at)}
             On == {k \in stale : claim[k].lane = l}
  <2>1. /\ lane'[l] = IF On # {} THEN Fenced(lane[l], Cardinality(On)) ELSE lane[l]
        /\ claim' = [k \in Keys |-> IF k \in stale THEN Stale(claim[k]) ELSE claim[k]]
    BY <1>10 DEF Recover
  <2>2. CASE On # {}
    <3>1. Cardinality(On) \in Nat
      BY SweepCounts
    <3>2. Fenced(lane[l], Cardinality(On)).state = "RECONCILE"
      BY <3>1, FencedType
    <3> QED
      BY <2>1, <2>2, <3>2
  <2>3. CASE On = {}
    BY <2>1, <2>3, <1>k DEF Active
  <2> QED
    BY <2>2, <2>3
<1>11. ASSUME \/ \E k \in Keys, r \in Runs : MarkDispatched(k, r)
              \/ \E k \in Keys, f \in FailureIds, b \in Budgets : DispatchFailed(k, f, b)
              \/ Tick \/ UNCHANGED vars
       PROVE  Active(l)' # {}
  BY <1>11, <1>k DEF MarkDispatched, DispatchFailed, Tick, vars
<1> QED
  BY <1>1, <1>2, <1>3, <1>4, <1>5, <1>7, <1>8, <1>9, <1>10, <1>11 DEF AnyStep

\* A delegation goes under evaluation with the claim its worker hands over.
LEMMA CandidateHeldStep ==
  ASSUME AgreementInv, CandidateHeld, [AnyStep]_vars
  PROVE  CandidateHeld'
<1> USE DEF AgreementInv, ExclusionInv, TypeOK
<1> DEFINE Handing == \E k \in Keys, t \in Issued, g \in Digests, term \in Nat,
                         at \in Nat : AwaitEvaluation(k, t, g, term, at)
<1> SUFFICES ASSUME NEW d \in Delegations, delegation'[d].state = "VALIDATING"
             PROVE  \E k \in Keys : Claimed(k)' /\ claim'[k].delegation = d
  BY DEF CandidateHeld
<1>1. CASE delegation[d].state = "VALIDATING"
  <2>1. PICK k \in Keys : Claimed(k) /\ claim[k].delegation = d
    BY <1>1 DEF CandidateHeld
  <2> QED
    BY <2>1, ClaimsPersist DEF Persists, Claimed
<1>2. CASE delegation[d].state # "VALIDATING" /\ Handing
  <2>1. PICK k \in Keys, t \in Issued, g \in Digests, term \in Nat, at \in Nat :
               AwaitEvaluation(k, t, g, term, at)
    BY <1>2
  <2>2. Claimed(k)
    BY <2>1 DEF AwaitEvaluation, LiveWorker, Live, Claimed
  <2>3. claim[k].delegation = d
    BY <1>2, <2>1 DEF AwaitEvaluation
  <2> QED
    BY <2>2, <2>3, ClaimsPersist DEF Persists, Claimed
<1>3. CASE delegation[d].state # "VALIDATING" /\ ~Handing
  <2>m. ASSUME NEW e, NEW s \in {"READY", "CLAIMED"} \cup Decided,
               delegation' = [delegation EXCEPT ![e].state = s]
        PROVE  FALSE
    BY <2>m, <1>3 DEF DelegationRow, Decided
  <2>1. ASSUME NEW i \in Lanes, NEW h \in Heads, InvalidateHead(i, h)
        PROVE  FALSE
    <3>1. delegation'[d] \in {delegation[d], [delegation[d] EXCEPT !.state = "STALE"]}
      BY <2>1 DEF InvalidateHead
    <3> QED
      BY <1>3, <3>1 DEF DelegationRow
  <2>2. ASSUME NEW at \in Nat, Recover(at)
        PROVE  FALSE
    <3>1. delegation'[d] \in {delegation[d], [delegation[d] EXCEPT !.state = "STALE"]}
      BY <2>2 DEF Recover
    <3> QED
      BY <1>3, <3>1 DEF DelegationRow
  <2>3. ASSUME NEW i \in Lanes, NEW e \in Delegations, NEW h \in Heads, NEW j \in BOOLEAN,
               BindReady(i, e, h, j)
        PROVE  FALSE
    BY <1>3, <2>3 DEF BindReady
  <2>4. ASSUME NEW i \in Lanes, NEW e \in Delegations, NEW h \in Heads, NEW k \in Keys,
               NEW term \in Nat, NEW at \in Nat, ClaimReady(i, e, h, k, term, at)
        PROVE  FALSE
    <3>1. delegation' = [delegation EXCEPT ![e].state = "CLAIMED"]
      BY <2>4 DEF ClaimReady
    <3> QED
      BY <3>1, <2>m
  <2>5. ASSUME NEW k \in Keys, NEW t \in Issued, NEW v \in VerdictIds, NEW x \in Verdicts,
               NEW g \in Digests, NEW e \in Evaluators, NEW at \in Nat,
               EvaluatorVerdict(k, t, v, x, g, e, at)
        PROVE  FALSE
    BY <2>5, <2>m DEF EvaluatorVerdict, Outcome, Decided
  <2>6. ASSUME NEW k \in Keys, NEW t \in Issued, NEW s \in Decided, NEW at \in Nat,
               Terminal(k, t, s, at)
        PROVE  FALSE
    BY <2>6, <2>m DEF Terminal
  <2>7. ASSUME \/ \E k \in Keys, r \in Runs : MarkDispatched(k, r)
               \/ \E k \in Keys, f \in FailureIds, b \in Budgets : DispatchFailed(k, f, b)
               \/ \E k \in Keys, t \in Issued, at \in Nat : Heartbeat(k, t, at)
               \/ Tick \/ UNCHANGED vars
        PROVE  FALSE
    BY <1>3, <2>7 DEF MarkDispatched, DispatchFailed, Heartbeat, Tick, vars
  <2>8. ASSUME NEW i \in Lanes, NEW h \in Heads, RegisterLane(i, h)
        PROVE  FALSE
    BY <1>3, <2>1, <2>8 DEF RegisterLane
  <2> QED
    BY <1>3, <2>1, <2>2, <2>3, <2>4, <2>5, <2>6, <2>7, <2>8 DEF AnyStep
<1> QED
  BY <1>1, <1>2, <1>3

\* The part of audit_invariants that any sequence of calls keeps: a CLAIMED lane has its
\* claim, and a delegation under evaluation has its candidate and its dispatch.
THEOREM AuditPasses == Spec => []AuditLaneAndCandidate
<1> DEFINE IInv == AgreementInv /\ LaneHeld /\ CandidateHeld
<1>1. Init => IInv
  BY AgreementInit DEF Init, LaneHeld, CandidateHeld
<1>2. IInv /\ [AnyStep]_vars => IInv'
  BY AgreementStep, LaneHeldStep, CandidateHeldStep
<1>3. IInv => AuditLaneAndCandidate
  <2> SUFFICES ASSUME IInv, NEW d \in Delegations, delegation[d].state = "VALIDATING"
               PROVE  \E k \in Keys : /\ claim[k].delegation = d
                                      /\ Validating(k)
                                      /\ outbox[k].state = "VALIDATING"
    BY DEF AuditLaneAndCandidate, LaneHeld
  <2>1. PICK k \in Keys : Claimed(k) /\ claim[k].delegation = d
    BY DEF CandidateHeld
  <2>2. Agrees(k)
    BY <2>1 DEF AgreementInv
  <2> QED
    BY <2>1, <2>2 DEF Agrees, Validating
<1> QED
  BY <1>1, <1>2, <1>3, SpecSteps, PTL DEF Spec

-----------------------------------------------------------------------------
(* Dispatches of released claims                                           *)

\* What ReleasedWorkIsStopped says of one claim.
Stopped(k) ==
  /\ outbox[k].state \notin {"PENDING", "RETRY_WAIT"}
  /\ claim[k].status = "STALE" /\ outbox[k].run # NONE
       => outbox[k].state \in {"CANCELLED", "CANCEL_REQUESTED"}

\* A dispatch that was made for a live claim has a run exactly when it is DISPATCHED, and a
\* candidate names the run of its dispatch.
DispatchRow(k) ==
  /\ ~Claimed(k) => outbox[k] = NoDispatch /\ ~claim[k].released
  /\ Live(k) => /\ outbox[k].state \in {"PENDING", "RETRY_WAIT", "CIRCUIT_OPEN", "DISPATCHED"}
                /\ outbox[k].state = "DISPATCHED" <=> outbox[k].run # NONE
  /\ claim[k].released => Stopped(k)
  /\ Validating(k) => claim[k].handoff.worker = outbox[k].run

DispatchInv == AgreementInv /\ \A k \in Keys : DispatchRow(k)

LEMMA ReleasedDispatchStops ==
  ASSUME NEW o \in OutboxRow,
         o.state \in {"PENDING", "RETRY_WAIT", "CIRCUIT_OPEN", "DISPATCHED"},
         o.state = "DISPATCHED" <=> o.run # NONE
  PROVE  /\ ReleasedDispatch(o).state \notin {"PENDING", "RETRY_WAIT"}
         /\ ReleasedDispatch(o).run # NONE =>
              ReleasedDispatch(o).state \in {"CANCELLED", "CANCEL_REQUESTED"}
BY DEF ReleasedDispatch, OutboxRow

\* A claim that is swept together with its dispatch is stopped.
LEMMA SweptRow ==
  ASSUME DispatchInv, NEW k \in Keys, claim'[k] = Stale(claim[k]),
         \/ Live(k) /\ outbox'[k] = ReleasedDispatch(outbox[k])
         \/ Validating(k) /\ outbox'[k] = [outbox[k] EXCEPT !.state = "CANCELLED"]
  PROVE  DispatchRow(k)'
<1> USE DEF DispatchInv, AgreementInv, ExclusionInv, TypeOK
<1>t. claim[k] \in ClaimRow /\ outbox[k] \in OutboxRow
  OBVIOUS
<1>1. claim'[k].status = "STALE" /\ claim'[k].released
  BY <1>t, StaleKeeps
<1>2. Stopped(k)'
  <2>1. CASE Live(k) /\ outbox'[k] = ReleasedDispatch(outbox[k])
    BY <2>1, <1>t, ReleasedDispatchStops DEF Stopped, DispatchRow
  <2>2. CASE outbox'[k] = [outbox[k] EXCEPT !.state = "CANCELLED"]
    BY <2>2, <1>t DEF Stopped, OutboxRow
  <2> QED
    BY <2>1, <2>2
<1> QED
  BY <1>1, <1>2 DEF DispatchRow, Claimed, Live, Validating

LEMMA DispatchStep ==
  ASSUME DispatchInv, [AnyStep]_vars, NEW k \in Keys
  PROVE  DispatchRow(k)'
<1> USE DEF DispatchInv, AgreementInv, ExclusionInv, TypeOK
<1>t. claim[k] \in ClaimRow /\ outbox[k] \in OutboxRow
  OBVIOUS
<1>n. NONE \notin Runs
  BY ConstantsAssumption
<1>u. ASSUME claim'[k] = claim[k], outbox'[k] = outbox[k]
      PROVE  DispatchRow(k)'
  <2> USE DEF DispatchRow, Stopped, Claimed, Live, Validating
  <2>1. ~Claimed(k)' => outbox'[k] = NoDispatch /\ ~claim'[k].released
    BY <1>u
  <2>2. DispatchRow(k)
    OBVIOUS
  <2> QED
    BY <1>u, <2>1, <2>2
<1>1. ASSUME NEW l \in Lanes, NEW h \in Heads, InvalidateHead(l, h)
      PROVE  DispatchRow(k)'
  <2>1. CASE k \in Active(l)
    BY <1>1, <2>1, SweptRow DEF InvalidateHead, Active
  <2>2. CASE k \notin Active(l) /\ claim[k].lane = l /\ Validating(k)
    <3>1. outbox[k].state = "VALIDATING"
      BY <2>2 DEF Agrees, Validating, Claimed
    <3> QED
      BY <1>1, <2>2, <3>1, SweptRow DEF InvalidateHead
  <2>3. CASE k \notin Active(l) /\ ~(claim[k].lane = l /\ Validating(k))
    BY <1>1, <2>3, <1>u DEF InvalidateHead
  <2> QED
    BY <2>1, <2>2, <2>3
<1>2. ASSUME NEW l \in Lanes, NEW h \in Heads, RegisterLane(l, h)
      PROVE  DispatchRow(k)'
  BY <1>1, <1>2, <1>u DEF RegisterLane
<1>3. ASSUME NEW at \in Nat, Recover(at)
      PROVE  DispatchRow(k)'
  <2>1. CASE Abandoned(k, at)
    BY <1>3, <2>1, SweptRow DEF Recover, Abandoned
  <2>2. CASE ~Abandoned(k, at) /\ Overdue(k, at)
    BY <1>3, <2>2, SweptRow DEF Recover, Overdue
  <2>3. CASE ~Abandoned(k, at) /\ ~Overdue(k, at)
    BY <1>3, <2>3, <1>u DEF Recover
  <2> QED
    BY <2>1, <2>2, <2>3
<1>4. ASSUME NEW l \in Lanes, NEW d \in Delegations, NEW h \in Heads, NEW i \in Keys,
             NEW term \in Nat, NEW at \in Nat, ClaimReady(l, d, h, i, term, at)
      PROVE  DispatchRow(k)'
  <2>1. CASE i = k
    <3>1. claim'[k].status = "CLAIMED" /\ ~claim'[k].released
      BY <1>4, <2>1, GrantEffect
    <3>2. outbox'[k] = [state |-> "PENDING", attempt |-> 0, run |-> NONE,
                        token |-> NextToken(l)]
      BY <1>4, <2>1 DEF ClaimReady
    <3> QED
      BY <3>1, <3>2 DEF DispatchRow, Claimed, Live, Validating
  <2>2. CASE i # k
    BY <1>4, <2>2, <1>u, GrantEffect
  <2> QED
    BY <2>1, <2>2
<1>5. ASSUME NEW i \in Keys, NEW r \in Runs, MarkDispatched(i, r)
      PROVE  DispatchRow(k)'
  <2>1. CASE i = k
    <3>1. /\ Live(k) /\ claim' = claim
          /\ outbox'[k].state = "DISPATCHED" /\ outbox'[k].run = r
      BY <1>5, <2>1, <1>t DEF MarkDispatched, Acknowledged, OutboxRow
    <3> QED
      BY <3>1, <1>n DEF DispatchRow, Claimed, Live, Validating
  <2>2. CASE i # k
    BY <1>5, <2>2, <1>u DEF MarkDispatched
  <2> QED
    BY <2>1, <2>2
<1>6. ASSUME NEW i \in Keys, NEW f \in FailureIds, NEW b \in Budgets, DispatchFailed(i, f, b)
      PROVE  DispatchRow(k)'
  <2>1. CASE i = k
    <3>1. /\ outbox[k].run = NONE /\ outbox[k].state \in {"PENDING", "RETRY_WAIT"}
          /\ claim' = claim
      BY <1>6, <2>1 DEF DispatchFailed, Retryable
    <3>2. outbox'[k].state \in {"CIRCUIT_OPEN", "RETRY_WAIT"} /\ outbox'[k].run = outbox[k].run
      BY <1>6, <2>1, <1>t DEF DispatchFailed, OutboxRow
    <3>3. Live(k)
      BY <3>1 DEF DispatchRow, Stopped, NoDispatch, Claimed, Live
    <3> QED
      BY <3>1, <3>2, <3>3 DEF DispatchRow, Claimed, Live, Validating
  <2>2. CASE i # k
    BY <1>6, <2>2, <1>u DEF DispatchFailed
  <2> QED
    BY <2>1, <2>2
<1>7. ASSUME NEW i \in Keys, NEW t \in Issued, NEW at \in Nat, Heartbeat(i, t, at)
      PROVE  DispatchRow(k)'
  <2>1. CASE i = k
    <3>1. Live(k) /\ outbox' = outbox /\ claim'[k].status = "RUNNING" /\ ~claim'[k].released
      BY <1>7, <2>1, <1>t DEF Heartbeat, LiveWorker, Live, ClaimRow
    <3> QED
      BY <3>1 DEF DispatchRow, Claimed, Live, Validating
  <2>2. CASE i # k
    BY <1>7, <2>2, <1>u DEF Heartbeat
  <2> QED
    BY <2>1, <2>2
<1>8. ASSUME NEW i \in Keys, NEW t \in Issued, NEW g \in Digests, NEW term \in Nat,
             NEW at \in Nat, AwaitEvaluation(i, t, g, term, at)
      PROVE  DispatchRow(k)'
  <2>1. CASE i = k
    <3>1. /\ claim'[k].status = "VALIDATING" /\ claim'[k].released
          /\ claim'[k].handoff.worker = outbox[k].run
      BY <1>8, <2>1, <1>t DEF AwaitEvaluation, ClaimRow
    <3>2. outbox'[k].state = "VALIDATING" /\ outbox'[k].run = outbox[k].run
      BY <1>8, <2>1, <1>t DEF AwaitEvaluation, OutboxRow
    <3> QED
      BY <3>1, <3>2 DEF DispatchRow, Stopped, Claimed, Live, Validating
  <2>2. CASE i # k
    BY <1>8, <2>2, <1>u DEF AwaitEvaluation
  <2> QED
    BY <2>1, <2>2
<1>9. ASSUME NEW i \in Keys, NEW t \in Issued, NEW v \in VerdictIds, NEW x \in Verdicts,
             NEW g \in Digests, NEW e \in Evaluators, NEW at \in Nat,
             EvaluatorVerdict(i, t, v, x, g, e, at)
      PROVE  DispatchRow(k)'
  <2>1. CASE i = k
    <3>1. Outcome(x) \in {"COMPLETED", "BLOCKED"}
      BY DEF Outcome
    <3>2. claim'[k].status = Outcome(x) /\ claim'[k].released
      BY <1>9, <2>1, <1>t DEF EvaluatorVerdict, VerdictAdmissible, Validating, ClaimRow
    <3>3. outbox'[k].state = Outcome(x)
      BY <1>9, <2>1, <1>t DEF EvaluatorVerdict, OutboxRow
    <3> QED
      BY <3>1, <3>2, <3>3 DEF DispatchRow, Stopped, Claimed, Live, Validating
  <2>2. CASE i # k
    BY <1>9, <2>2, <1>u DEF EvaluatorVerdict
  <2> QED
    BY <2>1, <2>2
<1>10. ASSUME NEW i \in Keys, NEW t \in Issued, NEW s \in Decided, NEW at \in Nat,
              Terminal(i, t, s, at)
       PROVE  DispatchRow(k)'
  <2>1. CASE i = k
    <3>1. /\ Live(k) /\ claim'[k].status = s /\ claim'[k].released /\ s # "VALIDATING"
          /\ s # "ABSENT"
      BY <1>10, <2>1, <1>t DEF Terminal, MayTerminalize, LiveWorker, ClaimRow, Decided
    <3>2. CASE s = "STALE"
      <4>1. outbox'[k] = ReleasedDispatch(outbox[k])
        BY <1>10, <2>1, <3>2 DEF Terminal
      <4> QED
        BY <3>1, <4>1, <1>t, ReleasedDispatchStops
           DEF DispatchRow, Stopped, Claimed, Live, Validating
    <3>3. CASE s # "STALE"
      <4>1. outbox'[k].state \notin {"PENDING", "RETRY_WAIT"}
        BY <1>10, <2>1, <3>3, <1>t DEF Terminal, OutboxRow
      <4> QED
        BY <3>1, <3>3, <4>1 DEF DispatchRow, Stopped, Claimed, Live, Validating
    <3> QED
      BY <3>2, <3>3
  <2>2. CASE i # k
    BY <1>10, <2>2, <1>u DEF Terminal
  <2> QED
    BY <2>1, <2>2
<1>11. ASSUME \/ \E l \in Lanes, d \in Delegations, h \in Heads, j \in BOOLEAN :
                   BindReady(l, d, h, j)
              \/ Tick \/ UNCHANGED vars
       PROVE  DispatchRow(k)'
  BY <1>11, <1>u DEF BindReady, Tick, vars
<1> QED
  BY <1>1, <1>2, <1>3, <1>4, <1>5, <1>6, <1>7, <1>8, <1>9, <1>10, <1>11 DEF AnyStep

LEMMA DispatchInitial == Init => DispatchInv
<1> SUFFICES ASSUME Init, NEW k \in Keys PROVE DispatchRow(k)
  BY AgreementInit DEF DispatchInv
<1>1. claim[k] = NoClaim /\ outbox[k] = NoDispatch
  BY DEF Init
<1> QED
  BY <1>1 DEF DispatchRow, NoClaim, Claimed, Live, Validating

LEMMA DispatchInvariant == Spec => []DispatchInv
<1>1. Init => DispatchInv
  BY DispatchInitial
<1>2. DispatchInv /\ [AnyStep]_vars => DispatchInv'
  BY AgreementStep, DispatchStep DEF DispatchInv
<1> QED
  BY <1>1, <1>2, SpecSteps, PTL DEF Spec

\* Whichever method releases a claim, for any sets of claims swept at once: nothing is
\* dispatched for it any more, and the run of one that went STALE is cancelled.
THEOREM WorkStops == Spec => []ReleasedWorkIsStopped
<1>1. DispatchInv => ReleasedWorkIsStopped
  BY DEF DispatchInv, DispatchRow, Stopped, ReleasedWorkIsStopped
<1> QED
  BY <1>1, DispatchInvariant, PTL

-----------------------------------------------------------------------------
(* Attempts, circuits and verdicts                                         *)

\* What every method but claim_ready, mark_dispatched and dispatch_failed leaves of a
\* dispatch: its run and its attempts; and it is not put back to wait for a retry.
Spared(k) ==
  /\ outbox'[k].run = outbox[k].run
  /\ outbox'[k].attempt = outbox[k].attempt
  /\ outbox'[k].state = "RETRY_WAIT" => outbox[k].state = "RETRY_WAIT"

Acknowledging == \E k \in Keys, r \in Runs : MarkDispatched(k, r)
Failing == \E k \in Keys, f \in FailureIds, b \in Budgets : DispatchFailed(k, f, b)

LEMMA DispatchesSpared ==
  ASSUME TypeOK, [AnyStep]_vars, ~Granting, ~Acknowledging, ~Failing
  PROVE  UNCHANGED <<circuits, failures>> /\ \A k \in Keys : Spared(k)
<1> DEFINE Kept == UNCHANGED <<circuits, failures>> /\ \A k \in Keys : Spared(k)
<1>t. outbox \in [Keys -> OutboxRow]
  BY DEF TypeOK
<1>m. ASSUME UNCHANGED <<circuits, failures>>,
             \A k \in Keys : \/ outbox'[k] \in {outbox[k], ReleasedDispatch(outbox[k])}
                             \/ \E s \in {"VALIDATING", "CANCELLED", "COMPLETED", "BLOCKED"} :
                                  outbox'[k] = [outbox[k] EXCEPT !.state = s]
      PROVE  Kept
  <2> SUFFICES ASSUME NEW k \in Keys PROVE Spared(k)
    BY <1>m
  <2>1. CASE outbox'[k] = outbox[k]
    BY <2>1 DEF Spared
  <2>2. CASE outbox'[k] = ReleasedDispatch(outbox[k])
    BY <2>2, <1>t DEF Spared, ReleasedDispatch, OutboxRow
  <2>3. CASE \E s \in {"VALIDATING", "CANCELLED", "COMPLETED", "BLOCKED"} :
               outbox'[k] = [outbox[k] EXCEPT !.state = s]
    BY <2>3, <1>t DEF Spared, OutboxRow
  <2> QED
    BY <1>m, <2>1, <2>2, <2>3
<1>1. ASSUME NEW l \in Lanes, NEW h \in Heads, InvalidateHead(l, h)
      PROVE  Kept
  BY <1>1, <1>m DEF InvalidateHead
<1>2. ASSUME NEW l \in Lanes, NEW h \in Heads, RegisterLane(l, h)
      PROVE  Kept
  BY <1>1, <1>2, <1>m DEF RegisterLane
<1>3. ASSUME NEW at \in Nat, Recover(at)
      PROVE  Kept
  BY <1>3, <1>m DEF Recover
<1>4. ASSUME NEW k \in Keys, NEW t \in Issued, NEW g \in Digests, NEW term \in Nat,
             NEW at \in Nat, AwaitEvaluation(k, t, g, term, at)
      PROVE  Kept
  <2>1. outbox' = [outbox EXCEPT ![k] = [outbox[k] EXCEPT !.state = "VALIDATING"]]
        /\ UNCHANGED <<circuits, failures>>
    BY <1>4 DEF AwaitEvaluation
  <2> QED
    BY <2>1, <1>t, <1>m
<1>5. ASSUME NEW k \in Keys, NEW t \in Issued, NEW v \in VerdictIds, NEW x \in Verdicts,
             NEW g \in Digests, NEW e \in Evaluators, NEW at \in Nat,
             EvaluatorVerdict(k, t, v, x, g, e, at)
      PROVE  Kept
  <2>1. outbox' = [outbox EXCEPT ![k] = [outbox[k] EXCEPT !.state = Outcome(x)]]
        /\ UNCHANGED <<circuits, failures>>
    BY <1>5 DEF EvaluatorVerdict
  <2>2. Outcome(x) \in {"COMPLETED", "BLOCKED"}
    BY DEF Outcome
  <2> QED
    BY <2>1, <2>2, <1>t, <1>m
<1>6. ASSUME NEW k \in Keys, NEW t \in Issued, NEW s \in Decided, NEW at \in Nat,
             Terminal(k, t, s, at)
      PROVE  Kept
  <2>1. \A i \in Keys : \/ outbox'[i] \in {outbox[i], ReleasedDispatch(outbox[i])}
                        \/ outbox'[i] = [outbox[i] EXCEPT !.state = "CANCELLED"]
    BY <1>6, <1>t DEF Terminal
  <2>2. UNCHANGED <<circuits, failures>>
    BY <1>6 DEF Terminal
  <2> QED
    BY <2>1, <2>2, <1>m
<1>7. ASSUME \/ \E l \in Lanes, d \in Delegations, h \in Heads, j \in BOOLEAN :
                  BindReady(l, d, h, j)
             \/ \E k \in Keys, t \in Issued, at \in Nat : Heartbeat(k, t, at)
             \/ Tick \/ UNCHANGED vars
      PROVE  Kept
  BY <1>7, <1>m DEF BindReady, Heartbeat, Tick, vars
<1> QED
  BY <1>1, <1>2, <1>3, <1>4, <1>5, <1>6, <1>7 DEF AnyStep, Granting, Acknowledging, Failing

\* The failures that were counted against a dispatch.
FailuresOf(k) == {f \in FailureIds : failures[f].dispatch = k}

\* RetryAccounting counts them, so they are finitely many.
RetryRow(k) ==
  /\ IsFiniteSet(FailuresOf(k))
  /\ outbox[k].attempt
       = Cardinality(FailuresOf(k)) + (IF outbox[k].run = NONE THEN 0 ELSE 1)
  /\ k \in circuits <=> \E f \in FailuresOf(k) : failures[f].opened
  /\ outbox[k].state = "RETRY_WAIT" => outbox[k].attempt < 3

RetryInv == DispatchInv /\ \A k \in Keys : RetryRow(k)

LEMMA RetryStep ==
  ASSUME RetryInv, [AnyStep]_vars, NEW k \in Keys
  PROVE  RetryRow(k)'
<1> USE DEF RetryInv, DispatchInv, AgreementInv, ExclusionInv, TypeOK
<1>t. /\ outbox[k] \in OutboxRow
      /\ NONE \notin Runs /\ NONE \notin Keys
      /\ \A b \in Budgets : b \in 1 .. 3
  BY ConstantsAssumption
<1>u. ASSUME UNCHANGED <<circuits, failures>>, Spared(k)
      PROVE  RetryRow(k)'
  <2>1. FailuresOf(k)' = FailuresOf(k)
    BY <1>u DEF FailuresOf
  <2> QED
    BY <1>u, <2>1 DEF Spared, RetryRow
<1>1. CASE Granting
  <2>1. PICK l \in Lanes, d \in Delegations, h \in Heads, i \in Keys, term \in Nat,
             at \in Nat : ClaimReady(l, d, h, i, term, at)
    BY <1>1 DEF Granting
  <2>2. UNCHANGED <<circuits, failures>>
    BY <2>1 DEF ClaimReady
  <2>3. CASE i = k
    <3>1. outbox[k] = NoDispatch
      BY <2>1, <2>3 DEF ClaimReady, DispatchRow, Claimed
    <3>2. outbox'[k] = [state |-> "PENDING", attempt |-> 0, run |-> NONE,
                        token |-> NextToken(l)]
      BY <2>1, <2>3 DEF ClaimReady
    <3> QED
      BY <2>2, <3>1, <3>2, <1>u DEF Spared, NoDispatch
  <2>4. CASE i # k
    BY <2>1, <2>2, <2>4, <1>u, GrantEffect DEF Spared
  <2> QED
    BY <2>3, <2>4
<1>2. CASE Acknowledging
  <2>1. PICK i \in Keys, r \in Runs : MarkDispatched(i, r)
    BY <1>2 DEF Acknowledging
  <2>2. FailuresOf(k)' = FailuresOf(k) /\ UNCHANGED <<circuits, failures>>
    BY <2>1 DEF MarkDispatched, FailuresOf
  <2>3. CASE i = k
    <3>1. /\ outbox[k].run = NONE /\ outbox'[k].run = r /\ outbox'[k].state = "DISPATCHED"
          /\ outbox'[k].attempt = outbox[k].attempt + 1
      BY <2>1, <2>3, <1>t DEF MarkDispatched, Acknowledged, OutboxRow
    <3>2. Cardinality(FailuresOf(k)) \in Nat
      BY FS_CardinalityType DEF RetryRow
    <3> QED
      BY <2>2, <3>1, <3>2, <1>t DEF RetryRow
  <2>4. CASE i # k
    BY <2>1, <2>2, <2>4, <1>u DEF MarkDispatched, Spared
  <2> QED
    BY <2>3, <2>4
<1>3. CASE Failing
  <2>1. PICK i \in Keys, f \in FailureIds, b \in Budgets : DispatchFailed(i, f, b)
    BY <1>3 DEF Failing
  <2>2. /\ failures[f].dispatch = NONE
        /\ failures' = [failures EXCEPT ![f] =
             [dispatch |-> i, attempt |-> outbox[i].attempt + 1,
              opened |-> outbox[i].attempt + 1 >= b]]
        /\ circuits' = IF outbox[i].attempt + 1 >= b THEN circuits \cup {i} ELSE circuits
    BY <2>1 DEF DispatchFailed, Retryable
  <2>3. /\ failures'[f].dispatch = i /\ failures'[f].opened = (outbox[i].attempt + 1 >= b)
        /\ \A g \in FailureIds \ {f} : failures'[g] = failures[g]
    BY <2>2
  <2>4. CASE i = k
    <3>1. /\ outbox[k].run = NONE /\ outbox'[k].run = NONE
          /\ outbox'[k].attempt = outbox[k].attempt + 1
          /\ outbox'[k].state = "RETRY_WAIT" => outbox[k].attempt + 1 < b
      BY <2>1, <2>4, <1>t DEF DispatchFailed, Retryable, OutboxRow
    <3>2. f \notin FailuresOf(k) /\ FailuresOf(k)' = FailuresOf(k) \cup {f}
      BY <2>2, <2>3, <2>4, <1>t DEF FailuresOf
    <3>3. /\ IsFiniteSet(FailuresOf(k)') /\ Cardinality(FailuresOf(k)) \in Nat
          /\ Cardinality(FailuresOf(k)') = Cardinality(FailuresOf(k)) + 1
      BY <3>2, FS_AddElement, FS_CardinalityType DEF RetryRow
    <3>4. k \in circuits' <=> \E g \in FailuresOf(k)' : failures'[g].opened
      <4>1. \A g \in FailuresOf(k) : failures'[g] = failures[g]
        BY <2>3, <3>2 DEF FailuresOf
      <4>2. (\E g \in FailuresOf(k)' : failures'[g].opened)
              <=> (outbox[k].attempt + 1 >= b \/ \E g \in FailuresOf(k) : failures[g].opened)
        BY <2>3, <2>4, <3>2, <4>1
      <4>3. k \in circuits' <=> (outbox[k].attempt + 1 >= b \/ k \in circuits)
        BY <2>2, <2>4
      <4> QED
        BY <4>2, <4>3 DEF RetryRow
    <3>5. outbox[k].attempt + 1 < b => outbox[k].attempt + 1 < 3
      BY <1>t DEF OutboxRow
    <3> QED
      BY <3>1, <3>3, <3>4, <3>5 DEF RetryRow
  <2>5. CASE i # k
    <3>1. FailuresOf(k)' = FailuresOf(k) /\ \A g \in FailuresOf(k) : failures'[g] = failures[g]
      BY <2>2, <2>3, <2>5, <1>t DEF FailuresOf
    <3>2. k \in circuits' <=> k \in circuits
      BY <2>2, <2>5
    <3>3. outbox'[k] = outbox[k]
      BY <2>1, <2>5 DEF DispatchFailed
    <3> QED
      BY <3>1, <3>2, <3>3 DEF RetryRow
  <2> QED
    BY <2>4, <2>5
<1>4. CASE ~Granting /\ ~Acknowledging /\ ~Failing
  BY <1>4, <1>u, DispatchesSpared
<1> QED
  BY <1>1, <1>2, <1>3, <1>4

\* A failure callback, delivered however often and late and to however many dispatches,
\* spends one attempt of its dispatch; a circuit is open exactly when one of them opened it.
THEOREM RetriesCount == Spec => []RetryAccounting
<1>1. Init => RetryInv
  <2> SUFFICES ASSUME Init, NEW k \in Keys PROVE RetryRow(k)
    BY DispatchInitial DEF RetryInv
  <2>1. outbox[k] = NoDispatch /\ circuits = {} /\ FailuresOf(k) = {}
    BY ConstantsAssumption DEF Init, FailuresOf
  <2> QED
    BY <2>1, FS_EmptySet DEF RetryRow, NoDispatch
<1>2. RetryInv /\ [AnyStep]_vars => RetryInv'
  BY RetryStep, AgreementStep, DispatchStep DEF RetryInv, DispatchInv
<1>3. RetryInv => RetryAccounting
  BY DEF RetryInv, RetryRow, FailuresOf, RetryAccounting
<1> QED
  BY <1>1, <1>2, <1>3, SpecSteps, PTL DEF Spec

\* A verdict that was recorded stays.
LEMMA VerdictsStay ==
  ASSUME TypeOK, [AnyStep]_vars, NEW v \in VerdictIds, verdicts[v].claim # NONE
  PROVE  verdicts'[v] = verdicts[v]
<1>1. ASSUME NEW k \in Keys, NEW t \in Issued, NEW u \in VerdictIds, NEW x \in Verdicts,
             NEW g \in Digests, NEW e \in Evaluators, NEW at \in Nat,
             EvaluatorVerdict(k, t, u, x, g, e, at)
      PROVE  verdicts'[v] = verdicts[v]
  BY <1>1 DEF EvaluatorVerdict
<1>2. CASE UNCHANGED verdicts
  BY <1>2
<1>3. CASE \E l \in Lanes, h \in Heads : RegisterLane(l, h) \/ InvalidateHead(l, h)
  BY <1>2, <1>3 DEF RegisterLane, InvalidateHead
<1>4. CASE \E l \in Lanes, d \in Delegations, h \in Heads, j \in BOOLEAN : BindReady(l, d, h, j)
  BY <1>2, <1>4 DEF BindReady
<1>5. CASE \E l \in Lanes, d \in Delegations, h \in Heads, k \in Keys, term \in Nat,
              at \in Nat : ClaimReady(l, d, h, k, term, at)
  BY <1>2, <1>5 DEF ClaimReady
<1>6. CASE \E k \in Keys, r \in Runs : MarkDispatched(k, r)
  BY <1>2, <1>6 DEF MarkDispatched
<1>7. CASE \E k \in Keys, f \in FailureIds, b \in Budgets : DispatchFailed(k, f, b)
  BY <1>2, <1>7 DEF DispatchFailed
<1>8. CASE \E k \in Keys, t \in Issued, at \in Nat : Heartbeat(k, t, at)
  BY <1>2, <1>8 DEF Heartbeat
<1>9. CASE \E k \in Keys, t \in Issued, g \in Digests, term \in Nat, at \in Nat :
              AwaitEvaluation(k, t, g, term, at)
  BY <1>2, <1>9 DEF AwaitEvaluation
<1>10. CASE \E k \in Keys, t \in Issued, s \in Decided, at \in Nat : Terminal(k, t, s, at)
  BY <1>2, <1>10 DEF Terminal
<1>11. CASE (\E at \in Nat : Recover(at)) \/ Tick \/ UNCHANGED vars
  BY <1>2, <1>11 DEF Recover, Tick, vars
<1> QED
  BY <1>1, <1>3, <1>4, <1>5, <1>6, <1>7, <1>8, <1>9, <1>10, <1>11 DEF AnyStep

\* Whose work completed, on which evidence, is not undone: the verdict stays, the run of
\* the dispatch stays, and so does the need of a verdict.
VerdictInv == BindingInv /\ DispatchInv /\ IndependentVerdict

LEMMA VerdictStep ==
  ASSUME VerdictInv, [AnyStep]_vars
  PROVE  IndependentVerdict'
<1> USE DEF VerdictInv, DispatchInv, AgreementInv, ExclusionInv, TypeOK
<1> SUFFICES ASSUME NEW k \in Keys, claim'[k].status = "COMPLETED",
                    delegation'[claim'[k].delegation].judged
             PROVE  \E v \in VerdictIds : /\ verdicts'[v].claim = k
                                          /\ verdicts'[v].verdict = "PASS"
                                          /\ verdicts'[v].evaluator # outbox'[k].run
  BY DEF IndependentVerdict
<1>1. CASE claim[k].status = "COMPLETED"
  <2>1. claim'[k] = claim[k] /\ Claimed(k) /\ claim[k].released
    BY <1>1, RowsStep DEF KeepsOutcomes, Decided, Claimed, ReleasedIsHandedOver
  <2>2. delegation[claim[k].delegation].judged
    BY <2>1, ClaimedIsBound, BindingsPersist
  <2>3. PICK v \in VerdictIds : /\ verdicts[v].claim = k
                                /\ verdicts[v].verdict = "PASS"
                                /\ verdicts[v].evaluator # outbox[k].run
    BY <1>1, <2>2 DEF IndependentVerdict
  <2>4. verdicts'[v] = verdicts[v]
    BY <2>3, ConstantsAssumption, VerdictsStay
  <2>5. outbox'[k].run = outbox[k].run
    <3>1. CASE Granting
      <4>1. PICK l \in Lanes, d \in Delegations, h \in Heads, i \in Keys, term \in Nat,
                 at \in Nat : ClaimReady(l, d, h, i, term, at)
        BY <3>1 DEF Granting
      <4>2. i # k
        BY <4>1, <2>1 DEF ClaimReady, Claimed
      <4> QED
        BY <4>1, <4>2, GrantEffect
    <3>2. CASE Acknowledging
      BY <3>2, <2>1 DEF Acknowledging, MarkDispatched, Live
    <3>3. CASE Failing
      <4>1. PICK i \in Keys, f \in FailureIds, b \in Budgets : DispatchFailed(i, f, b)
        BY <3>3 DEF Failing
      <4> QED
        BY <4>1 DEF DispatchFailed, OutboxRow
    <3> QED
      BY <3>1, <3>2, <3>3, DispatchesSpared DEF Spared
  <2> QED
    BY <2>3, <2>4, <2>5
<1>2. CASE claim[k].status # "COMPLETED" /\ Passed(k)
  <2>1. PICK t \in Issued, v \in VerdictIds, g \in Digests, e \in Evaluators, at \in Nat :
               EvaluatorVerdict(k, t, v, "PASS", g, e, at)
    BY <1>2 DEF Passed
  <2>2. e # outbox[k].run
    BY <2>1 DEF EvaluatorVerdict, VerdictAdmissible, DispatchRow
  <2>3. verdicts'[v] = [claim |-> k, verdict |-> "PASS", digest |-> g, evaluator |-> e]
    BY <2>1 DEF EvaluatorVerdict
  <2>4. outbox'[k].run = outbox[k].run
    BY <2>1 DEF EvaluatorVerdict, OutboxRow
  <2> QED
    BY <2>2, <2>3, <2>4
<1>3. CASE claim[k].status # "COMPLETED" /\ Reported(k)
  <2>1. PICK t \in Issued, at \in Nat : Terminal(k, t, "COMPLETED", at)
    BY <1>3 DEF Reported
  <2>2. Claimed(k) /\ ~delegation[claim[k].delegation].judged
    BY <2>1 DEF Terminal, MayTerminalize, LiveWorker, Live, Claimed
  <2>3. Persists(k)
    BY <2>2, ClaimsPersist
  <2>4. delegation'[claim[k].delegation].judged = delegation[claim[k].delegation].judged
    BY <2>2, ClaimedIsBound, BindingsPersist
  <2> QED
    BY <2>2, <2>3, <2>4 DEF Persists
<1> QED
  BY <1>1, <1>2, <1>3, CompletionStep

\* Work that needs an independent evaluation is completed only by a passing verdict of
\* somebody other than the run that did it, whatever callbacks and reports come late.
THEOREM VerdictsAreIndependent == Spec => []IndependentVerdict
<1>1. Init => IndependentVerdict
  BY DEF Init, NoClaim, IndependentVerdict
<1>2. BindingInv /\ DispatchInv /\ IndependentVerdict /\ [AnyStep]_vars => IndependentVerdict'
  BY VerdictStep DEF VerdictInv
<1> QED
  BY <1>1, <1>2, BindingInvariant, DispatchInvariant, SpecSteps, PTL DEF Spec

-----------------------------------------------------------------------------
(* The refinement: the invariants above say what a method may find in the  *)
(* tables, from which each method takes one lifecycle step or none.        *)

LEMMA RefinementInit == Init => Lifecycle!Init
<1> SUFFICES ASSUME Init PROVE Lifecycle!Init
  OBVIOUS
<1>1. \A l \in Lanes : Active(l) = {}
  BY DEF Init, Active, Live, NoClaim
<1>2. held = [l \in Lanes |-> {}]
  BY <1>1 DEF held, DelegationsOf
<1> QED
  BY <1>2 DEF Init, Lifecycle!Init, phase, home, judged

\* The live claim of a lane, if any, is alone, and its delegation is on no other lane.
LEMMA HeldIsTheLiveClaim ==
  ASSUME AgreementInv, NEW k \in Keys, Live(k)
  PROVE  /\ claim[k].lane \in Lanes /\ claim[k].delegation \in Delegations
         /\ delegation[claim[k].delegation].state = "CLAIMED"
         /\ Active(claim[k].lane) = {k}
         /\ held[claim[k].lane] = {claim[k].delegation}
         /\ \A l \in Lanes \ {claim[k].lane} : claim[k].delegation \notin held[l]
<1> USE DEF AgreementInv, ExclusionInv
<1>1. Claimed(k) /\ claim[k].lane \in Lanes /\ claim[k].delegation \in Delegations
  BY DEF Live, Claimed, Placed
<1>2. delegation[claim[k].delegation].state = "CLAIMED"
  BY <1>1 DEF Agrees, Live
<1>3. Active(claim[k].lane) = {k}
  BY <1>1 DEF Active, LaneExclusion, Live, Claimed
<1>4. held[claim[k].lane] = {claim[k].delegation}
  BY <1>1, <1>3 DEF held, DelegationsOf
<1>5. \A l \in Lanes \ {claim[k].lane} : claim[k].delegation \notin held[l]
  BY <1>1 DEF held, DelegationsOf, Active, Live, OneClaimEach, Claimed
<1> QED
  BY <1>1, <1>2, <1>3, <1>4, <1>5

\* Claims that keep their place and stay live or not leave what is held alone.
LEMMA HeldUnchanged ==
  ASSUME \A k \in Keys : /\ claim'[k].lane = claim[k].lane
                         /\ claim'[k].delegation = claim[k].delegation
                         /\ Live(k)' <=> Live(k)
  PROVE  held' = held
<1>1. \A l \in Lanes : DelegationsOf(Active(l))' = DelegationsOf(Active(l))
  BY DEF Active, DelegationsOf
<1> QED
  BY <1>1 DEF held

\* When one live claim is released its lane holds nothing and the others what they held.
LEMMA HeldAfterRelease ==
  ASSUME AgreementInv, NEW k \in Keys, Live(k), claim'[k].released,
         \A i \in Keys \ {k} : claim'[i] = claim[i]
  PROVE  /\ held' = [held EXCEPT ![claim[k].lane] = {}]
         /\ held' = [l \in Lanes |-> held[l] \ {claim[k].delegation}]
<1>0. PICK m \in Lanes : m = claim[k].lane
  BY HeldIsTheLiveClaim
<1>1. Active(m) = {k} /\ held[m] = {claim[k].delegation}
      /\ \A l \in Lanes \ {m} : claim[k].delegation \notin held[l]
  BY <1>0, HeldIsTheLiveClaim
<1>2. Active(m)' = {}
  BY <1>1 DEF Active, Live
<1>3. \A l \in Lanes \ {m} : Active(l)' = Active(l)
  BY <1>0 DEF Active, Live
<1>4. held'[m] = {}
  BY <1>2 DEF held, DelegationsOf
<1>5. ASSUME NEW l \in Lanes \ {m}
      PROVE  held'[l] = held[l]
  <2>1. \A i \in Active(l) : i \in Keys \ {k}
    BY <1>0 DEF Active
  <2>2. DelegationsOf(Active(l))' = DelegationsOf(Active(l))
    BY <1>3, <2>1 DEF DelegationsOf
  <2> QED
    BY <2>2 DEF held
<1>6. held' = [l \in Lanes |-> held'[l]] /\ held = [l \in Lanes |-> held[l]]
  BY DEF held
<1>7. held' = [held EXCEPT ![m] = {}]
  BY <1>4, <1>5, <1>6
<1>8. held' = [l \in Lanes |-> held[l] \ {claim[k].delegation}]
  BY <1>1, <1>4, <1>5, <1>6
<1> QED
  BY <1>0, <1>7, <1>8

\* The rows of delegations that one sweep over claims T makes STALE are withdrawn at once.
LEMMA SweepWithdraws ==
  ASSUME AgreementInv, TypeOK',
         NEW T \in SUBSET {k \in Keys : Live(k) \/ Validating(k)},
         claim' = [k \in Keys |-> IF k \in T THEN Stale(claim[k]) ELSE claim[k]],
         NEW R \in SUBSET {d \in Delegations : delegation[d].state = "READY"},
         delegation' = [d \in Delegations |->
           IF d \in DelegationsOf(T) \cup R THEN [delegation[d] EXCEPT !.state = "STALE"]
           ELSE delegation[d]]
  PROVE  \E D \in SUBSET Lifecycle!Undecided : Lifecycle!Withdraw(D)
<1> DEFINE D == DelegationsOf(T) \cup R
<1> USE DEF AgreementInv, ExclusionInv
<1>1. \A k \in T : Claimed(k) /\ claim[k].delegation \in Delegations /\ Agrees(k)
  BY DEF Live, Validating, Claimed, Placed
<1>2. D \in SUBSET Lifecycle!Undecided
  <2>1. \A k \in T : delegation[claim[k].delegation].state \in {"CLAIMED", "VALIDATING"}
    BY <1>1 DEF Agrees, Live, Validating
  <2> QED
    BY <1>1, <2>1 DEF DelegationsOf, Lifecycle!Undecided, phase
<1>3. phase' = [d \in Delegations |-> IF d \in D THEN "STALE" ELSE phase[d]]
  <2>1. \A d \in Delegations : [delegation[d] EXCEPT !.state = "STALE"].state = "STALE"
    BY DEF TypeOK, DelegationRow
  <2> QED
    BY <2>1 DEF phase
<1>4. UNCHANGED <<home, judged>>
  <2>1. \A d \in Delegations : /\ delegation'[d].lane = delegation[d].lane
                               /\ delegation'[d].judged = delegation[d].judged
    BY DEF TypeOK, DelegationRow
  <2> QED
    BY <2>1 DEF home, judged
<1>5. ASSUME NEW l \in Lanes
      PROVE  held'[l] = held[l] \ D
  <2>1. Active(l)' = Active(l) \ T
    BY StaleKeeps DEF Active, Live, TypeOK
  <2>2. \A k \in Active(l) : claim[k].delegation \in D <=> k \in T
    <3> TAKE k \in Active(l)
    <3>1. k \in Keys /\ Claimed(k) /\ delegation[claim[k].delegation].state = "CLAIMED"
      BY DEF Active, Live, Claimed, Agrees
    <3>2. claim[k].delegation \notin R
      BY <3>1
    <3>3. claim[k].delegation \in DelegationsOf(T) => k \in T
      BY <1>1, <3>1 DEF DelegationsOf, OneClaimEach
    <3> QED
      BY <3>2, <3>3 DEF DelegationsOf
  <2>3. DelegationsOf(Active(l))' = DelegationsOf(Active(l)) \ D
    <3>1. \A k \in Keys : claim'[k].delegation = claim[k].delegation
      BY StaleKeeps DEF TypeOK
    <3>2. DelegationsOf(Active(l))' = {claim[k].delegation : k \in Active(l) \ T}
      BY <2>1, <3>1 DEF DelegationsOf, Active
    <3> HIDE DEF D
    <3> QED
      BY <2>2, <3>2 DEF DelegationsOf
  <2> QED
    BY <2>3 DEF held
<1>6. held' = [l \in Lanes |-> held[l] \ D]
  BY <1>5 DEF held
<1> HIDE DEF D
<1>7. Lifecycle!Withdraw(D)
  BY <1>3, <1>4, <1>6 DEF Lifecycle!Withdraw
<1> QED
  BY <1>2, <1>7

\* Each method takes one step of the lifecycle or leaves it where it is.
LEMMA RefinementStep ==
  ASSUME AgreementInv, TypeOK', [AnyStep]_vars
  PROVE  Lifecycle!Next \/ UNCHANGED Lifecycle!lifecycle
<1> DEFINE Step == Lifecycle!Next \/ UNCHANGED Lifecycle!lifecycle
<1> USE DEF AgreementInv, ExclusionInv
<1>s. ASSUME UNCHANGED delegation, UNCHANGED held
      PROVE  Step
  BY <1>s DEF Lifecycle!lifecycle, phase, home, judged
<1>w. ASSUME \E D \in SUBSET Lifecycle!Undecided : Lifecycle!Withdraw(D)
      PROVE  Step
  BY <1>w DEF Lifecycle!Next
<1>1. ASSUME NEW l \in Lanes, NEW h \in Heads, InvalidateHead(l, h)
      PROVE  Step
  <2> DEFINE V == {k \in Keys : claim[k].lane = l /\ Validating(k)}
             T == Active(l) \cup V
             R == {d \in Delegations : delegation[d].lane = l /\ delegation[d].state = "READY"}
  <2>1. T \in SUBSET {k \in Keys : Live(k) \/ Validating(k)}
    BY DEF Active
  <2>2. claim' = [k \in Keys |-> IF k \in T THEN Stale(claim[k]) ELSE claim[k]]
    BY <1>1 DEF InvalidateHead
  <2>3. R \in SUBSET {d \in Delegations : delegation[d].state = "READY"}
    OBVIOUS
  <2>4. \A d \in DelegationsOf(V) : delegation[d].state = "VALIDATING"
    BY DEF DelegationsOf, Validating, Agrees, Claimed
  <2>5. DelegationsOf(T) = DelegationsOf(Active(l)) \cup DelegationsOf(V)
    BY DEF DelegationsOf
  <2>6. \A d \in Delegations : d \in DelegationsOf(T) \cup R <=>
          \/ d \in DelegationsOf(Active(l))
          \/ d \in DelegationsOf(V) /\ delegation[d].state = "VALIDATING"
          \/ delegation[d].lane = l /\ delegation[d].state = "READY"
    BY <2>4, <2>5
  <2>7. delegation' = [d \in Delegations |->
          IF \/ d \in DelegationsOf(Active(l))
             \/ d \in DelegationsOf(V) /\ delegation[d].state = "VALIDATING"
             \/ delegation[d].lane = l /\ delegation[d].state = "READY"
          THEN [delegation[d] EXCEPT !.state = "STALE"] ELSE delegation[d]]
    BY <1>1 DEF InvalidateHead
  <2> HIDE DEF T, R
  <2>8. delegation' = [d \in Delegations |->
          IF d \in DelegationsOf(T) \cup R THEN [delegation[d] EXCEPT !.state = "STALE"]
          ELSE delegation[d]]
    BY <2>6, <2>7
  <2> QED
    BY <2>1, <2>2, <2>3, <2>8, SweepWithdraws, <1>w
<1>2. ASSUME NEW l \in Lanes, NEW h \in Heads, RegisterLane(l, h)
      PROVE  Step
  <2>1. CASE InvalidateHead(l, h)
    BY <1>1, <2>1
  <2>2. CASE ~InvalidateHead(l, h)
    <3>1. UNCHANGED <<delegation, claim>>
      BY <1>2, <2>2 DEF RegisterLane
    <3> QED
      BY <3>1, HeldUnchanged, <1>s DEF Live
  <2> QED
    BY <2>1, <2>2
<1>3. ASSUME NEW l \in Lanes, NEW d \in Delegations, NEW h \in Heads, NEW j \in BOOLEAN,
             BindReady(l, d, h, j)
      PROVE  Step
  <2>1. UNCHANGED held
    <3>1. UNCHANGED claim
      BY <1>3 DEF BindReady
    <3> QED
      BY <3>1, HeldUnchanged DEF Live
  <2>2. held[l] = {}
    BY <1>3 DEF BindReady, held, DelegationsOf
  <2>3. \A e \in Delegations : home[e] = l => phase[e] # "VALIDATING"
    BY <1>3 DEF BindReady, home, phase
  <2>4. delegation' = [delegation EXCEPT ![d] =
          [state |-> "READY", lane |-> l, head |-> h, judged |-> j]]
        /\ phase[d] = "ABSENT"
    BY <1>3 DEF BindReady, phase
  <2>5. /\ phase' = [phase EXCEPT ![d] = "READY"]
        /\ home' = [home EXCEPT ![d] = l]
        /\ judged' = [judged EXCEPT ![d] = j]
    BY <2>4 DEF phase, home, judged, TypeOK
  <2>6. Lifecycle!Offer(l, d, j)
    BY <2>1, <2>2, <2>3, <2>4, <2>5 DEF Lifecycle!Offer
  <2> QED
    BY <2>6 DEF Lifecycle!Next
<1>4. ASSUME NEW l \in Lanes, NEW d \in Delegations, NEW h \in Heads, NEW k \in Keys,
             NEW term \in Nat, NEW at \in Nat, ClaimReady(l, d, h, k, term, at)
      PROVE  Step
  <2>1. /\ ~Claimed(k) /\ Active(l) = {}
        /\ delegation[d].state = "READY" /\ delegation[d].lane = l
        /\ claim'[k].status = "CLAIMED" /\ ~claim'[k].released
        /\ claim'[k].lane = l /\ claim'[k].delegation = d
        /\ \A i \in Keys \ {k} : claim'[i] = claim[i]
        /\ delegation' = [delegation EXCEPT ![d].state = "CLAIMED"]
    BY <1>4, GrantEffect
  <2>2. Active(l)' = {k} /\ \A m \in Lanes \ {l} : Active(m)' = Active(m)
    BY <2>1 DEF Active, Live, Claimed
  <2>3. DelegationsOf(Active(l))' = {d}
    BY <2>1, <2>2 DEF DelegationsOf
  <2>4. ASSUME NEW m \in Lanes \ {l}
        PROVE  DelegationsOf(Active(m))' = DelegationsOf(Active(m))
    <3>1. \A i \in Active(m) : i \in Keys \ {k}
      BY <2>1 DEF Active, Live, Claimed
    <3> QED
      BY <2>1, <2>2, <3>1 DEF DelegationsOf
  <2>5. held' = [held EXCEPT ![l] = {d}]
    BY <2>3, <2>4 DEF held
  <2>6. /\ phase' = [phase EXCEPT ![d] = "CLAIMED"]
        /\ UNCHANGED <<home, judged>>
    BY <2>1 DEF phase, home, judged, TypeOK, DelegationRow
  <2>7. Lifecycle!Grant(l, d)
    BY <2>1, <2>5, <2>6 DEF Lifecycle!Grant, held, phase, home, DelegationsOf
  <2> QED
    BY <2>7 DEF Lifecycle!Next
<1>5. ASSUME NEW k \in Keys, NEW r \in Runs, MarkDispatched(k, r)
      PROVE  Step
  <2>1. UNCHANGED <<delegation, claim>>
    BY <1>5 DEF MarkDispatched
  <2> QED
    BY <2>1, HeldUnchanged, <1>s DEF Live
<1>6. ASSUME NEW k \in Keys, NEW f \in FailureIds, NEW b \in Budgets, DispatchFailed(k, f, b)
      PROVE  Step
  <2>1. UNCHANGED <<delegation, claim>>
    BY <1>6 DEF DispatchFailed
  <2> QED
    BY <2>1, HeldUnchanged, <1>s DEF Live
<1>7. ASSUME NEW k \in Keys, NEW t \in Issued, NEW at \in Nat, Heartbeat(k, t, at)
      PROVE  Step
  <2>1. UNCHANGED delegation /\ Live(k)
        /\ claim' = [[claim EXCEPT ![k].heartbeat = at] EXCEPT ![k].status = "RUNNING"]
    BY <1>7 DEF Heartbeat, LiveWorker
  <2>2. \A i \in Keys : /\ claim'[i].lane = claim[i].lane
                        /\ claim'[i].delegation = claim[i].delegation
                        /\ Live(i)' <=> Live(i)
    BY <2>1 DEF Live, TypeOK, ClaimRow
  <2> QED
    BY <2>1, <2>2, HeldUnchanged, <1>s
<1>x. ASSUME NEW k \in Keys, Live(k), claim'[k].released,
             \A i \in Keys \ {k} : claim'[i] = claim[i],
             NEW o \in {"COMPLETED", "BLOCKED", "VALIDATING"},
             o = "COMPLETED" => ~delegation[claim[k].delegation].judged,
             delegation' = [delegation EXCEPT ![claim[k].delegation].state = o]
      PROVE  Step
  <2>1. /\ claim[k].lane \in Lanes /\ claim[k].delegation \in Delegations
        /\ claim[k].delegation \in held[claim[k].lane]
    BY <1>x, HeldIsTheLiveClaim
  <2>2. held' = [held EXCEPT ![claim[k].lane] = {}]
    BY <1>x, HeldAfterRelease
  <2>3. /\ phase' = [phase EXCEPT ![claim[k].delegation] = o]
        /\ UNCHANGED <<home, judged>>
    BY <1>x, <2>1 DEF phase, home, judged, TypeOK, DelegationRow
  <2>4. Lifecycle!Settle(claim[k].lane, claim[k].delegation, o)
    BY <1>x, <2>1, <2>2, <2>3 DEF Lifecycle!Settle, judged
  <2> QED
    BY <2>1, <2>4 DEF Lifecycle!Next
<1>8. ASSUME NEW k \in Keys, NEW t \in Issued, NEW g \in Digests, NEW term \in Nat,
             NEW at \in Nat, AwaitEvaluation(k, t, g, term, at)
      PROVE  Step
  <2>1. /\ Live(k)
        /\ claim'[k].released
        /\ \A i \in Keys \ {k} : claim'[i] = claim[i]
        /\ delegation' = [delegation EXCEPT ![claim[k].delegation].state = "VALIDATING"]
    BY <1>8 DEF AwaitEvaluation, LiveWorker, TypeOK, ClaimRow
  <2> QED
    BY <2>1, <1>x
<1>9. ASSUME NEW k \in Keys, NEW t \in Issued, NEW v \in VerdictIds, NEW x \in Verdicts,
             NEW g \in Digests, NEW e \in Evaluators, NEW at \in Nat,
             EvaluatorVerdict(k, t, v, x, g, e, at)
      PROVE  Step
  <2>1. /\ Validating(k)
        /\ claim' = [[claim EXCEPT ![k].status = Outcome(x)] EXCEPT ![k].handoff = NoHandoff]
        /\ delegation' = [delegation EXCEPT ![claim[k].delegation].state = Outcome(x)]
        /\ delegation[claim[k].delegation].state = "VALIDATING"
    BY <1>9 DEF EvaluatorVerdict, VerdictAdmissible
  <2>2. claim[k].delegation \in Delegations /\ Outcome(x) \in {"COMPLETED", "BLOCKED"}
    BY <2>1 DEF Validating, Placed, Claimed, Outcome
  <2>3. \A i \in Keys : /\ claim'[i].lane = claim[i].lane
                        /\ claim'[i].delegation = claim[i].delegation
                        /\ Live(i)' <=> Live(i)
    BY <2>1, <2>2 DEF Live, Validating, TypeOK, ClaimRow
  <2>4. UNCHANGED held
    BY <2>3, HeldUnchanged
  <2>5. /\ phase' = [phase EXCEPT ![claim[k].delegation] = Outcome(x)]
        /\ UNCHANGED <<home, judged>>
    BY <2>1, <2>2 DEF phase, home, judged, TypeOK, DelegationRow
  <2>6. Lifecycle!Judge(claim[k].delegation, Outcome(x))
    BY <2>1, <2>2, <2>4, <2>5 DEF Lifecycle!Judge, phase
  <2> QED
    BY <2>2, <2>6 DEF Lifecycle!Next
<1>10. ASSUME NEW k \in Keys, NEW t \in Issued, NEW s \in Decided, NEW at \in Nat,
              Terminal(k, t, s, at)
       PROVE  Step
  <2>1. /\ Live(k)
        /\ claim'[k].released
        /\ \A i \in Keys \ {k} : claim'[i] = claim[i]
        /\ delegation' = [delegation EXCEPT ![claim[k].delegation].state = s]
        /\ s = "COMPLETED" => ~delegation[claim[k].delegation].judged
    BY <1>10 DEF Terminal, MayTerminalize, LiveWorker, TypeOK, ClaimRow
  <2>2. CASE s # "STALE"
    BY <2>1, <2>2, <1>x DEF Decided
  <2>3. CASE s = "STALE"
    <3>1. /\ claim[k].delegation \in Delegations
          /\ delegation[claim[k].delegation].state = "CLAIMED"
      BY <2>1, HeldIsTheLiveClaim
    <3>2. held' = [l \in Lanes |-> held[l] \ {claim[k].delegation}]
      BY <2>1, HeldAfterRelease
    <3>3. /\ phase' = [d \in Delegations |->
               IF d \in {claim[k].delegation} THEN "STALE" ELSE phase[d]]
          /\ UNCHANGED <<home, judged>>
      BY <2>1, <2>3, <3>1 DEF phase, home, judged, TypeOK, DelegationRow
    <3>4. Lifecycle!Withdraw({claim[k].delegation})
      BY <3>2, <3>3 DEF Lifecycle!Withdraw
    <3>5. {claim[k].delegation} \in SUBSET Lifecycle!Undecided
      BY <3>1 DEF Lifecycle!Undecided, phase
    <3> QED
      BY <3>4, <3>5, <1>w
  <2> QED
    BY <2>2, <2>3
<1>11. ASSUME NEW at \in Nat, Recover(at)
       PROVE  Step
  <2> DEFINE T == {k \in Keys : Abandoned(k, at)} \cup {k \in Keys : Overdue(k, at)}
  <2>1. T \in SUBSET {k \in Keys : Live(k) \/ Validating(k)}
    BY DEF Abandoned, Overdue
  <2>2. claim' = [k \in Keys |-> IF k \in T THEN Stale(claim[k]) ELSE claim[k]]
    BY <1>11 DEF Recover
  <2>3. delegation' = [d \in Delegations |->
          IF d \in DelegationsOf(T) \cup {} THEN [delegation[d] EXCEPT !.state = "STALE"]
          ELSE delegation[d]]
    BY <1>11 DEF Recover
  <2> HIDE DEF T
  <2> QED
    BY <2>1, <2>2, <2>3, SweepWithdraws, <1>w
<1>12. ASSUME Tick \/ UNCHANGED vars
       PROVE  Step
  <2>1. UNCHANGED <<delegation, claim>>
    BY <1>12 DEF Tick, vars
  <2> QED
    BY <2>1, HeldUnchanged, <1>s DEF Live
<1> QED
  BY <1>1, <1>2, <1>3, <1>4, <1>5, <1>6, <1>7, <1>8, <1>9, <1>10, <1>11, <1>12 DEF AnyStep

\* The store implements the delegation lifecycle for any lanes, callers, leases and lag:
\* one grant per delegation, one holder per lane, one decision, and no completion of work
\* marked for evaluation except by a judgement.
THEOREM Refinement == Spec => ImplementsLifecycle
<1>1. AgreementInv /\ AgreementInv' /\ [AnyStep]_vars => [Lifecycle!Next]_Lifecycle!lifecycle
  BY RefinementStep DEF AgreementInv, ExclusionInv
<1> QED
  BY <1>1, RefinementInit, AgreementInvariant, SpecSteps, PTL DEF Spec, ImplementsLifecycle, Lifecycle!Spec

=============================================================================
