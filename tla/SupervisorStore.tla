--------------------------- MODULE SupervisorStore ---------------------------
(***************************************************************************)
(* The durable state kernel of Second Shift (capability P10):              *)
(* tools/second_shift_supervisor_v2.py, class SupervisorStore.             *)
(*                                                                         *)
(* Every public method of the class runs in one SQLite transaction opened  *)
(* with BEGIN IMMEDIATE, so a method is one atomic action here.  Callers   *)
(* (schedulers, workers, evaluators, dispatchers, recovery loops) are      *)
(* separate processes: any interleaving of methods is possible, with any   *)
(* fencing token that was ever issued, and a callback may be delivered     *)
(* again.  A caller reads the clock before it waits for the write lock, so *)
(* a method works with a reading `at' that may be behind the clock.  A     *)
(* call the code refuses (Conflict, StaleWorker, ValueError), or answers   *)
(* from what it recorded earlier, changes no row and is a stuttering step. *)
(*                                                                         *)
(* A row of claims and its row of dispatch_outbox are created together and *)
(* share the UNIQUE idempotency key, which names both here.                *)
(*                                                                         *)
(* A definition whose name starts with Faulty is a plausible slip in the   *)
(* definition that follows it; no specification uses it.                   *)
(***************************************************************************)
EXTENDS Integers, FiniteSets

CONSTANTS
  Lanes,         \* lanes.lane
  Delegations,   \* delegations.delegation_id
  Keys,          \* idempotency keys: one claim and one dispatch each
  Heads,         \* control heads (commit ids of the owner's control ref)
  Runs,          \* external run ids a dispatcher may acknowledge
  Evaluators,    \* identities that may submit a verdict
  Digests,       \* candidate digests
  FailureIds,    \* ids of dispatch failure callbacks
  VerdictIds,    \* ids of evaluator verdicts
  LeaseTerms,    \* lease_seconds a caller may ask for
  EvalTerms,     \* evaluation_timeout_seconds a caller may ask for
  Budgets,       \* retry_budget a caller may pass
  HeartbeatSLA,  \* heartbeat_sla_seconds of recover
  MaxLag,        \* bound on how long a caller waits between reading the clock
                 \* and holding the write lock
  MaxTime,       \* bound on the clock
  MaxFence,      \* bound on fencing tokens granted or spent on head changes
  NONE           \* SQL NULL

ASSUME ConstantsAssumption ==
  /\ IsFiniteSet(Keys)
  /\ LeaseTerms \subseteq Nat \ {0}
  /\ EvalTerms \subseteq Nat \ {0}
  /\ Budgets \subseteq 1 .. 3
  /\ HeartbeatSLA \in Nat
  /\ MaxLag \in Nat
  /\ MaxTime \in Nat
  /\ MaxFence \in Nat
  /\ NONE \notin Lanes \cup Delegations \cup Keys \cup Heads \cup Runs
                 \cup Evaluators \cup Digests

VARIABLES
  lane,        \* table lanes
  delegation,  \* table delegations
  claim,       \* table claims
  outbox,      \* table dispatch_outbox
  circuits,    \* dispatches with a row in table circuits (always OPEN)
  failures,    \* RETRY and CIRCUIT_OPEN rows of table events, by failure id
  verdicts,    \* EVALUATOR_VERDICT rows of table events, by verdict id
  now          \* the clock of the one machine all processes run on

vars == <<lane, delegation, claim, outbox, circuits, failures, verdicts, now>>

-----------------------------------------------------------------------------
(* Rows *)

OrNone(S) == S \cup {NONE}
Decided == {"COMPLETED", "BLOCKED", "STALE"}
Verdicts == {"PASS", "BLOCKED"}   \* REWORK and DRIFT are handled as BLOCKED

LaneRow == [state   : {"ABSENT", "IDLE", "READY", "CLAIMED", "RECONCILE"},
            head    : OrNone(Heads),
            fence   : Nat,
            current : OrNone(Delegations)]

DelegationRow == [state  : {"ABSENT", "READY", "CLAIMED", "VALIDATING"} \cup Decided,
                  lane   : OrNone(Lanes),
                  head   : OrNone(Heads),
                  judged : BOOLEAN]   \* independent_evaluation_required

\* The part of claims.terminal_reason that await_evaluation records.
Handoff == [digest : OrNone(Digests), worker : OrNone(Runs), deadline : Nat]
NoHandoff == [digest |-> NONE, worker |-> NONE, deadline |-> 0]

ClaimRow == [status     : {"ABSENT", "CLAIMED", "RUNNING", "RECOVERED", "VALIDATING"} \cup Decided,
             released   : BOOLEAN,    \* released_at IS NOT NULL
             lane       : OrNone(Lanes),
             delegation : OrNone(Delegations),
             head       : OrNone(Heads),
             token      : Nat,
             claimed    : Nat,
             expires    : Nat,
             heartbeat  : Nat,
             handoff    : Handoff]
NoClaim == [status |-> "ABSENT", released |-> FALSE, lane |-> NONE,
            delegation |-> NONE, head |-> NONE, token |-> 0,
            claimed |-> 0, expires |-> 0, heartbeat |-> 0, handoff |-> NoHandoff]

OutboxRow == [state   : {"ABSENT", "PENDING", "RETRY_WAIT", "CIRCUIT_OPEN", "DISPATCHED",
                         "CANCELLED", "CANCEL_REQUESTED", "VALIDATING",
                         "COMPLETED", "BLOCKED"},
              attempt : Nat,
              run     : OrNone(Runs),
              token   : Nat]
NoDispatch == [state |-> "ABSENT", attempt |-> 0, run |-> NONE, token |-> 0]

FailureRow == [dispatch : OrNone(Keys), attempt : Nat, opened : BOOLEAN]
VerdictRow == [claim : OrNone(Keys), verdict : OrNone(Verdicts),
               digest : OrNone(Digests), evaluator : OrNone(Evaluators)]

TypeOK ==
  /\ lane \in [Lanes -> LaneRow]
  /\ delegation \in [Delegations -> DelegationRow]
  /\ claim \in [Keys -> ClaimRow]
  /\ outbox \in [Keys -> OutboxRow]
  /\ circuits \subseteq Keys
  /\ failures \in [FailureIds -> FailureRow]
  /\ verdicts \in [VerdictIds -> VerdictRow]
  /\ now \in Nat

Init ==
  /\ lane = [l \in Lanes |-> [state |-> "ABSENT", head |-> NONE, fence |-> 0, current |-> NONE]]
  /\ delegation = [d \in Delegations |->
                     [state |-> "ABSENT", lane |-> NONE, head |-> NONE, judged |-> FALSE]]
  /\ claim = [k \in Keys |-> NoClaim]
  /\ outbox = [k \in Keys |-> NoDispatch]
  /\ circuits = {}
  /\ failures = [f \in FailureIds |-> [dispatch |-> NONE, attempt |-> 0, opened |-> FALSE]]
  /\ verdicts = [v \in VerdictIds |->
                   [claim |-> NONE, verdict |-> NONE, digest |-> NONE, evaluator |-> NONE]]
  /\ now = 0

-----------------------------------------------------------------------------
(* What the methods read *)

Live(k) == claim[k].status # "ABSENT" /\ ~claim[k].released
Validating(k) == claim[k].status = "VALIDATING" /\ claim[k].released

\* _active_claim
Active(l) == {k \in Keys : claim[k].lane = l /\ Live(k)}

\* A caller presents a token it was given or has read, its own or another's.
Issued == {claim[k].token : k \in Keys} \cup {lane[l].fence : l \in Lanes}

\* now = now or utcnow(), read before the transaction begins
Readings == {at \in 0 .. now : at + MaxLag >= now}

FaultyLiveWorkerIgnoresFence(k, t, at) ==
  /\ Live(k)
  /\ lane[claim[k].lane].head = claim[k].head
  /\ claim[k].expires > at

\* _assert_live_worker
LiveWorker(k, t, at) ==
  /\ Live(k)
  /\ t = claim[k].token
  /\ t = lane[claim[k].lane].fence
  /\ lane[claim[k].lane].head = claim[k].head
  /\ claim[k].expires > at

FaultyReleasedDispatchKeepsRun(o) ==
  IF o.state \in {"PENDING", "RETRY_WAIT"} THEN [o EXCEPT !.state = "CANCELLED"] ELSE o

FaultyReleasedDispatchStale(o) ==
  IF o.state \in {"PENDING", "RETRY_WAIT", "DISPATCHED"} THEN [o EXCEPT !.state = "STALE"] ELSE o

\* _release_dispatch_for_stale_authority
ReleasedDispatch(o) ==
  IF o.state = "DISPATCHED" /\ o.run # NONE THEN [o EXCEPT !.state = "CANCEL_REQUESTED"]
  ELSE IF o.state \in {"PENDING", "RETRY_WAIT"} THEN [o EXCEPT !.state = "CANCELLED"]
  ELSE o

FaultyReconcileKeepsState(row) == [row EXCEPT !.current = NONE]

\* What a method that makes a claim STALE writes to the claim and to its lane.
Stale(c) == [c EXCEPT !.status = "STALE", !.released = TRUE, !.handoff = NoHandoff]
Reconcile(row) == [row EXCEPT !.state = "RECONCILE", !.current = NONE]
Fenced(row, n) == [Reconcile(row) EXCEPT !.fence = @ + n]
DelegationsOf(ks) == {claim[k].delegation : k \in ks}

-----------------------------------------------------------------------------
(* Lanes and delegations *)

\* _invalidate_head_locked: the lane gets a new head and fence; its live claim,
\* the candidates under evaluation and the READY delegations all become STALE.
InvalidateHead(l, h) ==
  LET active     == Active(l)
      validating == {k \in Keys : claim[k].lane = l /\ Validating(k)}
  IN
  /\ lane[l].state # "ABSENT"
  /\ lane[l].head # h
  /\ lane[l].fence < MaxFence
  /\ claim' = [k \in Keys |->
       IF k \in active \cup validating THEN Stale(claim[k]) ELSE claim[k]]
  /\ delegation' = [d \in Delegations |->
       IF \/ d \in DelegationsOf(active)
          \/ d \in DelegationsOf(validating) /\ delegation[d].state = "VALIDATING"
          \/ delegation[d].lane = l /\ delegation[d].state = "READY"
       THEN [delegation[d] EXCEPT !.state = "STALE"]
       ELSE delegation[d]]
  /\ outbox' = [k \in Keys |->
       IF k \in active THEN ReleasedDispatch(outbox[k])
       ELSE IF k \in validating /\ outbox[k].state = "VALIDATING"
       THEN [outbox[k] EXCEPT !.state = "CANCELLED"]
       ELSE outbox[k]]
  /\ lane' = [lane EXCEPT ![l] = [Fenced(@, 1) EXCEPT !.head = h]]
  /\ UNCHANGED <<circuits, failures, verdicts, now>>

\* register_lane: a registered lane seen with another head is invalidated.
RegisterLane(l, h) ==
  \/ /\ lane[l].state = "ABSENT"
     /\ lane' = [lane EXCEPT ![l] = [@ EXCEPT !.state = "IDLE", !.head = h]]
     /\ UNCHANGED <<delegation, claim, outbox, circuits, failures, verdicts, now>>
  \/ InvalidateHead(l, h)

\* bind_ready: several READY delegations may be bound to one lane in turn.
BindReady(l, d, h, judged) ==
  /\ lane[l].state # "ABSENT"
  /\ lane[l].head = h
  /\ Active(l) = {}
  /\ ~\E e \in Delegations : delegation[e].lane = l /\ delegation[e].state = "VALIDATING"
  /\ delegation[d].state = "ABSENT"
  /\ delegation' = [delegation EXCEPT ![d] =
       [state |-> "READY", lane |-> l, head |-> h, judged |-> judged]]
  /\ lane' = [lane EXCEPT ![l].state = "READY", ![l].current = d]
  /\ UNCHANGED <<claim, outbox, circuits, failures, verdicts, now>>

-----------------------------------------------------------------------------
(* Claims and dispatch *)

FaultyClaimableAgain(l, d, h) ==
  /\ lane[l].state # "ABSENT"
  /\ lane[l].head = h
  /\ Active(l) = {}
  /\ delegation[d].lane = l
  /\ delegation[d].head = h
  /\ delegation[d].state \in {"READY", "BLOCKED"}

FaultyClaimableWhileHeld(l, d, h) ==
  /\ lane[l].state # "ABSENT"
  /\ lane[l].head = h
  /\ delegation[d].lane = l
  /\ delegation[d].head = h
  /\ delegation[d].state = "READY"

\* The checks of claim_ready.  It does not look for VALIDATING delegations.
Claimable(l, d, h) ==
  /\ lane[l].state # "ABSENT"
  /\ lane[l].head = h
  /\ Active(l) = {}
  /\ delegation[d].lane = l
  /\ delegation[d].head = h
  /\ delegation[d].state = "READY"

FaultyNextTokenReused(l) == lane[l].fence

\* The fencing token of the next claim on a lane.
NextToken(l) == lane[l].fence + 1

\* claim_ready (a caller outside the shift window is refused unless it says so)
ClaimReady(l, d, h, k, term, at) ==
  /\ claim[k].status = "ABSENT"
  /\ Claimable(l, d, h)
  /\ lane[l].fence < MaxFence
  /\ at + term <= MaxTime
  /\ lane' = [lane EXCEPT ![l] =
       [@ EXCEPT !.fence = NextToken(l), !.state = "CLAIMED", !.current = d]]
  /\ delegation' = [delegation EXCEPT ![d].state = "CLAIMED"]
  /\ claim' = [claim EXCEPT ![k] =
       [status |-> "CLAIMED", released |-> FALSE, lane |-> l, delegation |-> d,
        head |-> h, token |-> NextToken(l), claimed |-> at, expires |-> at + term,
        heartbeat |-> at, handoff |-> NoHandoff]]
  /\ outbox' = [outbox EXCEPT ![k] =
       [state |-> "PENDING", attempt |-> 0, run |-> NONE, token |-> NextToken(l)]]
  /\ UNCHANGED <<circuits, failures, verdicts, now>>

Acknowledged(o, r) == [o EXCEPT !.state = "DISPATCHED", !.attempt = @ + 1, !.run = r]

\* mark_dispatched: also accepted from RETRY_WAIT and CIRCUIT_OPEN
MarkDispatched(k, r) ==
  /\ Live(k)
  /\ outbox[k].run = NONE
  /\ outbox' = [outbox EXCEPT ![k] = Acknowledged(@, r)]
  /\ UNCHANGED <<lane, delegation, claim, circuits, failures, verdicts, now>>

FaultyRetryableForgetsReplay(k, f) ==
  outbox[k].run = NONE /\ outbox[k].state \in {"PENDING", "RETRY_WAIT"}

\* A failure callback counts when its id is new and the dispatch is retryable;
\* a known id is answered from the events table.
Retryable(k, f) ==
  /\ failures[f].dispatch = NONE
  /\ outbox[k].run = NONE
  /\ outbox[k].state \in {"PENDING", "RETRY_WAIT"}

\* dispatch_failed
DispatchFailed(k, f, budget) ==
  LET attempt == outbox[k].attempt + 1
      opened  == attempt >= budget
  IN
  /\ Retryable(k, f)
  /\ outbox' = [outbox EXCEPT ![k] =
       [@ EXCEPT !.attempt = attempt,
                 !.state = IF opened THEN "CIRCUIT_OPEN" ELSE "RETRY_WAIT"]]
  /\ circuits' = IF opened THEN circuits \cup {k} ELSE circuits
  /\ failures' = [failures EXCEPT ![f] =
       [dispatch |-> k, attempt |-> attempt, opened |-> opened]]
  /\ UNCHANGED <<lane, delegation, claim, verdicts, now>>

\* heartbeat and progress: neither extends the lease
Heartbeat(k, t, at) ==
  /\ LiveWorker(k, t, at)
  /\ claim' = [claim EXCEPT ![k].heartbeat = at, ![k].status = "RUNNING"]
  /\ UNCHANGED <<lane, delegation, outbox, circuits, failures, verdicts, now>>

-----------------------------------------------------------------------------
(* Results *)

\* await_evaluation: the worker gives up the lane and leaves a candidate.
AwaitEvaluation(k, t, digest, term, at) ==
  /\ LiveWorker(k, t, at)
  /\ outbox[k].state = "DISPATCHED"
  /\ outbox[k].run # NONE
  /\ at + term <= MaxTime
  /\ claim' = [claim EXCEPT ![k] =
       [@ EXCEPT !.status = "VALIDATING", !.released = TRUE,
                 !.handoff = [digest |-> digest, worker |-> outbox[k].run,
                              deadline |-> at + term]]]
  /\ delegation' = [delegation EXCEPT ![claim[k].delegation].state = "VALIDATING"]
  /\ lane' = [lane EXCEPT ![claim[k].lane] = Reconcile(@)]
  /\ outbox' = [outbox EXCEPT ![k].state = "VALIDATING"]
  /\ UNCHANGED <<circuits, failures, verdicts, now>>

FaultyVerdictAdmissibleLate(k, t, digest, e, at) ==
  /\ t = claim[k].token
  /\ Validating(k)
  /\ digest = claim[k].handoff.digest
  /\ e # claim[k].handoff.worker
  /\ claim[k].handoff.deadline > at

FaultyVerdictBySelf(k, t, digest, e, at) ==
  /\ t = claim[k].token
  /\ Validating(k)
  /\ lane[claim[k].lane].head = claim[k].head
  /\ lane[claim[k].lane].fence = claim[k].token
  /\ digest = claim[k].handoff.digest
  /\ claim[k].handoff.deadline > at

\* The checks of evaluator_verdict on the claim and its lane.
VerdictAdmissible(k, t, digest, e, at) ==
  /\ t = claim[k].token
  /\ Validating(k)
  /\ lane[claim[k].lane].head = claim[k].head
  /\ lane[claim[k].lane].fence = claim[k].token
  /\ digest = claim[k].handoff.digest
  /\ e # claim[k].handoff.worker
  /\ claim[k].handoff.deadline > at
  /\ delegation[claim[k].delegation].state = "VALIDATING"
  /\ outbox[k].state = "VALIDATING"

Outcome(verdict) == IF verdict = "PASS" THEN "COMPLETED" ELSE "BLOCKED"

\* evaluator_verdict: the lane row is left alone
EvaluatorVerdict(k, t, v, verdict, digest, e, at) ==
  /\ verdicts[v].claim = NONE
  /\ VerdictAdmissible(k, t, digest, e, at)
  /\ claim' = [claim EXCEPT ![k].status = Outcome(verdict), ![k].handoff = NoHandoff]
  /\ delegation' = [delegation EXCEPT ![claim[k].delegation].state = Outcome(verdict)]
  /\ outbox' = [outbox EXCEPT ![k].state = Outcome(verdict)]
  /\ verdicts' = [verdicts EXCEPT ![v] =
       [claim |-> k, verdict |-> verdict, digest |-> digest, evaluator |-> e]]
  /\ UNCHANGED <<lane, circuits, failures, now>>

FaultyMayTerminalizeUnjudged(k, t, s, at) ==
  IF s = "STALE"
  THEN Live(k) /\ t \in {claim[k].token, lane[claim[k].lane].fence}
  ELSE LiveWorker(k, t, at)

\* The checks of terminal: a worker may not complete work that needs a verdict,
\* and STALE is accepted from the holder of either fence.
MayTerminalize(k, t, s, at) ==
  IF s = "STALE"
  THEN Live(k) /\ t \in {claim[k].token, lane[claim[k].lane].fence}
  ELSE /\ LiveWorker(k, t, at)
       /\ s = "COMPLETED" => ~delegation[claim[k].delegation].judged

\* terminal: the fence is not advanced
Terminal(k, t, s, at) ==
  /\ MayTerminalize(k, t, s, at)
  /\ claim' = [claim EXCEPT ![k].status = s, ![k].released = TRUE]
  /\ delegation' = [delegation EXCEPT ![claim[k].delegation].state = s]
  /\ lane' = [lane EXCEPT ![claim[k].lane] = Reconcile(@)]
  /\ outbox' = [outbox EXCEPT ![k] =
       IF s = "STALE" THEN ReleasedDispatch(@)
       ELSE IF @.state \in {"PENDING", "RETRY_WAIT"} THEN [@ EXCEPT !.state = "CANCELLED"]
       ELSE @]
  /\ UNCHANGED <<circuits, failures, verdicts, now>>

-----------------------------------------------------------------------------
(* Recovery *)

FaultyAbandonedSweepsReleased(k, at) ==
  /\ claim[k].status # "ABSENT"
  /\ claim[k].expires <= at \/ at - claim[k].heartbeat > HeartbeatSLA

\* A claim whose lease ran out, or whose worker fell silent.
Abandoned(k, at) == Live(k) /\ \/ claim[k].expires <= at
                               \/ at - claim[k].heartbeat > HeartbeatSLA

FaultyOverdueUnreleased(k, at) ==
  claim[k].status = "VALIDATING" /\ Live(k) /\ claim[k].handoff.deadline <= at

\* A candidate nobody judged in time.
Overdue(k, at) == Validating(k) /\ claim[k].handoff.deadline <= at

\* recover: one transaction over every claim; each stale one advances its lane's fence
Recover(at) ==
  LET abandoned == {k \in Keys : Abandoned(k, at)}
      overdue   == {k \in Keys : Overdue(k, at)}
      stale     == abandoned \cup overdue
      On(l)     == {k \in stale : claim[k].lane = l}
  IN
  /\ stale # {}
  /\ claim' = [k \in Keys |-> IF k \in stale THEN Stale(claim[k]) ELSE claim[k]]
  /\ delegation' = [d \in Delegations |->
       IF d \in DelegationsOf(stale) THEN [delegation[d] EXCEPT !.state = "STALE"]
       ELSE delegation[d]]
  /\ lane' = [l \in Lanes |->
       IF On(l) # {}
       THEN Fenced(lane[l], Cardinality(On(l)))
       ELSE lane[l]]
  /\ outbox' = [k \in Keys |->
       IF k \in abandoned THEN ReleasedDispatch(outbox[k])
       ELSE IF k \in overdue THEN [outbox[k] EXCEPT !.state = "CANCELLED"]
       ELSE outbox[k]]
  /\ UNCHANGED <<circuits, failures, verdicts, now>>

\* The passing of time.
Tick ==
  /\ now < MaxTime
  /\ now' = now + 1
  /\ UNCHANGED <<lane, delegation, claim, outbox, circuits, failures, verdicts>>

-----------------------------------------------------------------------------

Next ==
  \/ \E l \in Lanes, h \in Heads : RegisterLane(l, h)
  \/ \E l \in Lanes, d \in Delegations, h \in Heads, j \in BOOLEAN : BindReady(l, d, h, j)
  \/ \E l \in Lanes, d \in Delegations, h \in Heads, k \in Keys, term \in LeaseTerms,
        at \in Readings : ClaimReady(l, d, h, k, term, at)
  \/ \E k \in Keys, r \in Runs : MarkDispatched(k, r)
  \/ \E k \in Keys, f \in FailureIds, b \in Budgets : DispatchFailed(k, f, b)
  \/ \E k \in Keys, t \in Issued, at \in Readings : Heartbeat(k, t, at)
  \/ \E k \in Keys, t \in Issued, g \in Digests, term \in EvalTerms, at \in Readings :
       AwaitEvaluation(k, t, g, term, at)
  \/ \E k \in Keys, t \in Issued, v \in VerdictIds, x \in Verdicts, g \in Digests,
        e \in Evaluators, at \in Readings : EvaluatorVerdict(k, t, v, x, g, e, at)
  \/ \E k \in Keys, t \in Issued, s \in Decided, at \in Readings : Terminal(k, t, s, at)
  \/ \E l \in Lanes, h \in Heads : InvalidateHead(l, h)
  \/ \E at \in Readings : Recover(at)
  \/ Tick

Spec == Init /\ [][Next]_vars

\* Every control loop calls recover again and again, and time passes.
FairSpec == Spec /\ WF_vars(\E at \in Readings : Recover(at)) /\ WF_vars(Tick)

-----------------------------------------------------------------------------
(* Properties *)

\* The central invariant of P10: at most one claim of a lane is unreleased, and
\* no two claims of a lane ever carry the same fencing token, so the newest one
\* can be told from every older one.
LaneExclusion ==
  \A j, k \in Keys :
    j # k /\ claim[j].status # "ABSENT" /\ claim[j].lane = claim[k].lane
      => /\ ~(Live(j) /\ Live(k))
         /\ claim[j].token # claim[k].token

\* The four tables tell one story: the state of a delegation is the state of its
\* only claim, and a dispatch is VALIDATING exactly while its claim is.  Each
\* method updates the tables one by one, several of them for sets of claims.
LifecycleAgreement ==
  \A k \in Keys : claim[k].status # "ABSENT" =>
    /\ delegation[claim[k].delegation].state =
         IF claim[k].released THEN claim[k].status ELSE "CLAIMED"
    /\ outbox[k].state = "VALIDATING" <=> Validating(k)
    /\ \A j \in Keys \ {k} : claim[j].delegation # claim[k].delegation

\* The part of audit_invariants that any sequence of calls keeps: a CLAIMED lane
\* has its claim, and a delegation awaits evaluation only with a released claim
\* and a dispatch that await it too.
AuditLaneAndCandidate ==
  /\ \A l \in Lanes : lane[l].state = "CLAIMED" => Active(l) # {}
  /\ \A d \in Delegations : delegation[d].state = "VALIDATING" =>
       \E k \in Keys : /\ claim[k].delegation = d
                       /\ Validating(k)
                       /\ outbox[k].state = "VALIDATING"

\* The part of audit_invariants on live claims (LIVE_CLAIM_WITH_NONCLAIMED_LANE
\* and LIVE_CLAIM_FENCE_MISMATCH): the lane of a live claim is CLAIMED and its
\* fence is the claim's token.
AuditLiveClaim ==
  \A k \in Keys : Live(k) => /\ lane[claim[k].lane].state = "CLAIMED"
                             /\ lane[claim[k].lane].fence = claim[k].token

\* Nothing is dispatched for a claim that is over, and an external run whose
\* claim went STALE is cancelled, whichever of the five methods released it.
ReleasedWorkIsStopped ==
  \A k \in Keys : claim[k].released =>
    /\ outbox[k].state \notin {"PENDING", "RETRY_WAIT"}
    /\ claim[k].status = "STALE" /\ outbox[k].run # NONE
         => outbox[k].state \in {"CANCELLED", "CANCEL_REQUESTED"}

\* A dispatch failure callback, however often and however late it is delivered,
\* spends one attempt; a circuit is open exactly when some failure opened it, and
\* a dispatch that waits for a retry is below the largest budget.
RetryAccounting ==
  \A k \in Keys :
    LET mine == {f \in FailureIds : failures[f].dispatch = k} IN
    /\ outbox[k].attempt = Cardinality(mine) + (IF outbox[k].run = NONE THEN 0 ELSE 1)
    /\ k \in circuits <=> \E f \in mine : failures[f].opened
    /\ outbox[k].state = "RETRY_WAIT" => outbox[k].attempt < 3

\* Work that needs an independent evaluation is COMPLETED only by a PASS verdict
\* of somebody other than the worker that ran it.
IndependentVerdict ==
  \A k \in Keys :
    claim[k].status = "COMPLETED" /\ delegation[claim[k].delegation].judged =>
      \E v \in VerdictIds : /\ verdicts[v].claim = k
                            /\ verdicts[v].verdict = "PASS"
                            /\ verdicts[v].evaluator # outbox[k].run

\* A lane's fence never goes back, and a new claim's token is above every token
\* the lane ever gave out.
FenceAdvances ==
  [][/\ \A l \in Lanes : lane'[l].fence >= lane[l].fence
     /\ \A j, k \in Keys :
          /\ claim[k].status = "ABSENT" /\ claim'[k].status # "ABSENT"
          /\ claim[j].status # "ABSENT" /\ claim[j].lane = claim'[k].lane
          => claim[j].token < claim'[k].token]_vars

\* What was decided stays decided: no late report, verdict, recovery or head
\* change rewrites a claim or a delegation that has its outcome.
OutcomeIsFinal ==
  [][/\ \A k \in Keys : claim[k].status \in Decided => claim'[k] = claim[k]
     /\ \A d \in Delegations :
          delegation[d].state \in Decided => delegation'[d] = delegation[d]]_vars

\* Work completes only on the head it was bound to, and only while no later claim
\* was granted on the lane: a worker or evaluator that slept through a recovery, a
\* head change or a newer claim cannot complete anything.
CompletionIsCurrent ==
  [][\A k \in Keys :
       claim[k].status # "COMPLETED" /\ claim'[k].status = "COMPLETED" =>
         /\ lane[claim[k].lane].head = delegation[claim[k].delegation].head
         /\ \A j \in Keys \ {k} :
              claim[j].lane = claim[k].lane => claim[j].token < claim[k].token]_vars

\* Every lane is freed: a claim whose worker, dispatcher or evaluator never comes
\* back is released, and a candidate is decided.
ClaimsEnd ==
  \A k \in Keys : /\ Live(k) ~> claim[k].released
                  /\ Validating(k) ~> claim[k].status \in Decided
=============================================================================
