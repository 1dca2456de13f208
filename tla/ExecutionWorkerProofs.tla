------------------------ MODULE ExecutionWorkerProofs ------------------------
(***************************************************************************)
(* Theorems about ExecutionWorker, for every number of processes, lanes,   *)
(* delegations and dispatches, for every lease, and for any executors, some *)
(* of which may not be repeated.                                           *)
(*                                                                         *)
(* The processes use the store through its methods, about which            *)
(* SupervisorStoreProofs says what they keep, and twice past them: recovery *)
(* resumes a claim under a new fence and renewal extends its lease.  One   *)
(* inductive invariant ties the rows of the store, the result of each      *)
(* dispatch, its attempts and what each process still remembers.           *)
(***************************************************************************)
EXTENDS ExecutionWorker, SupervisorStoreProofs, SequenceTheorems

-----------------------------------------------------------------------------
(* Rows *)

LEMMA RowsAreWellFormed ==
  ASSUME NEW rows \in Seq(AttemptRow)
  PROVE  /\ DOMAIN rows = 1 .. Len(rows) /\ Len(rows) \in Nat
         /\ \A i \in DOMAIN rows : rows[i].generation \in Nat
<1>1. DOMAIN rows = 1 .. Len(rows) /\ Len(rows) \in Nat
      /\ \A i \in DOMAIN rows : rows[i] \in AttemptRow
  OBVIOUS
<1> QED
  BY <1>1 DEF AttemptRow

\* Closing an attempt changes the state of that attempt and nothing else.
LEMMA MovedRows ==
  ASSUME NEW rows \in Seq(AttemptRow), NEW n, NEW from,
         NEW to \in {"RUNNING", "RESULT_READY", "SUCCEEDED", "FAILED", "FENCED"}
  PROVE  /\ Moved(rows, n, from, to) \in Seq(AttemptRow)
         /\ Len(Moved(rows, n, from, to)) = Len(rows)
         /\ \A i \in DOMAIN rows :
              /\ Moved(rows, n, from, to)[i].generation = rows[i].generation
              /\ i # n \/ rows[i].state # from => Moved(rows, n, from, to)[i] = rows[i]
              /\ i = n /\ rows[i].state = from => Moved(rows, n, from, to)[i].state = to
<1>1. DOMAIN rows = 1 .. Len(rows) /\ \A i \in DOMAIN rows : rows[i] \in AttemptRow
  OBVIOUS
<1>2. CASE n \in DOMAIN rows /\ rows[n].state = from
  <2> DEFINE row == [rows[n] EXCEPT !.state = to]
  <2>1. row \in AttemptRow /\ row.generation = rows[n].generation /\ row.state = to
    BY <1>1, <1>2 DEF AttemptRow
  <2>2. Moved(rows, n, from, to) = [rows EXCEPT ![n] = row]
    BY <1>2 DEF Moved
  <2>3. /\ [rows EXCEPT ![n] = row] \in Seq(AttemptRow)
        /\ Len([rows EXCEPT ![n] = row]) = Len(rows)
        /\ \A j \in 1 .. Len(rows) : [rows EXCEPT ![n] = row][j] = IF j = n THEN row ELSE rows[j]
    <3> HIDE DEF row
    <3> QED
      BY <1>1, <1>2, <2>1, ExceptSeq
  <2> HIDE DEF row
  <2> QED
    BY <1>1, <1>2, <2>1, <2>2, <2>3
<1>3. CASE ~(n \in DOMAIN rows /\ rows[n].state = from)
  BY <1>3 DEF Moved
<1> QED
  BY <1>2, <1>3

\* What recovery and the loss of authority make of a result is a result row.
LEMMA LostType ==
  ASSUME NEW r \in ResultRow
  PROVE  Lost(r) \in ResultRow
BY DEF Lost, ResultRow, OrNone, Final, Decided

LEMMA ResumedType ==
  ASSUME NEW r \in ResultRow, NEW t \in Nat
  PROVE  Resumed(r, t) \in ResultRow
<1>1. r.generation + 1 \in Nat
  BY DEF ResultRow
<1> QED
  BY <1>1 DEF Resumed, ResultRow, OrNone

-----------------------------------------------------------------------------
(* What the processes do to the store *)

\* The methods of the store that processes and their environment call, those that decide
\* nothing first.
QuietCall ==
  \/ \E l \in Lanes, h \in Heads : RegisterLane(l, h)
  \/ \E l \in Lanes, d \in Delegations, h \in Heads, j \in BOOLEAN : BindReady(l, d, h, j)
  \/ \E l \in Lanes, d \in Delegations, h \in Heads, k \in Keys, term \in Nat, at \in Nat :
       ClaimReady(l, d, h, k, term, at)
  \/ \E k \in Keys, r \in Runs : MarkDispatched(k, r)
  \/ \E at \in Nat : Recover(at)
  \/ Tick

StoreCall ==
  \/ QuietCall
  \/ \E k \in Keys, t \in Issued, s \in {"COMPLETED", "BLOCKED"}, at \in Nat :
       Terminal(k, t, s, at)

\* renew_execution_lease, past the store's methods.
Extending ==
  /\ \E k \in Keys, at \in Nat : /\ Live(k)
                                 /\ claim' = [claim EXCEPT ![k] = RenewedClaim(@, at)]
  /\ UNCHANGED <<lane, delegation, outbox, circuits, failures, verdicts, now>>

\* _recover_local_claims, when it finds every fence in order.
Resuming(p) == RecoverLocalClaims(p) /\ \A k \in Keys : Live(k) => Identified(k)

LEMMA CallsAreSteps ==
  ASSUME StoreCall
  PROVE  AnyStep
<1>1. CASE \E k \in Keys, t \in Issued, s \in {"COMPLETED", "BLOCKED"}, at \in Nat :
             Terminal(k, t, s, at)
  BY <1>1 DEF AnyStep, Decided
<1> QED
  BY <1>1 DEF StoreCall, QuietCall, AnyStep

\* No process ever leaves a candidate: none of them hands work over for evaluation.
NoCandidates == \A k \in Keys : claim[k].status # "VALIDATING"

\* What the processes keep of the store: its own invariants and, because nothing waits
\* for a verdict, the audit of live claims, which does not hold of the store in general.
StoreInv == AgreementInv /\ NoCandidates /\ AuditLiveClaim

\* A live claim is alone on a lane that is in the tables.
LEMMA LiveIsAlone ==
  ASSUME AgreementInv, NEW k \in Keys, Live(k)
  PROVE  /\ Claimed(k) /\ claim[k].lane \in Lanes /\ claim[k].delegation \in Delegations
         /\ Active(claim[k].lane) = {k}
BY HeldIsTheLiveClaim DEF Live, Claimed

\* The methods the processes call keep the audit of live claims.
LEMMA CallsKeepTheAudit ==
  ASSUME StoreInv, StoreCall
  PROVE  StoreInv'
<1> USE DEF StoreInv, AgreementInv, ExclusionInv, TypeOK
<1>a. AgreementInv'
  BY AgreementStep, CallsAreSteps
<1>t. \A k \in Keys : claim[k] \in ClaimRow
  OBVIOUS
<1> DEFINE Good == NoCandidates' /\ AuditLiveClaim'
\* a sweep of claims: every lane that changes has lost its live claim
<1>s. ASSUME \A k \in Keys : \/ claim'[k] = Stale(claim[k])
                             \/ claim'[k] = claim[k] /\ (Live(k) => lane'[claim[k].lane] = lane[claim[k].lane])
      PROVE  Good
  <2>1. \A k \in Keys : Stale(claim[k]).status = "STALE" /\ Stale(claim[k]).released
    BY <1>t, StaleKeeps
  <2> QED
    BY <1>s, <2>1 DEF NoCandidates, AuditLiveClaim, Live
<1>h. ASSUME NEW l \in Lanes, NEW h \in Heads, InvalidateHead(l, h)
      PROVE  Good
  <2> SUFFICES ASSUME NEW k \in Keys
               PROVE  \/ claim'[k] = Stale(claim[k])
                      \/ claim'[k] = claim[k] /\ (Live(k) => lane'[claim[k].lane] = lane[claim[k].lane])
    BY <1>s
  <2>1. claim'[k] = Stale(claim[k]) \/ (claim'[k] = claim[k] /\ k \notin Active(l))
    BY <1>h DEF InvalidateHead
  <2>2. \A m \in Lanes \ {l} : lane'[m] = lane[m]
    BY <1>h DEF InvalidateHead
  <2> QED
    BY <2>1, <2>2, LiveIsAlone DEF Active
<1>1. ASSUME NEW l \in Lanes, NEW h \in Heads, RegisterLane(l, h)
      PROVE  Good
  <2>1. CASE InvalidateHead(l, h)
    BY <2>1, <1>h
  <2>2. CASE ~InvalidateHead(l, h)
    <3>1. /\ lane[l].state = "ABSENT" /\ UNCHANGED claim
          /\ \A m \in Lanes \ {l} : lane'[m] = lane[m]
      BY <1>1, <2>2 DEF RegisterLane
    <3>2. \A k \in Keys : Live(k) => claim[k].lane \in Lanes \ {l}
      BY <3>1, LiveIsAlone DEF AuditLiveClaim
    <3> QED
      BY <3>1, <3>2, <1>s
  <2> QED
    BY <2>1, <2>2
<1>2. ASSUME NEW l \in Lanes, NEW d \in Delegations, NEW h \in Heads, NEW j \in BOOLEAN,
             BindReady(l, d, h, j)
      PROVE  Good
  <2>1. UNCHANGED claim /\ Active(l) = {} /\ \A m \in Lanes \ {l} : lane'[m] = lane[m]
    BY <1>2 DEF BindReady
  <2>2. \A k \in Keys : Live(k) => claim[k].lane \in Lanes \ {l}
    BY <2>1, LiveIsAlone
  <2> QED
    BY <2>1, <2>2, <1>s
<1>3. ASSUME NEW l \in Lanes, NEW d \in Delegations, NEW h \in Heads, NEW k \in Keys,
             NEW term \in Nat, NEW at \in Nat, ClaimReady(l, d, h, k, term, at)
      PROVE  Good
  <2>1. /\ Active(l) = {}
        /\ claim'[k].lane = l /\ claim'[k].token = lane[l].fence + 1
        /\ claim'[k].status = "CLAIMED"
        /\ \A i \in Keys \ {k} : claim'[i] = claim[i]
    BY <1>3, GrantEffect
  <2>2. /\ lane'[l].state = "CLAIMED" /\ lane'[l].fence = lane[l].fence + 1
        /\ \A m \in Lanes \ {l} : lane'[m] = lane[m]
    BY <1>3 DEF ClaimReady, NextToken, LaneRow
  <2>3. \A i \in Keys \ {k} : Live(i) => claim[i].lane \in Lanes \ {l}
    BY <2>1, LiveIsAlone
  <2> QED
    BY <2>1, <2>2, <2>3 DEF NoCandidates, AuditLiveClaim, Live
<1>4. ASSUME NEW k \in Keys, NEW r \in Runs, MarkDispatched(k, r)
      PROVE  Good
  BY <1>4, <1>s DEF MarkDispatched
<1>5. ASSUME NEW k \in Keys, NEW t \in Issued, NEW s \in {"COMPLETED", "BLOCKED"}, NEW at \in Nat,
             Terminal(k, t, s, at)
      PROVE  Good
  <2>1. Live(k) /\ \A i \in Keys \ {k} : claim'[i] = claim[i]
    BY <1>5 DEF Terminal, MayTerminalize, LiveWorker
  <2>2. claim'[k].status = s /\ claim'[k].released
    BY <1>5 DEF Terminal, ClaimRow
  <2>3. \A m \in Lanes \ {claim[k].lane} : lane'[m] = lane[m]
    BY <1>5 DEF Terminal
  <2>4. \A i \in Keys \ {k} : Live(i) => claim[i].lane \in Lanes \ {claim[k].lane}
    BY <2>1, LiveIsAlone DEF Active
  <2> QED
    BY <2>1, <2>2, <2>3, <2>4 DEF NoCandidates, AuditLiveClaim, Live
<1>6. ASSUME NEW at \in Nat, Recover(at)
      PROVE  Good
  <2> DEFINE T == {k \in Keys : Abandoned(k, at)} \cup {k \in Keys : Overdue(k, at)}
  <2>1. /\ \A k \in Keys : claim'[k] = IF k \in T THEN Stale(claim[k]) ELSE claim[k]
        /\ \A l \in Lanes : {k \in T : claim[k].lane = l} = {} => lane'[l] = lane[l]
    BY <1>6 DEF Recover
  <2>2. \A k \in T : Live(k)
    BY DEF Abandoned, Overdue, Validating, NoCandidates
  <2>3. ASSUME NEW k \in Keys \ T, Live(k)
        PROVE  lane'[claim[k].lane] = lane[claim[k].lane]
    <3>1. Active(claim[k].lane) = {k} /\ claim[k].lane \in Lanes
      BY <2>3, LiveIsAlone
    <3>2. {i \in T : claim[i].lane = claim[k].lane} = {}
      BY <3>1, <2>2 DEF Active
    <3> QED
      BY <3>1, <3>2, <2>1
  <2> HIDE DEF T
  <2> QED
    BY <2>1, <2>3, <1>s
<1>7. ASSUME Tick
      PROVE  Good
  BY <1>7, <1>s DEF Tick
<1> QED
  BY <1>a, <1>1, <1>2, <1>3, <1>4, <1>5, <1>6, <1>7 DEF StoreCall, QuietCall

\* What extending and resuming have in common: no claim changes its place, and live ones
\* stay live.
InPlace ==
  /\ UNCHANGED <<delegation, circuits, failures, verdicts, now>>
  /\ \A k \in Keys :
       /\ claim'[k].lane = claim[k].lane
       /\ claim'[k].delegation = claim[k].delegation
       /\ claim'[k].head = claim[k].head
       /\ claim'[k].released = claim[k].released
       /\ \/ claim'[k].status = claim[k].status
          \/ Live(k) /\ claim'[k].status \in {"RUNNING", "RECOVERED"}
       /\ outbox'[k].state = outbox[k].state

LEMMA InPlaceAgrees ==
  ASSUME StoreInv, InPlace, ExclusionInv'
  PROVE  AgreementInv' /\ NoCandidates'
<1> USE DEF StoreInv, AgreementInv, ExclusionInv, InPlace
<1>1. \A k \in Keys : Claimed(k)' <=> Claimed(k)
  BY DEF Live, Claimed
<1>2. ASSUME NEW k \in Keys, Claimed(k)
      PROVE  StaysHandedOver(k)
  <2>1. Agrees(k)
    BY <1>2
  <2>2. Agrees(k)'
    BY <2>1 DEF Agrees, Live, Validating
  <2> QED
    BY <1>2, <2>2 DEF StaysHandedOver, ReleasedIsHandedOver, Live
<1>3. ReleasedIsHandedOver'
  BY <1>1, <1>2 DEF ReleasedIsHandedOver, StaysHandedOver
<1>4. OneClaimEach'
  BY <1>1 DEF OneClaimEach
<1>5. \A k \in Keys : Claimed(k)' => Agrees(k)'
  BY <1>1, <1>2 DEF StaysHandedOver
<1>6. NoCandidates'
  BY DEF NoCandidates
<1> QED
  BY <1>3, <1>4, <1>5, <1>6

\* A renewal changes the expiry, the heartbeat and the status of one live claim.
LEMMA ExtendingKeeps ==
  ASSUME StoreInv, Extending
  PROVE  /\ StoreInv' /\ InPlace
         /\ \A k \in Keys : claim'[k].token = claim[k].token
<1> USE DEF StoreInv, AgreementInv, ExclusionInv
<1>1. PICK k \in Keys, at \in Nat : Live(k) /\ claim' = [claim EXCEPT ![k] = RenewedClaim(@, at)]
  BY DEF Extending
<1>2. at + LeaseSeconds \in Nat
  BY WorkerAssumption
<1>3. claim[k] \in ClaimRow /\ RenewedClaim(claim[k], at) \in ClaimRow
  BY <1>1, <1>2 DEF RenewedClaim, ClaimRow, TypeOK
<1>4. /\ RenewedClaim(claim[k], at).lane = claim[k].lane
      /\ RenewedClaim(claim[k], at).delegation = claim[k].delegation
      /\ RenewedClaim(claim[k], at).head = claim[k].head
      /\ RenewedClaim(claim[k], at).token = claim[k].token
      /\ RenewedClaim(claim[k], at).released = claim[k].released
      /\ RenewedClaim(claim[k], at).status = "RUNNING"
  BY <1>3 DEF RenewedClaim, ClaimRow
<1>5. \A i \in Keys \ {k} : claim'[i] = claim[i]
  BY <1>1
<1>6. claim'[k] = RenewedClaim(claim[k], at)
  BY <1>1 DEF TypeOK
<1>7. TypeOK'
  BY <1>1, <1>3 DEF Extending, TypeOK
<1>8. InPlace /\ \A i \in Keys : claim'[i].token = claim[i].token
  BY <1>1, <1>4, <1>5, <1>6 DEF InPlace, Extending
<1>9. \A i \in Keys : (Claimed(i)' <=> Claimed(i)) /\ (Live(i)' <=> Live(i))
  BY <1>8 DEF InPlace, Live, Claimed
<1>10. ExclusionInv'
  <2>1. Placed'
    BY <1>8, <1>9 DEF Placed, InPlace
  <2>2. TokensBelowFence'
    BY <1>8, <1>9 DEF TokensBelowFence, InPlace, Extending
  <2>3. LaneExclusion'
    BY <1>8, <1>9 DEF LaneExclusion, InPlace, Claimed
  <2> QED
    BY <1>7, <2>1, <2>2, <2>3
<1>11. AuditLiveClaim'
  BY <1>8, <1>9 DEF AuditLiveClaim, InPlace, Extending
<1> QED
  BY <1>8, <1>10, <1>11, InPlaceAgrees

\* A recovery that is not refused gives each claim it resumes a new fence, on the lane, on
\* the claim and on its dispatch, and touches no other row of the store.
Resumption(p, k) ==
  IF Recoverable(k, worker[p].clock)
  THEN /\ Live(k)
       /\ claim'[k].status = "RECOVERED"
       /\ claim'[k].token = lane[claim[k].lane].fence + 1
       /\ outbox'[k].token = claim'[k].token
       /\ lane'[claim[k].lane].fence = claim'[k].token
       /\ lane'[claim[k].lane].state = "CLAIMED"
  ELSE claim'[k] = claim[k] /\ outbox'[k] = outbox[k]

LEMMA ResumingRows ==
  ASSUME StoreInv, NEW p \in Workers, worker[p].clock \in Nat, Resuming(p)
  PROVE  /\ TypeOK' /\ InPlace
         /\ \A k \in Keys : Resumption(p, k)
         /\ \A l \in Lanes : \/ lane'[l] = lane[l]
                             \/ \E k \in Keys : Recoverable(k, worker[p].clock) /\ claim[k].lane = l
<1> DEFINE at == worker[p].clock
           R == {k \in Keys : Recoverable(k, at)}
<1> USE DEF StoreInv, AgreementInv, ExclusionInv
<1>1. /\ lane' = [l \in Lanes |->
            IF Active(l) \cap R # {}
            THEN ResumedLane(l, claim[CHOOSE k \in Active(l) : TRUE].delegation)
            ELSE lane[l]]
      /\ claim' = [k \in Keys |->
            IF k \in R
            THEN [claim[k] EXCEPT !.token = NextToken(claim[k].lane), !.expires = at + LeaseSeconds,
                                  !.heartbeat = at, !.status = "RECOVERED"]
            ELSE claim[k]]
      /\ outbox' = [k \in Keys |->
            IF k \in R THEN [outbox[k] EXCEPT !.token = NextToken(claim[k].lane)] ELSE outbox[k]]
      /\ UNCHANGED <<delegation, circuits, failures, verdicts, now>>
  BY DEF Resuming, RecoverLocalClaims
<1>2. \A k \in R : Live(k)
  BY DEF Recoverable, Abandoned
<1>3. \A k \in R : /\ claim[k].lane \in Lanes
                   /\ Active(claim[k].lane) = {k}
                   /\ claim[k].delegation \in Delegations
  BY <1>2, LiveIsAlone
<1>4. \A l \in Lanes : lane[l].fence \in Nat /\ NextToken(l) \in Nat
  BY DEF NextToken, TypeOK, LaneRow
<1>5. at + LeaseSeconds \in Nat
  BY WorkerAssumption
<1>6. \A l \in Lanes, d \in Delegations : /\ ResumedLane(l, d) \in LaneRow
                                          /\ ResumedLane(l, d).fence = NextToken(l)
                                          /\ ResumedLane(l, d).state = "CLAIMED"
  BY <1>4 DEF ResumedLane, TypeOK, LaneRow, OrNone
<1>7. ASSUME NEW k \in R
      PROVE  /\ claim'[k] \in ClaimRow /\ outbox'[k] \in OutboxRow
             /\ claim'[k].lane = claim[k].lane
             /\ claim'[k].delegation = claim[k].delegation
             /\ claim'[k].head = claim[k].head
             /\ claim'[k].released = claim[k].released
             /\ claim'[k].status = "RECOVERED"
             /\ claim'[k].token = lane[claim[k].lane].fence + 1
             /\ outbox'[k].token = claim'[k].token
             /\ outbox'[k].state = outbox[k].state
  <2>1. claim[k] \in ClaimRow /\ outbox[k] \in OutboxRow
    BY DEF TypeOK
  <2>2. NextToken(claim[k].lane) \in Nat
    BY <1>3, <1>4
  <2> DEFINE c == [claim[k] EXCEPT !.token = NextToken(claim[k].lane), !.expires = at + LeaseSeconds,
                                   !.heartbeat = at, !.status = "RECOVERED"]
             o == [outbox[k] EXCEPT !.token = NextToken(claim[k].lane)]
  <2>3. claim'[k] = c /\ outbox'[k] = o
    BY <1>1
  <2>4. /\ c \in ClaimRow
        /\ c.lane = claim[k].lane /\ c.delegation = claim[k].delegation
        /\ c.head = claim[k].head /\ c.released = claim[k].released
        /\ c.status = "RECOVERED" /\ c.token = NextToken(claim[k].lane)
    BY <1>5, <2>1, <2>2 DEF ClaimRow
  <2>5. o \in OutboxRow /\ o.state = outbox[k].state /\ o.token = NextToken(claim[k].lane)
    BY <2>1, <2>2 DEF OutboxRow
  <2> HIDE DEF c, o
  <2> QED
    BY <2>3, <2>4, <2>5 DEF NextToken
<1>8. \A k \in Keys \ R : claim'[k] = claim[k] /\ outbox'[k] = outbox[k]
  BY <1>1
<1>9. ASSUME NEW k \in R
      PROVE  /\ lane'[claim[k].lane] = ResumedLane(claim[k].lane, claim[k].delegation)
             /\ lane'[claim[k].lane].fence = lane[claim[k].lane].fence + 1
             /\ lane'[claim[k].lane].state = "CLAIMED"
  <2>1. (CHOOSE i \in Active(claim[k].lane) : TRUE) = k /\ Active(claim[k].lane) \cap R # {}
    BY <1>3
  <2>2. lane'[claim[k].lane] = ResumedLane(claim[k].lane, claim[k].delegation)
    BY <1>1, <1>3, <2>1
  <2> QED
    BY <2>2, <1>3, <1>6 DEF NextToken
<1>10. ASSUME NEW l \in Lanes
       PROVE  lane'[l] = lane[l] \/ \E k \in R : claim[k].lane = l
  BY <1>1 DEF Active
<1>11. TypeOK'
  <2>1. lane' \in [Lanes -> LaneRow]
    <3>1. \A l \in Lanes : lane'[l] \in LaneRow
      BY <1>3, <1>6, <1>9, <1>10 DEF TypeOK
    <3> QED
      BY <3>1, <1>1
  <2>2. claim' \in [Keys -> ClaimRow]
    BY <1>1, <1>7, <1>8 DEF TypeOK
  <2>3. outbox' \in [Keys -> OutboxRow]
    BY <1>1, <1>7, <1>8 DEF TypeOK
  <2> QED
    BY <1>1, <2>1, <2>2, <2>3 DEF TypeOK
<1>12. InPlace
  <2> SUFFICES ASSUME NEW k \in Keys
               PROVE  /\ claim'[k].lane = claim[k].lane
                      /\ claim'[k].delegation = claim[k].delegation
                      /\ claim'[k].head = claim[k].head
                      /\ claim'[k].released = claim[k].released
                      /\ \/ claim'[k].status = claim[k].status
                         \/ Live(k) /\ claim'[k].status \in {"RUNNING", "RECOVERED"}
                      /\ outbox'[k].state = outbox[k].state
    BY <1>1 DEF InPlace
  <2>1. CASE k \in R
    BY <2>1, <1>2, <1>7
  <2>2. CASE k \notin R
    BY <2>2, <1>8
  <2> QED
    BY <2>1, <2>2
<1>13. ASSUME NEW k \in Keys
       PROVE  Resumption(p, k)
  <2>1. CASE k \in R
    BY <2>1, <1>2, <1>7, <1>9 DEF Resumption
  <2>2. CASE k \notin R
    BY <2>2, <1>8 DEF Resumption
  <2> QED
    BY <2>1, <2>2
<1> QED
  BY <1>10, <1>11, <1>12, <1>13

\* A resumed claim has the newest fence of its lane, as it had before.
LEMMA ResumingKeeps ==
  ASSUME StoreInv, NEW p \in Workers, worker[p].clock \in Nat, Resuming(p)
  PROVE  StoreInv'
<1> DEFINE R == {k \in Keys : Recoverable(k, worker[p].clock)}
<1> USE DEF StoreInv, AgreementInv, ExclusionInv
<1>1. TypeOK' /\ InPlace /\ \A k \in Keys : Resumption(p, k)
  BY ResumingRows
<1>2. \A l \in Lanes : lane'[l] = lane[l] \/ \E k \in R : claim[k].lane = l
  BY ResumingRows
<1>3. \A k \in Keys : (Claimed(k)' <=> Claimed(k)) /\ (Live(k)' <=> Live(k))
  BY <1>1 DEF InPlace, Live, Claimed
<1>4. \A l \in Lanes : lane[l].fence \in Nat /\ lane'[l].fence \in Nat
  BY <1>1 DEF TypeOK, LaneRow
<1>5. \A k \in Keys : claim[k].token \in Nat /\ claim'[k].token \in Nat
  BY <1>1 DEF TypeOK, ClaimRow
<1>6. \A k \in R : /\ Claimed(k) /\ Live(k) /\ claim[k].lane \in Lanes
                   /\ Active(claim[k].lane) = {k}
                   /\ claim'[k].token = lane[claim[k].lane].fence + 1
                   /\ lane'[claim[k].lane].fence = claim'[k].token
                   /\ lane'[claim[k].lane].state = "CLAIMED"
  BY <1>1, LiveIsAlone DEF Resumption
<1>7. \A k \in Keys \ R : claim'[k] = claim[k]
  BY <1>1 DEF Resumption
<1> HIDE DEF R
<1>8. Placed'
  BY <1>1, <1>3 DEF Placed, InPlace
<1>9. TokensBelowFence'
  <2> SUFFICES ASSUME NEW k \in Keys, Claimed(k)'
               PROVE  claim'[k].token <= lane'[claim'[k].lane].fence
    BY DEF TokensBelowFence
  <2>1. Claimed(k) /\ claim'[k].lane = claim[k].lane /\ claim[k].lane \in Lanes
    BY <1>1, <1>3 DEF InPlace, Placed
  <2>2. claim[k].token <= lane[claim[k].lane].fence
    BY <2>1 DEF TokensBelowFence
  <2>3. CASE k \in R
    BY <2>1, <2>3, <1>5, <1>6
  <2>4. CASE k \notin R
    <3>1. lane'[claim[k].lane].fence >= lane[claim[k].lane].fence
      BY <2>1, <1>2, <1>4, <1>6
    <3> QED
      BY <2>1, <2>2, <2>4, <3>1, <1>4, <1>5, <1>7
  <2> QED
    BY <2>3, <2>4
<1>10. LaneExclusion'
  <2> SUFFICES ASSUME NEW j \in Keys, NEW k \in Keys, j # k, Claimed(j)',
                      claim'[j].lane = claim'[k].lane
               PROVE  ~(Live(j)' /\ Live(k)') /\ claim'[j].token # claim'[k].token
    BY DEF LaneExclusion, Claimed
  <2>1. Claimed(j) /\ claim[j].lane = claim[k].lane /\ claim[j].lane \in Lanes
    BY <1>1, <1>3 DEF InPlace, Placed
  <2>2. Claimed(k)
    BY <2>1, ConstantsAssumption DEF Placed
  <2>3. ~(Live(j) /\ Live(k)) /\ claim[j].token # claim[k].token
    BY <2>1 DEF LaneExclusion, Claimed
  <2>4. ~(Live(j)' /\ Live(k)')
    BY <2>3, <1>3
  <2>5. /\ claim[j].token <= lane[claim[j].lane].fence
        /\ claim[k].token <= lane[claim[j].lane].fence
    BY <2>1, <2>2 DEF TokensBelowFence
  <2>6. claim'[j].token # claim'[k].token
    <3>1. CASE j \in R
      <4>1. k \notin R
        BY <3>1, <2>3, <1>6
      <4> QED
        BY <3>1, <4>1, <2>1, <2>5, <1>4, <1>5, <1>6, <1>7
    <3>2. CASE j \notin R /\ k \in R
      BY <3>2, <2>1, <2>5, <1>4, <1>5, <1>6, <1>7
    <3>3. CASE j \notin R /\ k \notin R
      BY <3>3, <2>3, <1>7
    <3> QED
      BY <3>1, <3>2, <3>3
  <2> QED
    BY <2>4, <2>6
<1>11. AuditLiveClaim'
  <2> SUFFICES ASSUME NEW k \in Keys, Live(k)'
               PROVE  /\ lane'[claim'[k].lane].state = "CLAIMED"
                      /\ lane'[claim'[k].lane].fence = claim'[k].token
    BY DEF AuditLiveClaim
  <2>1. Live(k) /\ claim'[k].lane = claim[k].lane
    BY <1>1, <1>3 DEF InPlace
  <2>2. claim[k].lane \in Lanes /\ Active(claim[k].lane) = {k}
    BY <2>1, LiveIsAlone
  <2>3. CASE k \in R
    BY <2>1, <2>3, <1>6
  <2>4. CASE k \notin R
    <3>1. \A i \in R : claim[i].lane # claim[k].lane
      BY <2>2, <2>4, <1>6
    <3>2. lane'[claim[k].lane] = lane[claim[k].lane]
      BY <2>2, <3>1, <1>2
    <3> QED
      BY <2>1, <2>4, <3>2, <1>7 DEF AuditLiveClaim
  <2> QED
    BY <2>3, <2>4
<1>12. ExclusionInv'
  BY <1>1, <1>8, <1>9, <1>10
<1> QED
  BY <1>1, <1>11, <1>12, InPlaceAgrees

-----------------------------------------------------------------------------
(* What ties results, attempts and processes to the store *)

\* The result of a dispatch and its attempts: a result that may still be committed names
\* the last attempt, unless recovery took it from its owner; then every attempt is fenced,
\* and the executor is one that may be repeated.
ResultFits(k) ==
  LET r == result[k]
      rows == attempts[k]
  IN
  /\ ~Claimed(k) => r.state = "ABSENT"
  /\ r.state = "ABSENT" => r = NoResult /\ rows = <<>>
  /\ r.state \in {"RUNNING", "RESULT_READY"} /\ r.attempt # 0 =>
       r.attempt = Len(rows) /\ rows[r.attempt].generation = r.generation
  /\ r.state = "RUNNING" /\ r.attempt # 0 =>
       r.owner # NONE /\ rows[r.attempt].state = "RUNNING"
  /\ r.state = "RUNNING" /\ r.attempt = 0 =>
       /\ r.owner = NONE
       /\ k \in RetrySafe
       /\ \A i \in DOMAIN rows : rows[i].state = "FENCED" /\ rows[i].generation < r.generation
  /\ r.state = "RESULT_READY" => r.attempt # 0 /\ r.terminal \in {"COMPLETED", "BLOCKED"}

\* The attempts of one dispatch, as OneRunningAttempt and EffectAtMostOnce want them.
AttemptsFit(k) ==
  /\ \A i, j \in DOMAIN attempts[k] :
       i < j => /\ attempts[k][i].generation < attempts[k][j].generation
                /\ attempts[k][i].state = "FENCED"
  /\ k \notin RetrySafe => Len(attempts[k]) <= 1

\* The result of one dispatch and its claim, as ResultMatchesClaim wants them.
Matches(k) ==
  LET r == result[k] IN
  /\ r.state = "SUCCEEDED" => claim[k].status = "COMPLETED"
  /\ r.state = "FAILED" => claim[k].status = "BLOCKED"
  /\ claim[k].status \in {"COMPLETED", "BLOCKED"} =>
       /\ r.state \in {"RESULT_READY", "SUCCEEDED", "FAILED"}
       /\ r.terminal = claim[k].status

Holding(p) == worker[p].pc \in {"open", "acquire", "start", "dispatched", "run", "renew",
                                "stage", "commit", "finalize", "lost"}

\* What a process remembers: the leases it is to mark lost are STALE, the dispatch it holds
\* was claimed, it names no attempt before it acquired one, it reports something, what it goes
\* on to finalize was decided under its fence, and the running result it owns has the fence it
\* was opened with.
ProcessFits(p) ==
  LET w == worker[p] IN
  /\ \A k \in w.stale : claim[k].status = "STALE"
  /\ Holding(p) => w.dispatch \in Keys /\ Claimed(w.dispatch)
  /\ ~Holding(p) \/ w.pc \in {"open", "acquire"} => w.attempt = 0
  /\ w.pc \in {"renew", "stage"} => w.outcome \in {"COMPLETED", "BLOCKED"}
  /\ w.pc = "finalize" => /\ claim[w.dispatch].status \in {"COMPLETED", "BLOCKED"}
                          /\ claim[w.dispatch].token = w.token
  /\ Holding(p) /\ Owns(p) /\ result[w.dispatch].state = "RUNNING" =>
       w.token = result[w.dispatch].token

\* The inductive invariant of the processes.
WorkerInv ==
  /\ WorkerTypeOK
  /\ StoreInv
  /\ \A k \in Keys : Identified(k) /\ ResultFits(k) /\ AttemptsFit(k) /\ Matches(k)
  /\ \A p \in Workers : ProcessFits(p)

-----------------------------------------------------------------------------
(* Types *)

LEMMA ProcessTypes ==
  ASSUME WorkerTypeOK, NEW p \in Workers
  PROVE  /\ Resting \in Process /\ Ended \in Process
         /\ \A pc \in {"idle", "recover", "sweep", "mark_lost", "poll", "tick", "open", "acquire",
                       "start", "dispatched", "run", "renew", "stage", "commit", "finalize",
                       "lost", "dead"} : [worker[p] EXCEPT !.pc = pc] \in Process
<1>1. worker[p] \in Process
  BY DEF WorkerTypeOK
<1>2. Resting \in Process /\ Ended \in Process
  BY DEF Resting, Ended, Process, OrNone
<1> QED
  BY <1>1, <1>2 DEF Process

\* Every step leaves the processes well formed.
LEMMA WorkerType ==
  ASSUME WorkerTypeOK, [WorkerNext]_workerVars, \A p \in Workers : ProcessFits(p),
         \A k \in Keys : ResultFits(k)
  PROVE  worker' \in [Workers -> Process]
<1> DEFINE Good == worker' \in [Workers -> Process]
<1>0. worker \in [Workers -> Process] /\ now \in Nat /\ outbox \in [Keys -> OutboxRow]
      /\ result \in [Keys -> ResultRow]
  BY DEF WorkerTypeOK, TypeOK
<1>r. ASSUME NEW p \in Workers, NEW w \in Process, worker' = [worker EXCEPT ![p] = w]
      PROVE  Good
  BY <1>r, <1>0
<1>a. ASSUME NEW p \in Workers, Rest(p) \/ Die(p)
      PROVE  Good
  BY <1>a, <1>r, ProcessTypes DEF Rest, Die
<1>b. ASSUME NEW p \in Workers,
             NEW pc \in {"idle", "recover", "sweep", "mark_lost", "poll", "tick", "open", "acquire",
                         "start", "dispatched", "run", "renew", "stage", "commit", "finalize",
                         "lost", "dead"}, Go(p, pc)
      PROVE  Good
  <2>1. worker' = [worker EXCEPT ![p] = [worker[p] EXCEPT !.pc = pc]]
    BY <1>b, <1>0 DEF Go
  <2> QED
    BY <2>1, <1>r, ProcessTypes
<1>p. \A p \in Workers : worker[p] \in Process
  BY <1>0
<1>1. ASSUME NEW p \in Workers, Begin(p)
      PROVE  Good
  <2>1. [worker[p] EXCEPT !.pc = "recover", !.clock = now] \in Process
    BY <1>0, <1>p DEF Process
  <2>2. worker' = [worker EXCEPT ![p] = [worker[p] EXCEPT !.pc = "recover", !.clock = now]]
    BY <1>1, <1>0 DEF Begin
  <2> QED
    BY <2>1, <2>2, <1>r
<1>2. ASSUME NEW p \in Workers, RecoverLocalClaims(p)
      PROVE  Good
  BY <1>2, <1>a, <1>b DEF RecoverLocalClaims
<1>3. ASSUME NEW p \in Workers, Sweep(p)
      PROVE  Good
  <2> DEFINE stale == {k \in Keys : Abandoned(k, worker[p].clock) \/ Overdue(k, worker[p].clock)}
  <2>1. [worker[p] EXCEPT !.pc = "mark_lost", !.stale = stale] \in Process
    <3>1. stale \in SUBSET Keys
      OBVIOUS
    <3> HIDE DEF stale
    <3> QED
      BY <3>1, <1>p DEF Process
  <2>2. \/ Go(p, "poll")
        \/ worker' = [worker EXCEPT ![p] = [worker[p] EXCEPT !.pc = "mark_lost", !.stale = stale]]
    BY <1>3, <1>0 DEF Sweep
  <2> HIDE DEF stale
  <2> QED
    BY <2>1, <2>2, <1>r, <1>b
<1>4. ASSUME NEW p \in Workers, MarkLost(p)
      PROVE  Good
  <2>1. [worker[p] EXCEPT !.pc = "poll", !.stale = {}] \in Process
    BY <1>p DEF Process
  <2>2. worker' = [worker EXCEPT ![p] = [worker[p] EXCEPT !.pc = "poll", !.stale = {}]]
    BY <1>4, <1>0 DEF MarkLost
  <2> QED
    BY <2>1, <2>2, <1>r
<1>c. ASSUME NEW p \in Workers, NEW k \in Keys,
             worker' = [worker EXCEPT ![p].pc = "open", ![p].dispatch = k]
      PROVE  Good
  <2>1. [worker[p] EXCEPT !.pc = "open", !.dispatch = k] \in Process
    BY <1>p DEF Process, OrNone
  <2>2. worker' = [worker EXCEPT ![p] = [worker[p] EXCEPT !.pc = "open", !.dispatch = k]]
    BY <1>c, <1>0
  <2> QED
    BY <2>1, <2>2, <1>r
<1>5. ASSUME NEW p \in Workers, Poll(p)
      PROVE  Good
  <2>1. Oldest \subseteq Keys
    BY DEF Oldest, LiveDispatches
  <2> QED
    BY <1>5, <2>1, <1>b, <1>c DEF Poll
<1>6. ASSUME NEW p \in Workers, ScheduleClaim(p)
      PROVE  Good
  BY <1>6, <1>a, <1>c DEF ScheduleClaim
<1>7. ASSUME NEW p \in Workers, Open(p)
      PROVE  Good
  <2> DEFINE t == outbox[worker[p].dispatch].token
  <2>1. t \in Nat
    BY <1>7, <1>0 DEF Open, ProcessFits, Holding, OutboxRow
  <2>2. \A pc \in {"commit", "acquire"} : [worker[p] EXCEPT !.pc = pc, !.token = t] \in Process
    <3> HIDE DEF t
    <3> QED
      BY <2>1, <1>p DEF Process
  <2>3. \/ Rest(p) \/ Die(p)
        \/ \E pc \in {"commit", "acquire"} :
             worker' = [worker EXCEPT ![p] = [worker[p] EXCEPT !.pc = pc, !.token = t]]
    BY <1>7, <1>0 DEF Open
  <2> HIDE DEF t
  <2> QED
    BY <2>2, <2>3, <1>a, <1>r
<1>8. ASSUME NEW p \in Workers, Acquire(p)
      PROVE  Good
  <2>1. \/ Rest(p) \/ Die(p)
        \/ \E n \in Nat, g \in Nat :
             worker' = [worker EXCEPT ![p].pc = "start", ![p].attempt = n, ![p].generation = g]
    <3> DEFINE k == worker[p].dispatch
               r == result[k]
               fresh == IF r.state = "ABSENT"
                        THEN [NoResult EXCEPT !.state = "RUNNING", !.generation = 1,
                                              !.token = worker[p].token]
                        ELSE r
               mine == IF fresh.owner = p /\ fresh.attempt # 0 THEN fresh
                       ELSE [fresh EXCEPT !.owner = p, !.attempt = Len(attempts[k]) + 1]
    <3>1. k \in Keys
      BY <1>8 DEF Acquire, ProcessFits, Holding
    <3>2. r \in ResultRow /\ Len(attempts[k]) \in Nat /\ worker[p].token \in Nat
      BY <3>1, <1>0, <1>p DEF WorkerTypeOK, Process
    <3>3. fresh.attempt \in Nat /\ fresh.generation \in Nat
      BY <3>2 DEF ResultRow, NoResult
    <3>4. mine.attempt \in Nat /\ mine.generation \in Nat
      BY <3>2, <3>3 DEF ResultRow, NoResult
    <3>5. \/ Rest(p) \/ Die(p)
          \/ worker' = [worker EXCEPT ![p].pc = "start", ![p].attempt = mine.attempt,
                                      ![p].generation = mine.generation]
      BY <1>8 DEF Acquire
    <3> HIDE DEF mine
    <3> QED
      BY <3>4, <3>5
  <2>2. ASSUME NEW n \in Nat, NEW g \in Nat,
               worker' = [worker EXCEPT ![p].pc = "start", ![p].attempt = n, ![p].generation = g]
        PROVE  Good
    <3>1. [worker[p] EXCEPT !.pc = "start", !.attempt = n, !.generation = g] \in Process
      BY <1>p DEF Process
    <3>2. worker' = [worker EXCEPT ![p] =
                       [worker[p] EXCEPT !.pc = "start", !.attempt = n, !.generation = g]]
      BY <2>2, <1>0
    <3> QED
      BY <3>1, <3>2, <1>r
  <2> QED
    BY <2>1, <2>2, <1>a
<1>9. ASSUME NEW p \in Workers, Start(p) \/ Renew(p) \/ Dispatched(p) \/ Stage(p)
      PROVE  Good
  <2>1. Go(p, "dispatched") \/ Go(p, "lost") \/ Go(p, "stage") \/ Go(p, "run") \/ Go(p, "commit")
    BY <1>9 DEF Start, Renew, Renewing, Dispatched, Stage
  <2> QED
    BY <2>1, <1>b
<1>d. ASSUME NEW p \in Workers, NEW s \in {"COMPLETED", "BLOCKED"},
             worker' = [worker EXCEPT ![p].pc = "renew", ![p].clock = now, ![p].outcome = s]
      PROVE  Good
  <2>1. [worker[p] EXCEPT !.pc = "renew", !.clock = now, !.outcome = s] \in Process
    BY <1>0, <1>p DEF Process, OrNone
  <2>2. worker' = [worker EXCEPT ![p] =
                     [worker[p] EXCEPT !.pc = "renew", !.clock = now, !.outcome = s]]
    BY <1>d, <1>0
  <2> QED
    BY <2>1, <2>2, <1>r
<1>10. ASSUME NEW p \in Workers, Finish(p)
       PROVE  Good
  BY <1>10, <1>d DEF Finish
<1>11. ASSUME NEW p \in Workers, Commit(p)
       PROVE  Good
  <2> DEFINE k == worker[p].dispatch
             n == result[k].attempt
             g == result[k].generation
  <2>1. \/ Rest(p) \/ Die(p) \/ Go(p, "lost")
        \/ worker' = [worker EXCEPT ![p].pc = "renew", ![p].clock = now, ![p].outcome = "BLOCKED"]
        \/ worker' = [worker EXCEPT ![p].pc = "finalize", ![p].generation = g, ![p].attempt = n]
    BY <1>11 DEF Commit, RefusedCompletion
  <2>2. n \in Nat /\ g \in Nat
    BY <1>0, <1>11 DEF Commit, ProcessFits, Holding, ResultRow
  <2>3. ASSUME worker' = [worker EXCEPT ![p].pc = "finalize", ![p].generation = g, ![p].attempt = n]
        PROVE  Good
    <3>1. [worker[p] EXCEPT !.pc = "finalize", !.generation = g, !.attempt = n] \in Process
      <4> HIDE DEF n, g
      <4> QED
        BY <2>2, <1>p DEF Process
    <3>2. worker' = [worker EXCEPT ![p] =
                       [worker[p] EXCEPT !.pc = "finalize", !.generation = g, !.attempt = n]]
      BY <2>3, <1>0
    <3> HIDE DEF n, g
    <3> QED
      BY <3>1, <3>2, <1>r
  <2> HIDE DEF n, g
  <2> QED
    BY <2>1, <2>3, <1>a, <1>b, <1>d
<1>12. ASSUME NEW p \in Workers, Finalize(p) \/ RecordLost(p) \/ Crash(p) \/ StartProcess(p)
       PROVE  Good
  <2>1. Rest(p) \/ Die(p)
    BY <1>12 DEF Finalize, RecordLost, Crash, StartProcess
  <2> QED
    BY <2>1, <1>a
<1>13. ASSUME (\E p \in Workers : RenewInRun(p)) \/ Environment \/ UNCHANGED workerVars
       PROVE  Good
  BY <1>13, <1>0 DEF RenewInRun, Environment, workerVars
<1> QED
  BY <1>1, <1>2, <1>3, <1>4, <1>5, <1>6, <1>7, <1>8, <1>9, <1>10, <1>11, <1>12, <1>13
     DEF WorkerNext, Step

-----------------------------------------------------------------------------
(* One dispatch: its claim, its result and its attempts *)

KeyFits(k) == Identified(k) /\ ResultFits(k) /\ AttemptsFit(k) /\ Matches(k)

\* What every call of the store does to a claim: the dispatch keeps its fence, and what was
\* decided stays.
ClaimKept(k) ==
  /\ claim[k].status \in Decided => claim'[k] = claim[k]
  /\ Claimed(k) => Claimed(k)' /\ claim'[k].token = claim[k].token
  /\ outbox'[k].token = claim'[k].token

\* The rows of results that a step leaves alone.
SameResult(k) == result'[k] = result[k] /\ attempts'[k] = attempts[k]

\* A claim is decided only as its staged result says.
DecidedAsStaged(k) ==
  claim'[k].status \in {"COMPLETED", "BLOCKED"} =>
    \/ claim'[k].status = claim[k].status
    \/ result[k].state = "RESULT_READY" /\ result[k].terminal = claim'[k].status

LEMMA SameResultFits ==
  ASSUME NEW k \in Keys, KeyFits(k), SameResult(k), ClaimKept(k), DecidedAsStaged(k)
  PROVE  KeyFits(k)'
<1> USE DEF KeyFits
<1>1. Identified(k)'
  BY DEF Identified, ClaimKept, SameResult, ResultFits, Claimed
<1>2. ResultFits(k)'
  BY DEF ResultFits, SameResult, ClaimKept
<1>3. AttemptsFit(k)'
  BY DEF AttemptsFit, SameResult
<1>4. Matches(k)'
  BY DEF Matches, SameResult, ClaimKept, DecidedAsStaged, Decided
<1> QED
  BY <1>1, <1>2, <1>3, <1>4

\* Recovery resumes a dispatch: a running attempt is fenced, a staged result kept.
LEMMA ResumedFits ==
  ASSUME WorkerTypeOK, NEW k \in Keys, NEW t \in Nat, KeyFits(k),
         Live(k), Live(k)', claim'[k].status = "RECOVERED", claim'[k].token = t,
         outbox'[k].token = t, result[k].state \notin Final,
         result[k].state = "RUNNING" => k \in RetrySafe,
         result'[k] = Resumed(result[k], t),
         attempts'[k] = IF result[k].state = "RUNNING"
                        THEN Moved(attempts[k], result[k].attempt, "RUNNING", "FENCED")
                        ELSE attempts[k]
  PROVE  KeyFits(k)'
<1> USE DEF KeyFits
<1> DEFINE r == result[k]
           rows == attempts[k]
<1>1. r \in ResultRow /\ rows \in Seq(AttemptRow)
  BY DEF WorkerTypeOK
<1>2. DOMAIN rows = 1 .. Len(rows) /\ Len(rows) \in Nat
      /\ \A i \in DOMAIN rows : rows[i].generation \in Nat
  BY <1>1, RowsAreWellFormed
<1>3. CASE r.state = "RUNNING"
  <2>1. /\ result'[k].state = "RUNNING" /\ result'[k].token = t
        /\ result'[k].generation = r.generation + 1
        /\ result'[k].owner = NONE /\ result'[k].attempt = 0
    BY <1>1, <1>3 DEF Resumed, ResultRow
  <2>2. /\ attempts'[k] \in Seq(AttemptRow)
        /\ Len(attempts'[k]) = Len(rows)
        /\ \A i \in DOMAIN rows :
             /\ attempts'[k][i].generation = rows[i].generation
             /\ i # r.attempt \/ rows[i].state # "RUNNING" => attempts'[k][i] = rows[i]
             /\ i = r.attempt /\ rows[i].state = "RUNNING" => attempts'[k][i].state = "FENCED"
    BY <1>1, <1>3, MovedRows
  <2>3. DOMAIN attempts'[k] = DOMAIN rows
    BY <1>2, <2>2
  <2>4. \A i \in DOMAIN rows : attempts'[k][i].state = "FENCED" /\ rows[i].generation <= r.generation
    <3>1. CASE r.attempt = 0
      BY <3>1, <1>1, <1>2, <1>3, <2>2 DEF ResultFits, ResultRow
    <3>2. CASE r.attempt # 0
      <4>1. r.attempt = Len(rows) /\ rows[r.attempt].generation = r.generation
            /\ rows[r.attempt].state = "RUNNING"
        BY <3>2, <1>3 DEF ResultFits
      <4>2. \A i \in DOMAIN rows : i < Len(rows) =>
              rows[i].state = "FENCED" /\ rows[i].generation < r.generation
        <5>1. Len(rows) \in DOMAIN rows \/ DOMAIN rows = {}
          BY <1>2
        <5> QED
          BY <4>1, <5>1 DEF AttemptsFit
      <4> QED
        BY <4>1, <4>2, <1>1, <1>2, <2>2 DEF ResultRow
    <3> QED
      BY <3>1, <3>2
  <2>5. Identified(k)'
    BY <2>1 DEF Identified
  <2>6. ResultFits(k)'
    BY <2>1, <2>2, <2>3, <2>4, <1>1, <1>2, <1>3 DEF ResultFits, ResultRow, Claimed
  <2>7. AttemptsFit(k)'
    BY <2>2, <2>3, <2>4, <1>3 DEF AttemptsFit
  <2>8. Matches(k)'
    BY <2>1 DEF Matches
  <2> QED
    BY <2>5, <2>6, <2>7, <2>8
<1>4. CASE r.state = "RESULT_READY"
  <2>1. /\ result'[k].state = "RESULT_READY" /\ result'[k].token = t
        /\ result'[k].generation = r.generation
        /\ result'[k].attempt = r.attempt /\ result'[k].terminal = r.terminal
        /\ attempts'[k] = rows
    BY <1>1, <1>4 DEF Resumed, ResultRow
  <2>2. ResultFits(k)'
    BY <2>1, <1>4 DEF ResultFits, Claimed
  <2> QED
    BY <2>1, <2>2 DEF Identified, AttemptsFit, Matches
<1>5. CASE r.state = "ABSENT"
  <2>1. SameResult(k)
    BY <1>5 DEF Resumed, SameResult
  <2> QED
    BY <2>1, <1>5 DEF SameResult, Identified, ResultFits, AttemptsFit, Matches, Claimed
<1> QED
  BY <1>1, <1>3, <1>4, <1>5 DEF ResultRow, Final

\* A result that is lost: its attempt is fenced if it still ran.
LEMMA LostFits ==
  ASSUME WorkerTypeOK, NEW k \in Keys, KeyFits(k),
         UNCHANGED <<claim, outbox>>,
         claim[k].status \notin {"COMPLETED", "BLOCKED"},
         result'[k] = Lost(result[k]),
         attempts'[k] = IF result[k].state \in {"RUNNING", "RESULT_READY"}
                        THEN Moved(attempts[k], result[k].attempt, "RUNNING", "FENCED")
                        ELSE attempts[k]
  PROVE  KeyFits(k)'
<1> USE DEF KeyFits
<1> DEFINE r == result[k]
           rows == attempts[k]
<1>1. r \in ResultRow /\ rows \in Seq(AttemptRow)
  BY DEF WorkerTypeOK
<1>2. CASE r.state \in {"RUNNING", "RESULT_READY"}
  <2>1. result'[k].state = "AUTHORITY_LOST" /\ result'[k].token = r.token
    BY <1>1, <1>2 DEF Lost, ResultRow
  <2>2. /\ attempts'[k] \in Seq(AttemptRow)
        /\ Len(attempts'[k]) = Len(rows)
        /\ \A i \in DOMAIN rows :
             /\ attempts'[k][i].generation = rows[i].generation
             /\ i # r.attempt \/ rows[i].state # "RUNNING" => attempts'[k][i] = rows[i]
             /\ i = r.attempt /\ rows[i].state = "RUNNING" => attempts'[k][i].state = "FENCED"
    BY <1>1, <1>2, MovedRows
  <2>3. DOMAIN attempts'[k] = DOMAIN rows
    BY <1>1, <2>2
  <2>4. AttemptsFit(k)'
    BY <2>2, <2>3 DEF AttemptsFit
  <2>5. Identified(k)' /\ ResultFits(k)' /\ Matches(k)'
    BY <2>1, <1>2 DEF Identified, ResultFits, Matches, Claimed
  <2> QED
    BY <2>4, <2>5
<1>3. CASE r.state \notin {"RUNNING", "RESULT_READY"}
  <2>1. SameResult(k)
    BY <1>3 DEF Lost, SameResult
  <2> QED
    BY <2>1 DEF SameResult, Identified, ResultFits, AttemptsFit, Matches, Claimed
<1> QED
  BY <1>2, <1>3

\* A staged result keeps its attempt and says what will be reported.
LEMMA StagedFits ==
  ASSUME WorkerTypeOK, NEW k \in Keys, KeyFits(k), NEW s \in {"COMPLETED", "BLOCKED"},
         UNCHANGED <<claim, outbox>>, Live(k), ReleasedIsHandedOver,
         result[k].state = "RUNNING", result[k].owner # NONE,
         result' = [result EXCEPT ![k].state = "RESULT_READY", ![k].terminal = s],
         attempts' = [attempts EXCEPT ![k] =
           Moved(@, result[k].attempt, "RUNNING", "RESULT_READY")]
  PROVE  KeyFits(k)'
<1> USE DEF KeyFits
<1> DEFINE r == result[k]
           rows == attempts[k]
<1>1. r \in ResultRow /\ rows \in Seq(AttemptRow)
  BY DEF WorkerTypeOK
<1>2. /\ result'[k].state = "RESULT_READY" /\ result'[k].terminal = s
      /\ result'[k].token = r.token /\ result'[k].attempt = r.attempt
      /\ result'[k].generation = r.generation
  BY DEF WorkerTypeOK, ResultRow
<1>3. attempts'[k] = Moved(rows, r.attempt, "RUNNING", "RESULT_READY")
  BY DEF WorkerTypeOK
<1>4. /\ attempts'[k] \in Seq(AttemptRow)
      /\ Len(attempts'[k]) = Len(rows)
      /\ \A i \in DOMAIN rows :
           /\ attempts'[k][i].generation = rows[i].generation
           /\ i # r.attempt \/ rows[i].state # "RUNNING" => attempts'[k][i] = rows[i]
  BY <1>1, <1>3, MovedRows
<1>5. DOMAIN attempts'[k] = DOMAIN rows
  BY <1>1, <1>4
<1>6. r.attempt # 0 /\ r.attempt = Len(rows) /\ rows[r.attempt].generation = r.generation
  BY DEF ResultFits
<1>7. r.attempt \in DOMAIN rows
  BY <1>1, <1>6, RowsAreWellFormed
<1>8. Identified(k)'
  BY <1>2 DEF Identified
<1>9. ResultFits(k)'
  BY <1>2, <1>4, <1>6, <1>7 DEF ResultFits, Live, Claimed
<1>10. AttemptsFit(k)'
  BY <1>4, <1>5 DEF AttemptsFit
<1>11. Matches(k)'
  BY <1>2 DEF Matches, ReleasedIsHandedOver, Live, Claimed
<1> QED
  BY <1>8, <1>9, <1>10, <1>11

\* A finalized result says what its claim says.
LEMMA FinalizedFits ==
  ASSUME WorkerTypeOK, NEW k \in Keys, KeyFits(k), NEW n,
         UNCHANGED <<claim, outbox>>,
         claim[k].status \in {"COMPLETED", "BLOCKED"}, result[k].state = "RESULT_READY",
         NEW final, final = IF result[k].terminal = "COMPLETED" THEN "SUCCEEDED" ELSE "FAILED",
         result' = [result EXCEPT ![k].state = final, ![k].owner = NONE],
         attempts' = [attempts EXCEPT ![k] = Moved(@, n, "RESULT_READY", final)]
  PROVE  KeyFits(k)'
<1> USE DEF KeyFits
<1> DEFINE r == result[k]
           rows == attempts[k]
<1>1. r \in ResultRow /\ rows \in Seq(AttemptRow) /\ final \in {"SUCCEEDED", "FAILED"}
  BY DEF WorkerTypeOK
<1>2. /\ result'[k].state = final /\ result'[k].terminal = r.terminal
      /\ result'[k].token = r.token
  BY DEF WorkerTypeOK, ResultRow
<1>3. attempts'[k] = Moved(rows, n, "RESULT_READY", final)
  BY DEF WorkerTypeOK
<1>4. /\ attempts'[k] \in Seq(AttemptRow)
      /\ Len(attempts'[k]) = Len(rows)
      /\ \A i \in DOMAIN rows :
           /\ attempts'[k][i].generation = rows[i].generation
           /\ rows[i].state # "RESULT_READY" => attempts'[k][i] = rows[i]
  BY <1>1, <1>3, MovedRows
<1>5. DOMAIN attempts'[k] = DOMAIN rows
  BY <1>1, <1>4
<1>6. Identified(k)'
  BY <1>2 DEF Identified
<1>7. ResultFits(k)'
  BY <1>1, <1>2 DEF ResultFits, Claimed
<1>8. AttemptsFit(k)'
  BY <1>4, <1>5 DEF AttemptsFit
<1>9. Matches(k)'
  BY <1>1, <1>2 DEF Matches
<1> QED
  BY <1>6, <1>7, <1>8, <1>9

\* What an owner writes when it acquires a dispatch.
Opened(r, t) == IF r.state = "ABSENT"
                THEN [NoResult EXCEPT !.state = "RUNNING", !.generation = 1, !.token = t]
                ELSE r
Taken(r, p, n) == IF r.owner = p /\ r.attempt # 0 THEN r
                  ELSE [r EXCEPT !.owner = p, !.attempt = n + 1]

LEMMA TakenRow ==
  ASSUME WorkerTypeOK, NEW k \in Keys, KeyFits(k), NEW p \in Workers, NEW t \in Nat,
         ~Busy(p, result[k])
  PROVE  /\ Opened(result[k], t) \in ResultRow
         /\ Taken(Opened(result[k], t), p, Len(attempts[k])) \in ResultRow
         /\ Taken(Opened(result[k], t), p, Len(attempts[k])).state = "RUNNING"
         /\ Taken(Opened(result[k], t), p, Len(attempts[k])).owner = p
         /\ Taken(Opened(result[k], t), p, Len(attempts[k])).token
              = IF result[k].state = "ABSENT" THEN t ELSE result[k].token
<1> DEFINE f == Opened(result[k], t)
<1>1. result[k] \in ResultRow /\ Len(attempts[k]) + 1 \in Nat
  BY DEF WorkerTypeOK
<1>2. result[k].state \in {"ABSENT", "RUNNING"}
  BY <1>1 DEF Busy, ResultRow, Final
<1>3. /\ f \in ResultRow /\ f.state = "RUNNING"
      /\ f.token = IF result[k].state = "ABSENT" THEN t ELSE result[k].token
  BY <1>1, <1>2 DEF Opened, NoResult, ResultRow, OrNone
<1> HIDE DEF f
<1>4. /\ Taken(f, p, Len(attempts[k])) \in ResultRow
      /\ Taken(f, p, Len(attempts[k])).state = "RUNNING"
      /\ Taken(f, p, Len(attempts[k])).owner = p
      /\ Taken(f, p, Len(attempts[k])).token = f.token
  BY <1>1, <1>3 DEF Taken, ResultRow, OrNone
<1> QED
  BY <1>3, <1>4 DEF f

\* An acquired dispatch has a new attempt, the first or one that may follow fenced ones.
LEMMA AcquiredFits ==
  ASSUME WorkerTypeOK, NEW k \in Keys, KeyFits(k), NEW p \in Workers, NEW t,
         UNCHANGED <<claim, outbox>>, Live(k), ReleasedIsHandedOver, t = claim[k].token,
         ~Busy(p, result[k]),
         NEW mine, mine = Taken(Opened(result[k], t), p, Len(attempts[k])),
         result' = [result EXCEPT ![k] = mine],
         attempts' = [attempts EXCEPT ![k] =
           IF mine = Opened(result[k], t) THEN @
           ELSE Append(@, [generation |-> mine.generation, state |-> "RUNNING"])]
  PROVE  KeyFits(k)' /\ result'[k].token = t
<1> USE DEF KeyFits
<1> DEFINE r == result[k]
           rows == attempts[k]
           f == Opened(r, t)
           n == Len(rows)
<1>1. r \in ResultRow /\ rows \in Seq(AttemptRow) /\ n \in Nat /\ p # NONE /\ t \in Nat
  BY WorkerAssumption DEF WorkerTypeOK, TypeOK, ClaimRow
<1>2. /\ f \in ResultRow /\ mine \in ResultRow
      /\ mine.state = "RUNNING" /\ mine.owner = p /\ mine.token = t
  BY <1>1, TakenRow DEF Identified
<1>3. result'[k] = mine
  BY DEF WorkerTypeOK
<1>4. claim[k].status \notin {"COMPLETED", "BLOCKED", "ABSENT"}
  BY DEF ReleasedIsHandedOver, Live, Claimed
<1>5. Identified(k)' /\ Matches(k)'
  BY <1>2, <1>3, <1>4 DEF Identified, Matches
<1>6. r.state \in {"ABSENT", "RUNNING"}
  BY <1>1 DEF Busy, ResultRow, Final
<1>7. CASE mine = f
  <2>1. r.state = "RUNNING" /\ mine = r
    <3>1. CASE r.state = "ABSENT"
      BY <3>1, <1>1, <1>2, <1>7 DEF Opened, NoResult
    <3> QED
      BY <3>1, <1>6, <1>7 DEF Opened
  <2>2. SameResult(k)
    BY <1>3, <1>7, <2>1 DEF WorkerTypeOK, SameResult
  <2> QED
    BY <1>2, <1>3, <1>5, <2>2 DEF SameResult, ResultFits, AttemptsFit, Claimed
<1>8. CASE mine # f
  <2>1. mine = [f EXCEPT !.owner = p, !.attempt = n + 1] /\ ~(f.owner = p /\ f.attempt # 0)
    BY <1>8 DEF Taken
  <2>2. mine.attempt = n + 1 /\ mine.generation = f.generation
    BY <1>2, <2>1 DEF ResultRow
  <2> DEFINE row == [generation |-> mine.generation, state |-> "RUNNING"]
  <2>3. row \in AttemptRow
    BY <1>2 DEF ResultRow, AttemptRow
  <2>4. attempts'[k] = Append(rows, row)
    BY <1>8 DEF WorkerTypeOK
  <2>5. /\ attempts'[k] \in Seq(AttemptRow)
        /\ Len(attempts'[k]) = n + 1
        /\ \A i \in 1 .. n : attempts'[k][i] = rows[i]
        /\ attempts'[k][n + 1] = row
    <3> HIDE DEF row
    <3> QED
      BY <1>1, <2>3, <2>4, AppendProperties
  <2>6. row.state = "RUNNING" /\ row.generation = mine.generation
    OBVIOUS
  <2>7. /\ \A i \in 1 .. n : rows[i].state = "FENCED" /\ rows[i].generation < f.generation
        /\ k \notin RetrySafe => n = 0
    <3>1. CASE r.state = "ABSENT"
      <4>1. rows = <<>>
        BY <3>1 DEF ResultFits
      <4> QED
        BY <4>1
    <3>2. CASE r.state = "RUNNING"
      <4>1. f = r
        BY <3>2 DEF Opened
      <4>2. r.attempt = 0
        <5>1. r.owner = NONE \/ r.owner = p
          BY DEF Busy
        <5> QED
          BY <3>2, <4>1, <5>1, <2>1 DEF ResultFits
      <4> QED
        BY <1>1, <3>2, <4>1, <4>2, RowsAreWellFormed DEF ResultFits
    <3> QED
      BY <3>1, <3>2, <1>6
  <2> HIDE DEF row
  <2>8. DOMAIN attempts'[k] = 1 .. (n + 1) /\ DOMAIN rows = 1 .. n
    BY <1>1, <2>5, RowsAreWellFormed
  <2>9. ResultFits(k)'
    BY <1>1, <1>2, <1>3, <1>4, <2>2, <2>5, <2>6 DEF ResultFits, Claimed
  <2>10. AttemptsFit(k)'
    <3>1. k \notin RetrySafe => Len(attempts'[k]) <= 1
      BY <1>1, <2>5, <2>7
    <3> SUFFICES ASSUME NEW i \in 1 .. (n + 1), NEW j \in 1 .. (n + 1), i < j
                 PROVE  /\ attempts'[k][i].generation < attempts'[k][j].generation
                        /\ attempts'[k][i].state = "FENCED"
      BY <2>8, <3>1 DEF AttemptsFit
    <3>2. i \in 1 .. n
      BY <1>1
    <3>3. CASE j = n + 1
      BY <2>2, <2>5, <2>6, <2>7, <3>2, <3>3
    <3>4. CASE j # n + 1
      <4>1. j \in 1 .. n
        BY <1>1, <3>4
      <4> QED
        BY <2>5, <2>8, <3>2, <4>1 DEF AttemptsFit
    <3> QED
      BY <3>3, <3>4
  <2> QED
    BY <1>2, <1>3, <1>5, <2>9, <2>10
<1> QED
  BY <1>7, <1>8

-----------------------------------------------------------------------------
(* The calls, seen from one dispatch *)

\* A call moves the fence of a dispatch only with a grant.
LEMMA CallsKeepFences ==
  ASSUME TypeOK, StoreCall, NEW k \in Keys
  PROVE  Granting \/ outbox'[k].token = outbox[k].token
<1> USE DEF TypeOK
<1>1. /\ outbox[k] \in OutboxRow
      /\ ReleasedDispatch(outbox[k]).token = outbox[k].token
      /\ [outbox[k] EXCEPT !.state = "CANCELLED"].token = outbox[k].token
  BY DEF ReleasedDispatch, OutboxRow
<1>2. CASE \E l \in Lanes, h \in Heads : InvalidateHead(l, h)
  BY <1>1, <1>2 DEF InvalidateHead
<1>3. CASE \E l \in Lanes, h \in Heads : RegisterLane(l, h)
  BY <1>2, <1>3 DEF RegisterLane
<1>4. CASE (\E l \in Lanes, d \in Delegations, h \in Heads, j \in BOOLEAN : BindReady(l, d, h, j))
           \/ Tick
  BY <1>4 DEF BindReady, Tick
<1>5. CASE \E i \in Keys, r \in Runs : MarkDispatched(i, r)
  BY <1>1, <1>5 DEF MarkDispatched, Acknowledged, OutboxRow
<1>6. CASE \E i \in Keys, t \in Issued, s \in {"COMPLETED", "BLOCKED"}, at \in Nat :
             Terminal(i, t, s, at)
  BY <1>1, <1>6 DEF Terminal
<1>7. CASE \E at \in Nat : Recover(at)
  BY <1>1, <1>7 DEF Recover
<1> QED
  BY <1>3, <1>4, <1>5, <1>6, <1>7 DEF StoreCall, QuietCall, Granting

LEMMA CallsKeepClaims ==
  ASSUME StoreInv, StoreCall, NEW k \in Keys, Identified(k)
  PROVE  ClaimKept(k)
<1> USE DEF StoreInv, AgreementInv, ExclusionInv
<1>1. AnyStep
  BY CallsAreSteps
<1>2. claim[k].status \in Decided => claim'[k] = claim[k]
  BY <1>1, RowsStep DEF KeepsOutcomes
<1>3. Claimed(k) => Claimed(k)' /\ claim'[k].token = claim[k].token
  BY <1>1, ClaimsPersist DEF Persists, Claimed
<1>4. outbox'[k].token = claim'[k].token
  <2>1. CASE Granting
    <3>1. PICK l \in Lanes, d \in Delegations, h \in Heads, i \in Keys, term \in Nat, at \in Nat :
                 ClaimReady(l, d, h, i, term, at)
      BY <2>1 DEF Granting
    <3> QED
      BY <3>1, GrantEffect DEF Identified
  <2>2. CASE ~Granting
    BY <2>2, <1>1, <1>3, CallsKeepFences, ClaimsPersist DEF Identified
  <2> QED
    BY <2>1, <2>2
<1> QED
  BY <1>2, <1>3, <1>4 DEF ClaimKept

\* Only a worker's report decides.
LEMMA QuietCallsDecideNothing ==
  ASSUME StoreInv, QuietCall, NEW k \in Keys
  PROVE  claim'[k].status \in {"COMPLETED", "BLOCKED"} => claim'[k] = claim[k]
<1> USE DEF StoreInv, AgreementInv, ExclusionInv, TypeOK
<1>1. Stale(claim[k]).status = "STALE"
  BY StaleKeeps
<1>2. CASE \E l \in Lanes, h \in Heads : InvalidateHead(l, h)
  BY <1>1, <1>2 DEF InvalidateHead
<1>3. CASE \E l \in Lanes, h \in Heads : RegisterLane(l, h)
  BY <1>2, <1>3 DEF RegisterLane
<1>4. CASE \E l \in Lanes, d \in Delegations, h \in Heads, i \in Keys, term \in Nat, at \in Nat :
             ClaimReady(l, d, h, i, term, at)
  <2>1. PICK l \in Lanes, d \in Delegations, h \in Heads, i \in Keys, term \in Nat, at \in Nat :
               ClaimReady(l, d, h, i, term, at)
    BY <1>4
  <2> QED
    BY <2>1, GrantEffect
<1>5. CASE \E at \in Nat : Recover(at)
  BY <1>1, <1>5 DEF Recover
<1>6. CASE (\E l \in Lanes, d \in Delegations, h \in Heads, j \in BOOLEAN : BindReady(l, d, h, j))
           \/ (\E i \in Keys, r \in Runs : MarkDispatched(i, r)) \/ Tick
  BY <1>6 DEF BindReady, MarkDispatched, Tick
<1> QED
  BY <1>3, <1>4, <1>5, <1>6 DEF QuietCall

-----------------------------------------------------------------------------
(* The processes that do not move *)

\* What every step does to a claim, resumptions included.
ClaimStays(k) ==
  /\ claim[k].status \in Decided => claim'[k] = claim[k]
  /\ Claimed(k) => Claimed(k)'

\* A process is given no running result by a step.
OwnersStay(p) ==
  \A k \in Keys : result'[k].state = "RUNNING" /\ result'[k].owner = p => result'[k] = result[k]

\* A process whose dispatch, fence and attempt stay what they are goes on remembering the
\* truth, whoever takes the step.
LEMMA GoingOnFits ==
  ASSUME WorkerTypeOK, NEW p \in Workers, ProcessFits(p),
         \A k \in Keys : ClaimStays(k), OwnersStay(p),
         worker'[p].stale = worker[p].stale, worker'[p].dispatch = worker[p].dispatch,
         worker'[p].token = worker[p].token, worker'[p].attempt = worker[p].attempt,
         worker'[p].generation = worker[p].generation,
         \/ worker'[p].pc = worker[p].pc /\ worker'[p].outcome = worker[p].outcome
         \/ /\ Holding(p) /\ worker[p].pc \notin {"open", "acquire"}
            /\ worker'[p].pc \in {"dispatched", "run", "renew", "stage", "commit", "lost"}
            /\ worker'[p].pc \in {"renew", "stage"} =>
                 worker'[p].outcome \in {"COMPLETED", "BLOCKED"}
  PROVE  ProcessFits(p)'
<1> USE DEF Holding
<1>1. worker[p] \in Process
  BY DEF WorkerTypeOK
<1>2. \A k \in worker'[p].stale : claim'[k].status = "STALE"
  BY <1>1 DEF ProcessFits, ClaimStays, Decided, Process
<1>3. Holding(p)' => worker'[p].dispatch \in Keys /\ claim'[worker'[p].dispatch].status # "ABSENT"
  BY DEF ProcessFits, ClaimStays, Claimed
<1>4. ~Holding(p)' \/ worker'[p].pc \in {"open", "acquire"} => worker'[p].attempt = 0
  BY DEF ProcessFits
<1>5. worker'[p].pc = "finalize" => /\ claim'[worker'[p].dispatch].status \in {"COMPLETED", "BLOCKED"}
                                    /\ claim'[worker'[p].dispatch].token = worker'[p].token
  BY DEF ProcessFits, ClaimStays, Decided
<1>7. worker'[p].pc \in {"renew", "stage"} =>
                 worker'[p].outcome \in {"COMPLETED", "BLOCKED"}
  BY DEF ProcessFits
<1>6. Holding(p)' /\ Owns(p)' /\ result'[worker'[p].dispatch].state = "RUNNING" =>
        worker'[p].token = result'[worker'[p].dispatch].token
  <2> SUFFICES ASSUME Holding(p)', Owns(p)', result'[worker'[p].dispatch].state = "RUNNING"
               PROVE  worker'[p].token = result'[worker'[p].dispatch].token
    OBVIOUS
  <2>1. Holding(p) /\ worker[p].dispatch \in Keys
    BY DEF ProcessFits
  <2>2. result'[worker[p].dispatch] = result[worker[p].dispatch]
    BY <2>1 DEF Owns, OwnersStay
  <2>3. Owns(p)
    BY <2>2 DEF Owns
  <2> QED
    BY <2>1, <2>2, <2>3 DEF ProcessFits
<1> QED
  BY <1>2, <1>3, <1>4, <1>5, <1>6, <1>7 DEF ProcessFits, Claimed

\* A process that starts over or ends remembers nothing.
LEMMA RestingFits ==
  ASSUME WorkerTypeOK, NEW p \in Workers, Rest(p) \/ Die(p)
  PROVE  ProcessFits(p)' /\ \A q \in Workers \ {p} : worker'[q] = worker[q]
<1>1. worker'[p] \in {Resting, Ended}
  BY DEF Rest, Die, WorkerTypeOK
<1>2. worker'[p].pc \in {"idle", "dead"} /\ worker'[p].stale = {} /\ worker'[p].attempt = 0
  BY <1>1 DEF Resting, Ended
<1> QED
  BY <1>2 DEF ProcessFits, Holding, Rest, Die, WorkerTypeOK

\* A step that leaves results alone and calls nothing that decides.
LEMMA QuietStepFits ==
  ASSUME WorkerInv, UNCHANGED <<result, attempts>>, QuietCall \/ UNCHANGED <<storeVars, now>>,
         \A q \in Workers : worker'[q] = worker[q] \/ ProcessFits(q)'
  PROVE  /\ StoreInv' /\ TypeOK'
         /\ \A k \in Keys : KeyFits(k)'
         /\ \A q \in Workers : ProcessFits(q)'
<1> USE DEF WorkerInv
<1>1. StoreInv' /\ TypeOK'
  <2>1. CASE QuietCall
    BY <2>1, CallsKeepTheAudit DEF StoreCall, StoreInv, AgreementInv, ExclusionInv
  <2>2. CASE UNCHANGED <<storeVars, now>>
    <3>1. UNCHANGED vars
      BY <2>2 DEF storeVars, vars
    <3>2. AgreementInv'
      BY <3>1, AgreementStep DEF StoreInv
    <3>3. NoCandidates' /\ AuditLiveClaim'
      BY <3>1 DEF vars, StoreInv, NoCandidates, AuditLiveClaim, Live
    <3> QED
      BY <3>2, <3>3 DEF StoreInv, AgreementInv, ExclusionInv
  <2> QED
    BY <2>1, <2>2
<1>2. ASSUME NEW k \in Keys
      PROVE  ClaimKept(k) /\ DecidedAsStaged(k)
  <2>1. CASE QuietCall
    BY <2>1, CallsKeepClaims, QuietCallsDecideNothing DEF StoreCall, DecidedAsStaged
  <2>2. CASE UNCHANGED <<storeVars, now>>
    BY <2>2 DEF storeVars, ClaimKept, DecidedAsStaged, Identified, Claimed
  <2> QED
    BY <2>1, <2>2
<1>3. ASSUME NEW k \in Keys
      PROVE  KeyFits(k)'
  BY <1>2, SameResultFits DEF KeyFits, SameResult
<1>4. ASSUME NEW q \in Workers, worker'[q] = worker[q]
      PROVE  ProcessFits(q)'
  BY <1>2, <1>4, GoingOnFits DEF ClaimKept, ClaimStays, OwnersStay
<1> QED
  BY <1>1, <1>3, <1>4

\* A process that holds no dispatch remembers only what it is to mark lost.
LEMMA UnengagedFits ==
  ASSUME NEW p \in Workers,
         worker'[p].pc \in {"recover", "sweep", "mark_lost", "poll", "tick"},
         worker'[p].attempt = 0,
         \A k \in worker'[p].stale : claim'[k].status = "STALE"
  PROVE  ProcessFits(p)'
BY DEF ProcessFits, Holding

\* A process that has just opened a dispatch has no attempt of it yet, so it owns none.
LEMMA OpeningFits ==
  ASSUME WorkerInv, NEW p \in Workers, UNCHANGED <<result, attempts>>,
         \A k \in Keys : ClaimKept(k),
         worker[p].attempt = 0, worker'[p].attempt = 0, worker'[p].stale = worker[p].stale,
         worker'[p].dispatch \in Keys, claim'[worker'[p].dispatch].status # "ABSENT",
         \/ worker'[p].pc \in {"open", "acquire"}
         \/ worker'[p].pc = "commit" /\ result[worker'[p].dispatch].state = "RESULT_READY"
  PROVE  ProcessFits(p)'
<1> USE DEF WorkerInv, Holding
<1>0. worker[p].stale \subseteq Keys
  BY DEF WorkerTypeOK, Process
<1>1. \A k \in worker'[p].stale : claim'[k].status = "STALE"
  BY <1>0 DEF ProcessFits, ClaimKept, Decided
<1>2. ~(Owns(p)' /\ result'[worker'[p].dispatch].state = "RUNNING")
  <2> SUFFICES ASSUME Owns(p)', result'[worker'[p].dispatch].state = "RUNNING"
               PROVE  FALSE
    OBVIOUS
  <2> DEFINE k == worker'[p].dispatch
  <2>1. result[k].state = "RUNNING" /\ result[k].owner = p /\ result[k].attempt = 0
    BY DEF Owns
  <2>2. p # NONE
    BY WorkerAssumption
  <2>3. ResultFits(k)
    OBVIOUS
  <2> HIDE DEF k
  <2> QED
    BY <2>1, <2>2, <2>3 DEF ResultFits
<1> QED
  BY <1>1, <1>2 DEF ProcessFits, Claimed

\* What has to be shown of each action.
Kept ==
  /\ StoreInv' /\ TypeOK'
  /\ result' \in [Keys -> ResultRow] /\ attempts' \in [Keys -> Seq(AttemptRow)]
  /\ \A k \in Keys : KeyFits(k)'
  /\ \A q \in Workers : ProcessFits(q)'

LEMMA QuietlyKept ==
  ASSUME WorkerInv, UNCHANGED <<result, attempts>>, QuietCall \/ UNCHANGED <<storeVars, now>>,
         \A q \in Workers : worker'[q] = worker[q] \/ ProcessFits(q)'
  PROVE  Kept
BY QuietStepFits DEF Kept, WorkerInv, WorkerTypeOK

\* A process moves and nothing else does.
LEMMA MovingKept ==
  ASSUME WorkerInv, NEW p \in Workers, UNCHANGED <<storeVars, now, result, attempts>>,
         \A q \in Workers \ {p} : worker'[q] = worker[q],
         ProcessFits(p)'
  PROVE  Kept
BY QuietlyKept

LEMMA QuietClaims ==
  ASSUME WorkerInv, QuietCall \/ UNCHANGED <<storeVars, now>>
  PROVE  \A k \in Keys : ClaimKept(k)
<1> USE DEF WorkerInv
<1>1. CASE QuietCall
  BY <1>1, CallsKeepClaims DEF StoreCall
<1>2. CASE UNCHANGED <<storeVars, now>>
  BY <1>2 DEF storeVars, ClaimKept, Identified, Claimed
<1> QED
  BY <1>1, <1>2

-----------------------------------------------------------------------------
(* The actions before execution *)

LEMMA BeginKeeps ==
  ASSUME WorkerInv, NEW p \in Workers, Begin(p)
  PROVE  Kept
<1>1. /\ worker'[p].pc = "recover" /\ worker'[p].stale = worker[p].stale
      /\ worker'[p].attempt = worker[p].attempt
      /\ \A q \in Workers \ {p} : worker'[q] = worker[q]
  BY DEF Begin, WorkerInv, WorkerTypeOK, Process
<1>2. ProcessFits(p) /\ ~Holding(p)
  BY DEF WorkerInv, Begin, Holding
<1>3. claim' = claim /\ worker[p].attempt = 0 /\ \A k \in worker[p].stale : claim[k].status = "STALE"
  BY <1>2 DEF Begin, storeVars, ProcessFits
<1>4. ProcessFits(p)'
  BY <1>1, <1>3, UnengagedFits
<1> QED
  BY <1>1, <1>4, MovingKept DEF Begin

\* Going on from one transaction of recovery to the next.
LEMMA UnengagedGoes ==
  ASSUME WorkerInv, NEW p \in Workers, NEW pc \in {"sweep", "poll", "tick"}, Go(p, pc), ~Holding(p),
         UNCHANGED claim
  PROVE  ProcessFits(p)' /\ \A q \in Workers \ {p} : worker'[q] = worker[q]
<1>1. /\ worker'[p].pc = pc /\ worker'[p].stale = worker[p].stale
      /\ worker'[p].attempt = worker[p].attempt
      /\ \A q \in Workers \ {p} : worker'[q] = worker[q]
  BY DEF Go, WorkerInv, WorkerTypeOK, Process
<1> QED
  BY <1>1, UnengagedFits DEF WorkerInv, ProcessFits

LEMMA SweepKeeps ==
  ASSUME WorkerInv, NEW p \in Workers, Sweep(p)
  PROVE  Kept
<1> USE DEF WorkerInv
<1> DEFINE at == worker[p].clock
           stale == {k \in Keys : Abandoned(k, at) \/ Overdue(k, at)}
<1>1. CASE stale = {}
  BY <1>1, UnengagedGoes, MovingKept DEF Sweep, storeVars, Holding
<1>2. CASE stale # {}
  <2>1. /\ Recover(at)
        /\ worker' = [worker EXCEPT ![p].pc = "mark_lost", ![p].stale = stale]
        /\ UNCHANGED <<result, attempts>>
    BY <1>2 DEF Sweep
  <2>2. at \in Nat
    BY DEF WorkerTypeOK, Process
  <2>3. QuietCall
    BY <2>1, <2>2 DEF QuietCall
  <2>4. \A k \in stale : claim'[k].status = "STALE"
    <3>1. \A k \in Keys : Stale(claim[k]).status = "STALE"
      BY StaleKeeps DEF WorkerTypeOK, TypeOK
    <3> QED
      BY <2>1, <3>1 DEF Recover
  <2> HIDE DEF stale
  <2>5. /\ worker'[p].pc = "mark_lost" /\ worker'[p].stale = stale
        /\ worker'[p].attempt = worker[p].attempt
        /\ \A q \in Workers \ {p} : worker'[q] = worker[q]
    BY <2>1 DEF WorkerTypeOK, Process
  <2>6. worker[p].attempt = 0
    BY DEF Sweep, ProcessFits, Holding
  <2>7. ProcessFits(p)'
    BY <2>4, <2>5, <2>6, UnengagedFits
  <2> QED
    BY <2>1, <2>3, <2>5, <2>7, QuietlyKept
<1> QED
  BY <1>1, <1>2

LEMMA RecoverLocalKeeps ==
  ASSUME WorkerInv, NEW p \in Workers, RecoverLocalClaims(p)
  PROVE  Kept
<1> USE DEF WorkerInv
<1> DEFINE at == worker[p].clock
           R == {k \in Keys : Recoverable(k, at)}
<1>1. Resuming(p) /\ at \in Nat
  BY DEF Resuming, WorkerTypeOK, Process
<1>2. /\ Go(p, "sweep")
      /\ result' = [k \in Keys |->
           IF k \in R THEN Resumed(result[k], NextToken(claim[k].lane)) ELSE result[k]]
      /\ attempts' = [k \in Keys |->
           IF k \in R /\ result[k].state = "RUNNING"
           THEN Moved(attempts[k], result[k].attempt, "RUNNING", "FENCED")
           ELSE attempts[k]]
  BY <1>1 DEF RecoverLocalClaims, Resuming
<1>3. StoreInv' /\ TypeOK' /\ InPlace /\ \A k \in Keys : Resumption(p, k)
  BY <1>1, ResumingKeeps, ResumingRows
<1>4. ASSUME NEW k \in R
      PROVE  /\ Live(k) /\ Live(k)' /\ claim[k].lane \in Lanes
             /\ NextToken(claim[k].lane) \in Nat
             /\ claim'[k].token = NextToken(claim[k].lane)
             /\ outbox'[k].token = NextToken(claim[k].lane)
             /\ claim'[k].status = "RECOVERED"
             /\ result[k].state \notin Final
             /\ result[k].state = "RUNNING" => k \in RetrySafe
  <2>1. Resumption(p, k) /\ Live(k)
    BY <1>3 DEF Recoverable, Abandoned
  <2>2. claim[k].lane \in Lanes
    BY <2>1, LiveIsAlone DEF StoreInv
  <2>3. NextToken(claim[k].lane) \in Nat
    BY <2>2 DEF NextToken, WorkerTypeOK, TypeOK, LaneRow
  <2>4. claim'[k].released = claim[k].released
    BY <1>3 DEF InPlace
  <2> QED
    BY <2>1, <2>2, <2>3, <2>4 DEF Resumption, NextToken, Live, Recoverable
<1>5. \A k \in Keys \ R : claim'[k] = claim[k] /\ outbox'[k] = outbox[k] /\ SameResult(k)
  BY <1>2, <1>3 DEF Resumption, SameResult
<1>6. ASSUME NEW k \in R
      PROVE  KeyFits(k)' /\ result'[k] \in ResultRow /\ attempts'[k] \in Seq(AttemptRow)
  <2>1. KeyFits(k)
    BY DEF KeyFits
  <2>2. /\ result'[k] = Resumed(result[k], NextToken(claim[k].lane))
        /\ attempts'[k] = IF result[k].state = "RUNNING"
                          THEN Moved(attempts[k], result[k].attempt, "RUNNING", "FENCED")
                          ELSE attempts[k]
    BY <1>2
  <2>3. KeyFits(k)'
    BY <1>4, <2>1, <2>2, ResumedFits
  <2>4. result[k] \in ResultRow /\ attempts[k] \in Seq(AttemptRow)
    BY DEF WorkerTypeOK
  <2> QED
    BY <1>4, <2>2, <2>3, <2>4, ResumedType, MovedRows
<1>7. ASSUME NEW k \in Keys \ R
      PROVE  KeyFits(k)' /\ result'[k] \in ResultRow /\ attempts'[k] \in Seq(AttemptRow)
  <2>1. KeyFits(k)
    BY DEF KeyFits
  <2>2. ClaimKept(k) /\ DecidedAsStaged(k)
    BY <1>5, <2>1 DEF ClaimKept, DecidedAsStaged, KeyFits, Identified, Claimed
  <2> QED
    BY <1>5, <2>1, <2>2, SameResultFits DEF SameResult, WorkerTypeOK
<1>8. \A k \in Keys : ClaimStays(k)
  <2>1. \A k \in R : claim[k].status \notin Decided
    BY <1>4 DEF StoreInv, AgreementInv, ReleasedIsHandedOver, Live, Claimed, Decided
  <2> QED
    BY <1>4, <1>5, <2>1 DEF ClaimStays, Claimed, Live
<1>9. /\ worker'[p].pc = "sweep" /\ worker'[p].stale = worker[p].stale
      /\ worker'[p].attempt = worker[p].attempt
      /\ \A q \in Workers \ {p} : worker'[q] = worker[q]
  BY <1>2 DEF Go, WorkerTypeOK, Process
<1>10. ProcessFits(p)'
  <2>1. ProcessFits(p) /\ ~Holding(p)
    BY DEF RecoverLocalClaims, Holding
  <2>2. \A k \in worker[p].stale : claim'[k].status = "STALE"
    BY <1>8, <2>1 DEF ProcessFits, ClaimStays, Decided, WorkerTypeOK, Process
  <2> QED
    BY <1>9, <2>1, <2>2, UnengagedFits DEF ProcessFits
<1>11. ASSUME NEW q \in Workers
       PROVE  OwnersStay(q)
  <2> SUFFICES ASSUME NEW k \in Keys, result'[k].state = "RUNNING", result'[k].owner = q
               PROVE  result'[k] = result[k]
    BY DEF OwnersStay
  <2>1. CASE k \in R
    <3>1. result'[k] = Resumed(result[k], NextToken(claim[k].lane))
      BY <1>2, <2>1
    <3>2. q # NONE
      BY WorkerAssumption
    <3> QED
      BY <3>1, <3>2 DEF Resumed, WorkerTypeOK, ResultRow
  <2>2. CASE k \notin R
    BY <2>2, <1>5 DEF SameResult
  <2> QED
    BY <2>1, <2>2
<1>12. \A q \in Workers \ {p} : ProcessFits(q)'
  BY <1>8, <1>9, <1>11, GoingOnFits
<1>13. result' \in [Keys -> ResultRow] /\ attempts' \in [Keys -> Seq(AttemptRow)]
  BY <1>2, <1>6, <1>7
<1> QED
  BY <1>3, <1>6, <1>7, <1>10, <1>12, <1>13 DEF Kept


\* What stays when no table of the store is written.
LEMMA StoreStays ==
  ASSUME WorkerInv, UNCHANGED <<storeVars, now>>
  PROVE  /\ StoreInv' /\ TypeOK'
         /\ \A k \in Keys : ClaimStays(k) /\ (SameResult(k) => KeyFits(k)')
<1>1. StoreInv' /\ TypeOK'
  <2>1. UNCHANGED vars /\ StoreInv
    BY DEF storeVars, vars, WorkerInv
  <2>2. AgreementInv'
    BY <2>1, AgreementStep DEF StoreInv
  <2>3. NoCandidates' /\ AuditLiveClaim'
    BY <2>1 DEF vars, StoreInv, NoCandidates, AuditLiveClaim, Live
  <2> QED
    BY <2>2, <2>3 DEF StoreInv, AgreementInv, ExclusionInv
<1>2. ASSUME NEW k \in Keys
      PROVE  ClaimKept(k) /\ DecidedAsStaged(k) /\ KeyFits(k)
  BY QuietClaims DEF storeVars, DecidedAsStaged, WorkerInv, KeyFits
<1> QED
  BY <1>1, <1>2, SameResultFits DEF ClaimStays, ClaimKept

\* A process writes results and attempts, and no other process owns what it writes.
LEMMA WritingKept ==
  ASSUME WorkerInv, NEW p \in Workers, UNCHANGED <<storeVars, now>>,
         result' \in [Keys -> ResultRow], attempts' \in [Keys -> Seq(AttemptRow)],
         \A k \in Keys : SameResult(k) \/ KeyFits(k)',
         \A q \in Workers \ {p} : worker'[q] = worker[q] /\ OwnersStay(q),
         ProcessFits(p)'
  PROVE  Kept
<1>1. \A q \in Workers \ {p} : ProcessFits(q)'
  BY StoreStays, GoingOnFits DEF WorkerInv
<1> QED
  BY <1>1, StoreStays DEF Kept

LEMMA MarkLostKeeps ==
  ASSUME WorkerInv, NEW p \in Workers, MarkLost(p)
  PROVE  Kept
<1> USE DEF WorkerInv
<1> DEFINE S == worker[p].stale
<1>1. /\ UNCHANGED <<storeVars, now>>
      /\ result' = [k \in Keys |-> IF k \in S THEN Lost(result[k]) ELSE result[k]]
      /\ attempts' = [k \in Keys |->
           IF k \in S /\ result[k].state \in {"RUNNING", "RESULT_READY"}
           THEN Moved(attempts[k], result[k].attempt, "RUNNING", "FENCED")
           ELSE attempts[k]]
  <2>1. S \subseteq Keys
    BY DEF WorkerTypeOK, Process
  <2> QED
    BY <2>1 DEF MarkLost
<1>2. S \subseteq Keys /\ \A k \in S : claim[k].status = "STALE"
  BY DEF WorkerTypeOK, Process, ProcessFits
<1>3. \A k \in Keys : result[k] \in ResultRow /\ attempts[k] \in Seq(AttemptRow)
  BY DEF WorkerTypeOK
<1>4. ASSUME NEW k \in Keys
      PROVE  /\ SameResult(k) \/ KeyFits(k)'
             /\ result'[k] \in ResultRow /\ attempts'[k] \in Seq(AttemptRow)
  <2>1. CASE k \in S
    <3>1. /\ result'[k] = Lost(result[k])
          /\ attempts'[k] = IF result[k].state \in {"RUNNING", "RESULT_READY"}
                            THEN Moved(attempts[k], result[k].attempt, "RUNNING", "FENCED")
                            ELSE attempts[k]
      BY <1>1, <2>1
    <3>2. UNCHANGED <<claim, outbox>> /\ claim[k].status \notin {"COMPLETED", "BLOCKED"}
      BY <1>1, <1>2, <2>1 DEF storeVars
    <3>3. KeyFits(k)
      BY DEF KeyFits
    <3>4. KeyFits(k)'
      BY <3>1, <3>2, <3>3, LostFits
    <3> QED
      BY <1>3, <3>1, <3>4, LostType, MovedRows
  <2>2. CASE k \notin S
    BY <1>1, <1>3, <2>2 DEF SameResult
  <2> QED
    BY <2>1, <2>2
<1>5. result' \in [Keys -> ResultRow] /\ attempts' \in [Keys -> Seq(AttemptRow)]
  BY <1>1, <1>4
<1>6. \A q \in Workers : OwnersStay(q)
  <2>1. ASSUME NEW k \in Keys, result'[k].state = "RUNNING"
        PROVE  result'[k] = result[k]
    BY <1>1, <1>3, <2>1 DEF Lost, ResultRow
  <2> QED
    BY <2>1 DEF OwnersStay
<1>7. /\ worker'[p].pc = "poll" /\ worker'[p].stale = {} /\ worker'[p].attempt = worker[p].attempt
      /\ \A q \in Workers \ {p} : worker'[q] = worker[q]
  BY DEF MarkLost, WorkerTypeOK, Process
<1>8. worker[p].attempt = 0
  BY DEF MarkLost, ProcessFits, Holding
<1>9. ProcessFits(p)'
  BY <1>7, <1>8, UnengagedFits
<1> QED
  BY <1>1, <1>4, <1>5, <1>6, <1>7, <1>9, WritingKept

\* A process turns to a dispatch that was claimed.
LEMMA TurningKept ==
  ASSUME WorkerInv, NEW p \in Workers, NEW k \in Keys, ~Holding(p),
         worker' = [worker EXCEPT ![p].pc = "open", ![p].dispatch = k],
         QuietCall \/ UNCHANGED <<storeVars, now>>, UNCHANGED <<result, attempts>>,
         claim'[k].status # "ABSENT"
  PROVE  Kept
<1>1. /\ worker'[p].pc = "open" /\ worker'[p].dispatch = k
      /\ worker'[p].stale = worker[p].stale /\ worker'[p].attempt = worker[p].attempt
      /\ \A q \in Workers \ {p} : worker'[q] = worker[q]
  BY DEF WorkerInv, WorkerTypeOK, Process
<1>2. worker[p].attempt = 0
  BY DEF WorkerInv, ProcessFits
<1>3. \A i \in Keys : ClaimKept(i)
  BY QuietClaims
<1>4. ProcessFits(p)'
  BY <1>1, <1>2, <1>3, OpeningFits
<1> QED
  BY <1>1, <1>4, QuietlyKept

LEMMA PollKeeps ==
  ASSUME WorkerInv, NEW p \in Workers, Poll(p)
  PROVE  Kept
<1>1. ~Holding(p) /\ UNCHANGED <<storeVars, now, result, attempts>>
  BY DEF Poll, Holding
<1>2. CASE Go(p, "tick")
  BY <1>1, <1>2, UnengagedGoes, MovingKept DEF storeVars
<1>3. ASSUME NEW k \in Oldest, worker' = [worker EXCEPT ![p].pc = "open", ![p].dispatch = k]
      PROVE  Kept
  <2>1. k \in Keys /\ claim'[k].status # "ABSENT"
    BY <1>1 DEF Oldest, LiveDispatches, Live, storeVars
  <2> QED
    BY <1>1, <1>3, <2>1, TurningKept
<1> QED
  BY <1>2, <1>3 DEF Poll

LEMMA ScheduleClaimKeeps ==
  ASSUME WorkerInv, NEW p \in Workers, ScheduleClaim(p)
  PROVE  Kept
<1>1. ~Holding(p) /\ UNCHANGED <<result, attempts>>
  BY DEF ScheduleClaim, Holding
<1>2. CASE Rest(p) /\ UNCHANGED <<storeVars, now>>
  BY <1>1, <1>2, RestingFits, MovingKept DEF WorkerInv
<1>3. ASSUME NEW l \in Lanes, NEW d \in Delegations, NEW h \in Heads, NEW k \in Keys,
             ClaimReady(l, d, h, k, LeaseSeconds, worker[p].clock),
             worker' = [worker EXCEPT ![p].pc = "open", ![p].dispatch = k]
      PROVE  Kept
  <2>1. LeaseSeconds \in Nat /\ worker[p].clock \in Nat
    BY WorkerAssumption DEF WorkerInv, WorkerTypeOK, Process
  <2>2. QuietCall
    BY <1>3, <2>1 DEF QuietCall
  <2>3. claim'[k].status # "ABSENT"
    BY <1>3 DEF ClaimReady, WorkerInv, WorkerTypeOK, TypeOK
  <2> QED
    BY <1>1, <1>3, <2>2, <2>3, TurningKept
<1> QED
  BY <1>2, <1>3 DEF ScheduleClaim

LEMMA OpenKeeps ==
  ASSUME WorkerInv, NEW p \in Workers, Open(p)
  PROVE  Kept
<1> DEFINE k == worker[p].dispatch
           t == outbox[k].token
<1>1. UNCHANGED <<storeVars, now, result, attempts>> /\ worker[p].pc = "open"
  BY DEF Open
<1>2. CASE Rest(p) \/ Die(p)
  BY <1>1, <1>2, RestingFits, MovingKept DEF WorkerInv
<1>3. ASSUME NEW pc \in {"commit", "acquire"},
             pc = "commit" => result[k].state = "RESULT_READY",
             worker' = [worker EXCEPT ![p].pc = pc, ![p].token = t]
      PROVE  Kept
  <2>1. /\ worker'[p].pc = pc /\ worker'[p].dispatch = k
        /\ worker'[p].stale = worker[p].stale /\ worker'[p].attempt = worker[p].attempt
        /\ \A q \in Workers \ {p} : worker'[q] = worker[q]
    <3> HIDE DEF t
    <3> QED
      BY <1>3 DEF WorkerInv, WorkerTypeOK, Process
  <2>2. worker[p].attempt = 0 /\ k \in Keys /\ claim'[k].status # "ABSENT"
    BY <1>1 DEF WorkerInv, ProcessFits, Holding, Claimed, storeVars
  <2>3. \A i \in Keys : ClaimKept(i)
    BY <1>1, QuietClaims
  <2> HIDE DEF k
  <2>4. ProcessFits(p)'
    BY <1>1, <1>3, <2>1, <2>2, <2>3, OpeningFits
  <2> QED
    BY <1>1, <2>1, <2>4, MovingKept
<1> QED
  BY <1>2, <1>3 DEF Open


LEMMA AcquireKeeps ==
  ASSUME WorkerInv, NEW p \in Workers, Acquire(p)
  PROVE  Kept
<1> USE DEF WorkerInv
<1>0. worker[p].pc = "acquire" /\ worker[p].dispatch \in Keys /\ Claimed(worker[p].dispatch)
  BY DEF Acquire, ProcessFits, Holding
<1>k. PICK k \in Keys : k = worker[p].dispatch
  BY <1>0
<1>t. PICK t : t = worker[p].token
  OBVIOUS
<1> DEFINE f == Opened(result[k], t)
           mine == Taken(f, p, Len(attempts[k]))
           row == [generation |-> mine.generation, state |-> "RUNNING"]
<1>1. UNCHANGED <<storeVars, now>> /\ worker[p].pc = "acquire" /\ Claimed(k)
  BY <1>0, <1>k DEF Acquire
<1>2. CASE (Rest(p) \/ Die(p)) /\ UNCHANGED <<result, attempts>>
  BY <1>1, <1>2, RestingFits, MovingKept
<1>3. CASE Authorized(p) /\ ~Busy(p, result[k])
  <2>1. /\ result' = [result EXCEPT ![k] = mine]
        /\ attempts' = [attempts EXCEPT ![k] = IF mine = f THEN @ ELSE Append(@, row)]
        /\ worker' = [worker EXCEPT ![p].pc = "start", ![p].attempt = mine.attempt,
                                    ![p].generation = mine.generation]
    BY <1>3, <1>k, <1>t DEF Acquire, Opened, Taken
  <2>2. Live(k) /\ t = claim[k].token /\ t \in Nat
    BY <1>3, <1>k, <1>t DEF Authorized, LiveWorker, WorkerTypeOK, Process
  <2>3. KeyFits(k) /\ ReleasedIsHandedOver /\ UNCHANGED <<claim, outbox>>
    BY <1>1 DEF KeyFits, StoreInv, AgreementInv, storeVars
  <2>4. KeyFits(k)' /\ result'[k].token = t
    <3>1. mine = Taken(Opened(result[k], t), p, Len(attempts[k]))
      OBVIOUS
    <3> HIDE DEF mine
    <3> QED
      BY <1>1, <1>3, <2>1, <2>2, <2>3, <3>1, AcquiredFits
  <2>5. mine \in ResultRow /\ mine.owner = p
    BY <1>1, <1>3, <2>2, <2>3, TakenRow
  <2> HIDE DEF mine, f
  <2>6. mine.generation \in Nat
    BY <2>5 DEF ResultRow
  <2>7. row \in AttemptRow
    BY <2>6 DEF AttemptRow
  <2>8. attempts[k] \in Seq(AttemptRow) /\ Append(attempts[k], row) \in Seq(AttemptRow)
    BY <1>1, <2>7 DEF WorkerTypeOK
  <2> HIDE DEF row
  <2>9. result' \in [Keys -> ResultRow] /\ attempts' \in [Keys -> Seq(AttemptRow)]
    BY <1>1, <2>1, <2>5, <2>8 DEF WorkerTypeOK
  <2>10. \A i \in Keys : SameResult(i) \/ KeyFits(i)'
    <3>1. \A i \in Keys \ {k} : result'[i] = result[i] /\ attempts'[i] = attempts[i]
      BY <2>1 DEF WorkerTypeOK
    <3> QED
      BY <2>4, <3>1 DEF SameResult
  <2>11. \A q \in Workers \ {p} : worker'[q] = worker[q] /\ OwnersStay(q)
    BY <1>1, <2>1, <2>5 DEF OwnersStay, WorkerTypeOK
  <2>12. /\ worker'[p].pc = "start" /\ worker'[p].dispatch = k /\ worker'[p].token = t
         /\ worker'[p].stale = worker[p].stale
    BY <1>k, <1>t, <2>1 DEF WorkerTypeOK, Process
  <2>13. \A i \in worker[p].stale : claim'[i].status = "STALE"
    BY <2>3 DEF ProcessFits
  <2>14. ProcessFits(p)'
    BY <1>1, <2>3, <2>4, <2>12, <2>13 DEF ProcessFits, Holding, Claimed
  <2> QED
    BY <1>1, <2>9, <2>10, <2>11, <2>14, WritingKept
<1> QED
  BY <1>2, <1>3, <1>k DEF Acquire

-----------------------------------------------------------------------------
(* The actions of execution *)

\* A process that holds a dispatch goes on with it.
LEMMA HoldingGoes ==
  ASSUME WorkerInv, NEW p \in Workers, Holding(p), worker[p].pc \notin {"open", "acquire"},
         NEW pc \in {"dispatched", "run", "stage", "commit", "lost"}, Go(p, pc),
         pc = "stage" => worker[p].outcome \in {"COMPLETED", "BLOCKED"},
         \A k \in Keys : ClaimStays(k), OwnersStay(p)
  PROVE  ProcessFits(p)' /\ \A q \in Workers \ {p} : worker'[q] = worker[q]
<1>1. /\ worker'[p].pc = pc /\ worker'[p].stale = worker[p].stale
      /\ worker'[p].dispatch = worker[p].dispatch /\ worker'[p].token = worker[p].token
      /\ worker'[p].attempt = worker[p].attempt
      /\ worker'[p].generation = worker[p].generation
      /\ worker'[p].outcome = worker[p].outcome
      /\ \A q \in Workers \ {p} : worker'[q] = worker[q]
  BY DEF Go, WorkerInv, WorkerTypeOK, Process
<1> QED
  BY <1>1, GoingOnFits DEF WorkerInv

\* A step that writes no result gives nobody one.
LEMMA NothingWritten ==
  ASSUME UNCHANGED <<result, attempts>>
  PROVE  (\A p : OwnersStay(p)) /\ \A k : SameResult(k)
BY DEF OwnersStay, SameResult

\* A renewal of the lease, from whatever place.
LEMMA ExtendedKept ==
  ASSUME WorkerInv, NEW k \in Keys, NEW at \in Nat, Live(k),
         claim' = [claim EXCEPT ![k] = RenewedClaim(@, at)],
         UNCHANGED <<lane, delegation, outbox, circuits, failures, verdicts, now, result, attempts>>
  PROVE  /\ \A i \in Keys : ClaimStays(i)
         /\ (\A q \in Workers : worker'[q] = worker[q] \/ ProcessFits(q)') => Kept
<1> USE DEF WorkerInv
<1>1. Extending
  BY DEF Extending
<1>2. StoreInv' /\ InPlace /\ \A i \in Keys : claim'[i].token = claim[i].token
  BY <1>1, ExtendingKeeps
<1>3. /\ \A i \in Keys \ {k} : claim'[i] = claim[i]
      /\ claim'[k].status = "RUNNING"
  BY DEF WorkerTypeOK, TypeOK, RenewedClaim, ClaimRow
<1>4. claim[k].status \notin Decided
  BY DEF StoreInv, AgreementInv, ReleasedIsHandedOver, Live, Claimed, Decided
<1>5. ASSUME NEW i \in Keys
      PROVE  ClaimKept(i) /\ DecidedAsStaged(i)
  BY <1>2, <1>3, <1>4 DEF ClaimKept, DecidedAsStaged, Claimed, Identified
<1>6. \A i \in Keys : KeyFits(i)'
  BY <1>5, NothingWritten, SameResultFits DEF KeyFits
<1>7. \A i \in Keys : ClaimStays(i)
  BY <1>5 DEF ClaimKept, ClaimStays
<1>8. ASSUME NEW q \in Workers, worker'[q] = worker[q]
      PROVE  ProcessFits(q)'
  BY <1>7, <1>8, NothingWritten, GoingOnFits
<1>9. TypeOK'
  BY <1>2 DEF StoreInv, AgreementInv, ExclusionInv
<1> QED
  BY <1>2, <1>6, <1>7, <1>8, <1>9 DEF Kept, WorkerTypeOK

\* Nothing but the place of a process that holds a dispatch changes.
LEMMA GoingKept ==
  ASSUME WorkerInv, NEW p \in Workers, Holding(p), worker[p].pc \notin {"open", "acquire"},
         NEW pc \in {"dispatched", "run", "stage", "commit", "lost"}, Go(p, pc),
         pc = "stage" => worker[p].outcome \in {"COMPLETED", "BLOCKED"},
         QuietCall \/ UNCHANGED <<storeVars, now>>, UNCHANGED <<result, attempts>>
  PROVE  Kept
<1>1. \A k \in Keys : ClaimStays(k)
  BY QuietClaims DEF ClaimKept, ClaimStays
<1> QED
  BY <1>1, NothingWritten, HoldingGoes, QuietlyKept

LEMMA RenewingKeeps ==
  ASSUME WorkerInv, NEW p \in Workers, Start(p) \/ Renew(p)
  PROVE  Kept
<1> USE DEF WorkerInv
<1> DEFINE k == worker[p].dispatch
           at == worker[p].clock
<1>0. worker[p].pc \in {"start", "renew"}
  BY DEF Start, Renew
<1>1. PICK pc \in {"dispatched", "stage"} :
             Renewing(p, at, pc) /\ (pc = "stage" => worker[p].outcome \in {"COMPLETED", "BLOCKED"})
  BY DEF Start, Renew, ProcessFits
<1>2. /\ Holding(p) /\ worker[p].pc \notin {"open", "acquire"}
      /\ k \in Keys /\ at \in Nat
      /\ UNCHANGED <<lane, delegation, outbox, circuits, failures, verdicts, now, result, attempts>>
  BY <1>0, <1>1 DEF ProcessFits, Holding, WorkerTypeOK, Process, Renewing
<1>3. CASE ~MayRenew(p)
  <2>1. Go(p, "lost") /\ UNCHANGED <<storeVars, now, result, attempts>>
    BY <1>1, <1>2, <1>3 DEF Renewing, storeVars
  <2> QED
    BY <1>2, <2>1, GoingKept
<1>4. CASE MayRenew(p)
  <2>1. Live(k) /\ Go(p, pc) /\ claim' = [claim EXCEPT ![k] = RenewedClaim(@, at)]
    BY <1>1, <1>4 DEF Renewing, MayRenew, Authorized, LiveWorker
  <2> HIDE DEF k, at
  <2>2. \A i \in Keys : ClaimStays(i)
    BY <1>2, <2>1, ExtendedKept
  <2>3. ProcessFits(p)' /\ \A q \in Workers \ {p} : worker'[q] = worker[q]
    BY <1>1, <1>2, <2>1, <2>2, NothingWritten, HoldingGoes
  <2> QED
    BY <1>2, <2>1, <2>3, ExtendedKept
<1> QED
  BY <1>3, <1>4

LEMMA RenewInRunKeeps ==
  ASSUME WorkerInv, NEW p \in Workers, RenewInRun(p)
  PROVE  Kept
<1> DEFINE k == worker[p].dispatch
<1>1. /\ k \in Keys /\ Live(k) /\ now \in Nat
      /\ claim' = [claim EXCEPT ![k] = RenewedClaim(@, now)]
      /\ UNCHANGED <<lane, delegation, outbox, circuits, failures, verdicts, now, result, attempts>>
      /\ worker' = worker
  BY DEF RenewInRun, WorkerInv, ProcessFits, Holding, LiveWorker, WorkerTypeOK, TypeOK
<1> HIDE DEF k
<1> QED
  BY <1>1, ExtendedKept

LEMMA DispatchedKeeps ==
  ASSUME WorkerInv, NEW p \in Workers, Dispatched(p)
  PROVE  Kept
<1> DEFINE k == worker[p].dispatch
<1>1. /\ Holding(p) /\ worker[p].pc \notin {"open", "acquire"} /\ k \in Keys
      /\ UNCHANGED <<result, attempts>>
  BY DEF Dispatched, WorkerInv, ProcessFits, Holding
<1>2. CASE MarkDispatched(k, k) /\ Go(p, "run")
  <2>1. k \in Runs
    BY <1>1, WorkerAssumption
  <2>2. QuietCall
    BY <1>1, <1>2, <2>1 DEF QuietCall
  <2> QED
    BY <1>1, <1>2, <2>2, GoingKept
<1>3. CASE (Go(p, "run") \/ Go(p, "lost")) /\ UNCHANGED <<storeVars, now>>
  BY <1>1, <1>3, GoingKept
<1> QED
  BY <1>2, <1>3 DEF Dispatched

\* A process takes a report to its renewal.
LEMMA ReportingKept ==
  ASSUME WorkerInv, NEW p \in Workers, Holding(p), worker[p].pc \notin {"open", "acquire"},
         NEW s \in {"COMPLETED", "BLOCKED"},
         worker' = [worker EXCEPT ![p].pc = "renew", ![p].clock = now, ![p].outcome = s],
         UNCHANGED <<storeVars, now, result, attempts>>
  PROVE  Kept
<1>1. /\ worker'[p].pc = "renew" /\ worker'[p].stale = worker[p].stale
      /\ worker'[p].dispatch = worker[p].dispatch /\ worker'[p].token = worker[p].token
      /\ worker'[p].attempt = worker[p].attempt
      /\ worker'[p].generation = worker[p].generation
      /\ worker'[p].outcome = s
      /\ \A q \in Workers \ {p} : worker'[q] = worker[q]
  BY DEF WorkerInv, WorkerTypeOK, Process
<1>3. \A k \in Keys : ClaimStays(k)
  BY StoreStays
<1>4. ProcessFits(p)'
  BY <1>1, <1>3, NothingWritten, GoingOnFits DEF WorkerInv
<1> QED
  BY <1>1, <1>4, MovingKept

LEMMA FinishKeeps ==
  ASSUME WorkerInv, NEW p \in Workers, Finish(p)
  PROVE  Kept
BY ReportingKept DEF Finish, Holding

-----------------------------------------------------------------------------
(* The actions of reporting *)

LEMMA StageKeeps ==
  ASSUME WorkerInv, NEW p \in Workers, Stage(p)
  PROVE  Kept
<1> USE DEF WorkerInv
<1>1. /\ UNCHANGED <<storeVars, now>> /\ worker[p].pc = "stage"
      /\ Holding(p) /\ worker[p].dispatch \in Keys
      /\ worker[p].outcome \in {"COMPLETED", "BLOCKED"}
  BY DEF Stage, ProcessFits, Holding
<1>2. PICK k \in Keys, s \in {"COMPLETED", "BLOCKED"} :
             k = worker[p].dispatch /\ s = worker[p].outcome
  BY <1>1
<1>3. CASE ~MayStage(p)
  BY <1>1, <1>3, GoingKept DEF Stage
<1>4. CASE MayStage(p)
  <2>1. /\ result' = [result EXCEPT ![k].state = "RESULT_READY", ![k].terminal = s]
        /\ attempts' = [attempts EXCEPT ![k] =
             Moved(@, result[k].attempt, "RUNNING", "RESULT_READY")]
        /\ Go(p, "commit")
        /\ Live(k) /\ result[k].state = "RUNNING" /\ result[k].owner = p
    BY <1>2, <1>4 DEF Stage, MayStage, Owns, Authorized, LiveWorker
  <2>2. KeyFits(k) /\ ReleasedIsHandedOver /\ UNCHANGED <<claim, outbox>> /\ p # NONE
    BY <1>1, WorkerAssumption DEF KeyFits, StoreInv, AgreementInv, storeVars
  <2>3. KeyFits(k)'
    BY <2>1, <2>2, StagedFits
  <2>4. result[k] \in ResultRow /\ attempts[k] \in Seq(AttemptRow)
    BY DEF WorkerTypeOK
  <2>5. [result[k] EXCEPT !.state = "RESULT_READY", !.terminal = s] \in ResultRow
    BY <2>4 DEF ResultRow, OrNone, Decided
  <2>6. /\ result' = [result EXCEPT ![k] = [result[k] EXCEPT !.state = "RESULT_READY",
                                                              !.terminal = s]]
        /\ result'[k].state = "RESULT_READY"
    BY <2>1, <2>4 DEF WorkerTypeOK, ResultRow
  <2>7. Moved(attempts[k], result[k].attempt, "RUNNING", "RESULT_READY") \in Seq(AttemptRow)
    BY <2>4, MovedRows
  <2>8. result' \in [Keys -> ResultRow] /\ attempts' \in [Keys -> Seq(AttemptRow)]
    BY <2>1, <2>5, <2>6, <2>7 DEF WorkerTypeOK
  <2>9. \A i \in Keys : SameResult(i) \/ KeyFits(i)'
    <3>1. \A i \in Keys \ {k} : result'[i] = result[i] /\ attempts'[i] = attempts[i]
      BY <2>1 DEF WorkerTypeOK
    <3> QED
      BY <2>3, <3>1 DEF SameResult
  <2>10. \A q \in Workers : OwnersStay(q)
    <3>1. \A i \in Keys : result'[i].state = "RUNNING" => result'[i] = result[i]
      BY <2>1, <2>6 DEF WorkerTypeOK
    <3> QED
      BY <3>1 DEF OwnersStay
  <2>11. ProcessFits(p)' /\ \A q \in Workers \ {p} : worker'[q] = worker[q]
    BY <1>1, <2>1, <2>10, StoreStays, HoldingGoes
  <2> QED
    BY <1>1, <2>8, <2>9, <2>10, <2>11, WritingKept
<1> QED
  BY <1>3, <1>4

\* The commit of a staged result: the store decides what was staged, or had done so.
LEMMA CommittedKept ==
  ASSUME WorkerInv, NEW p \in Workers, worker[p].pc = "commit", NEW k \in Keys,
         k = worker[p].dispatch,
         result[k].state = "RESULT_READY",
         \/ /\ claim[k].released /\ claim[k].token = worker[p].token
            /\ claim[k].status = result[k].terminal
            /\ UNCHANGED <<storeVars, now>>
         \/ Terminal(k, worker[p].token, result[k].terminal, worker[p].clock),
         worker' = [worker EXCEPT ![p].pc = "finalize", ![p].generation = result[k].generation,
                                  ![p].attempt = result[k].attempt],
         UNCHANGED <<result, attempts>>
  PROVE  Kept
<1> USE DEF WorkerInv
<1> DEFINE t == worker[p].token
           s == result[k].terminal
           at == worker[p].clock
<1>1. s \in {"COMPLETED", "BLOCKED"} /\ at \in Nat
  BY DEF ResultFits, WorkerTypeOK, Process
<1>2. /\ StoreInv' /\ TypeOK' /\ \A i \in Keys : ClaimKept(i)
      /\ claim'[k].status = s /\ claim'[k].token = t
      /\ \A i \in Keys \ {k} : claim'[i] = claim[i]
  <2>1. CASE Terminal(k, t, s, at)
    <3>1. LiveWorker(k, t, at)
      BY <1>1, <2>1 DEF Terminal, MayTerminalize
    <3>2. t = claim[k].token /\ t \in Issued
      BY <3>1 DEF LiveWorker, Issued
    <3> HIDE DEF t, s, at
    <3>3. StoreCall
      BY <1>1, <2>1, <3>2 DEF StoreCall
    <3>4. StoreInv' /\ TypeOK'
      BY <3>3, CallsKeepTheAudit DEF StoreInv, AgreementInv, ExclusionInv
    <3>5. \A i \in Keys : ClaimKept(i)
      BY <3>3, CallsKeepClaims
    <3>6. claim[k] \in ClaimRow /\ claim' = [claim EXCEPT ![k].status = s, ![k].released = TRUE]
      BY <2>1 DEF Terminal, WorkerTypeOK, TypeOK
    <3>7. claim'[k].status = s /\ claim'[k].token = t /\ \A i \in Keys \ {k} : claim'[i] = claim[i]
      BY <3>2, <3>6 DEF WorkerTypeOK, TypeOK, ClaimRow
    <3> QED
      BY <3>4, <3>5, <3>7
  <2>2. CASE /\ claim[k].released /\ claim[k].token = t /\ claim[k].status = s
             /\ UNCHANGED <<storeVars, now>>
    <3>1. claim' = claim
      BY <2>2 DEF storeVars
    <3> QED
      BY <2>2, <3>1, StoreStays, QuietClaims
  <2> QED
    BY <2>1, <2>2
<1>3. ASSUME NEW i \in Keys
      PROVE  KeyFits(i)'
  <2>1. DecidedAsStaged(i)
    BY <1>2 DEF DecidedAsStaged
  <2> QED
    BY <1>2, <2>1, NothingWritten, SameResultFits DEF KeyFits
<1>4. \A i \in Keys : ClaimStays(i)
  BY <1>2 DEF ClaimKept, ClaimStays
<1>5. /\ worker'[p].pc = "finalize" /\ worker'[p].dispatch = k /\ worker'[p].token = t
      /\ worker'[p].stale = worker[p].stale
      /\ \A q \in Workers \ {p} : worker'[q] = worker[q]
  <2> DEFINE g == result[k].generation
             n == result[k].attempt
  <2>1. worker' = [worker EXCEPT ![p].pc = "finalize", ![p].generation = g, ![p].attempt = n]
    OBVIOUS
  <2>2. worker \in [Workers -> Process]
    BY DEF WorkerTypeOK
  <2> HIDE DEF WorkerInv, g, n
  <2> QED
    BY <2>1, <2>2 DEF Process
<1>6. ProcessFits(p)'
  <2>1. \A i \in worker[p].stale : claim'[i].status = "STALE"
    <3>1. worker[p].stale \subseteq Keys /\ \A i \in worker[p].stale : claim[i].status = "STALE"
      BY DEF ProcessFits, WorkerTypeOK, Process
    <3> HIDE DEF WorkerInv
    <3> QED
      BY <3>1, <1>4 DEF ClaimStays, Decided
  <2>2. result'[k].state # "RUNNING"
    OBVIOUS
  <2>3. claim'[k].status \in {"COMPLETED", "BLOCKED"} /\ claim'[k].token = t
    BY <1>1, <1>2
  <2> HIDE DEF t, s, at
  <2> QED
    BY <1>5, <2>1, <2>2, <2>3 DEF ProcessFits, Holding, Claimed
<1>7. \A q \in Workers \ {p} : ProcessFits(q)'
  BY <1>4, <1>5, NothingWritten, GoingOnFits
<1> QED
  BY <1>2, <1>3, <1>6, <1>7 DEF Kept, WorkerTypeOK

LEMMA CommitKeeps ==
  ASSUME WorkerInv, NEW p \in Workers, Commit(p)
  PROVE  Kept
<1>1. /\ UNCHANGED <<result, attempts>> /\ worker[p].pc = "commit"
      /\ Holding(p) /\ worker[p].dispatch \in Keys
  BY DEF Commit, ProcessFits, Holding, WorkerInv
<1>2. PICK k \in Keys : k = worker[p].dispatch
  BY <1>1
<1>3. CASE (Rest(p) \/ Die(p)) /\ UNCHANGED <<storeVars, now>>
  BY <1>1, <1>3, RestingFits, MovingKept DEF WorkerInv
<1>4. CASE Go(p, "lost") /\ UNCHANGED <<storeVars, now>>
  BY <1>1, <1>4, GoingKept
<1>5. CASE RefusedCompletion(p)
  <2>1. \/ Die(p)
        \/ worker' = [worker EXCEPT ![p].pc = "renew", ![p].clock = now, ![p].outcome = "BLOCKED"]
    BY <1>5 DEF RefusedCompletion
  <2>2. UNCHANGED <<storeVars, now>>
    BY <1>5 DEF RefusedCompletion
  <2> QED
    BY <1>1, <1>3, <2>1, <2>2, ReportingKept
<1>6. CASE /\ result[k].state = "RESULT_READY"
           /\ \/ /\ claim[k].released /\ claim[k].token = worker[p].token
                 /\ claim[k].status = result[k].terminal
                 /\ UNCHANGED <<storeVars, now>>
              \/ Terminal(k, worker[p].token, result[k].terminal, worker[p].clock)
           /\ worker' = [worker EXCEPT ![p].pc = "finalize",
                                       ![p].generation = result[k].generation,
                                       ![p].attempt = result[k].attempt]
  BY <1>1, <1>2, <1>6, CommittedKept
<1> QED
  BY <1>2, <1>3, <1>4, <1>5, <1>6 DEF Commit, Replayed

LEMMA FinalizeKeeps ==
  ASSUME WorkerInv, NEW p \in Workers, Finalize(p)
  PROVE  Kept
<1> USE DEF WorkerInv
<1>1. /\ UNCHANGED <<storeVars, now>> /\ worker[p].pc = "finalize"
      /\ worker[p].dispatch \in Keys /\ (Rest(p) \/ Die(p))
  BY DEF Finalize, ProcessFits, Holding
<1>2. PICK k \in Keys : k = worker[p].dispatch
  BY <1>1
<1>3. ProcessFits(p)' /\ \A q \in Workers \ {p} : worker'[q] = worker[q]
  BY <1>1, RestingFits
<1>4. CASE UNCHANGED <<result, attempts>>
  BY <1>1, <1>3, <1>4, MovingKept
<1>f. PICK final, n :
        /\ final = IF result[k].terminal = "COMPLETED" THEN "SUCCEEDED" ELSE "FAILED"
        /\ n = worker[p].attempt
  OBVIOUS
<1>5. CASE /\ result[k].state = "RESULT_READY"
           /\ result' = [result EXCEPT ![k].state = final, ![k].owner = NONE]
           /\ attempts' = [attempts EXCEPT ![k] = Moved(@, n, "RESULT_READY", final)]
  <2>1. /\ KeyFits(k) /\ UNCHANGED <<claim, outbox>>
        /\ claim[k].status \in {"COMPLETED", "BLOCKED"}
    BY <1>1, <1>2 DEF KeyFits, storeVars, ProcessFits
  <2>2. KeyFits(k)'
    BY <1>f, <1>5, <2>1, FinalizedFits
  <2>3. /\ result[k] \in ResultRow /\ attempts[k] \in Seq(AttemptRow)
        /\ final \in {"SUCCEEDED", "FAILED"}
    BY <1>f DEF WorkerTypeOK
  <2>4. [result[k] EXCEPT !.state = final, !.owner = NONE] \in ResultRow
    BY <2>3 DEF ResultRow, OrNone, Final
  <2>5. /\ result' = [result EXCEPT ![k] = [result[k] EXCEPT !.state = final, !.owner = NONE]]
        /\ result'[k].state # "RUNNING"
    BY <1>5, <2>3 DEF WorkerTypeOK, ResultRow
  <2>6. Moved(attempts[k], n, "RESULT_READY", final) \in Seq(AttemptRow)
    BY <2>3, MovedRows
  <2>7. result' \in [Keys -> ResultRow] /\ attempts' \in [Keys -> Seq(AttemptRow)]
    BY <1>5, <2>4, <2>5, <2>6 DEF WorkerTypeOK
  <2>8. \A i \in Keys \ {k} : result'[i] = result[i] /\ attempts'[i] = attempts[i]
    BY <1>5 DEF WorkerTypeOK
  <2>9. (\A i \in Keys : SameResult(i) \/ KeyFits(i)') /\ \A q \in Workers : OwnersStay(q)
    BY <2>2, <2>5, <2>8 DEF SameResult, OwnersStay
  <2> QED
    BY <1>1, <1>3, <2>7, <2>9, WritingKept
<1> QED
  <2> HIDE DEF WorkerInv
  <2> QED
    BY <1>2, <1>f, <1>4, <1>5 DEF Finalize

LEMMA RecordLostKeeps ==
  ASSUME WorkerInv, NEW p \in Workers, RecordLost(p)
  PROVE  Kept
<1> USE DEF WorkerInv
<1>1. /\ UNCHANGED <<storeVars, now>> /\ worker[p].pc = "lost"
      /\ worker[p].dispatch \in Keys /\ Die(p)
  BY DEF RecordLost, ProcessFits, Holding
<1>2. PICK k \in Keys : k = worker[p].dispatch
  BY <1>1
<1>3. ProcessFits(p)' /\ \A q \in Workers \ {p} : worker'[q] = worker[q]
  BY <1>1, RestingFits
<1>4. CASE UNCHANGED <<result, attempts>>
  BY <1>1, <1>3, <1>4, MovingKept
<1>5. CASE /\ Owns(p) /\ result[k].state = "RUNNING"
           /\ result' = [result EXCEPT ![k] = Lost(@)]
           /\ attempts' = [attempts EXCEPT ![k] = Moved(@, worker[p].attempt, "RUNNING", "FENCED")]
  <2>1. /\ KeyFits(k) /\ UNCHANGED <<claim, outbox>>
        /\ claim[k].status \notin {"COMPLETED", "BLOCKED"}
    BY <1>1, <1>5 DEF KeyFits, storeVars, Matches
  <2>2. /\ result[k] \in ResultRow /\ attempts[k] \in Seq(AttemptRow)
        /\ worker[p].attempt = result[k].attempt
    BY <1>2, <1>5 DEF WorkerTypeOK, Owns
  <2>3. /\ result'[k] = Lost(result[k])
        /\ attempts'[k] = Moved(attempts[k], result[k].attempt, "RUNNING", "FENCED")
    BY <1>5, <2>2 DEF WorkerTypeOK
  <2>4. KeyFits(k)'
    BY <1>5, <2>1, <2>3, LostFits
  <2>5. /\ Lost(result[k]) \in ResultRow
        /\ Moved(attempts[k], result[k].attempt, "RUNNING", "FENCED") \in Seq(AttemptRow)
    BY <2>2, LostType, MovedRows
  <2>6. result' \in [Keys -> ResultRow] /\ attempts' \in [Keys -> Seq(AttemptRow)]
    BY <1>5, <2>2, <2>5 DEF WorkerTypeOK
  <2>7. \A i \in Keys \ {k} : result'[i] = result[i] /\ attempts'[i] = attempts[i]
    BY <1>5 DEF WorkerTypeOK
  <2>8. Lost(result[k]).state # "RUNNING"
    <3> HIDE DEF WorkerInv
    <3> QED
      BY <2>2 DEF Lost, ResultRow
  <2>9. (\A i \in Keys : SameResult(i) \/ KeyFits(i)') /\ \A q \in Workers : OwnersStay(q)
    BY <2>3, <2>4, <2>7, <2>8 DEF SameResult, OwnersStay
  <2> QED
    BY <1>1, <1>3, <2>6, <2>9, WritingKept
<1> QED
  BY <1>2, <1>4, <1>5 DEF RecordLost

LEMMA EndingKeeps ==
  ASSUME WorkerInv, NEW p \in Workers, Crash(p) \/ StartProcess(p)
  PROVE  Kept
BY RestingFits, MovingKept DEF Crash, StartProcess, WorkerInv

LEMMA EnvironmentKeeps ==
  ASSUME WorkerInv, Environment
  PROVE  Kept
<1>1. LeaseSeconds \in Nat /\ now \in Nat
  BY WorkerAssumption DEF WorkerInv, WorkerTypeOK, TypeOK
<1>2. QuietCall
  <2>1. \A d \in Delegations : (d \in Independent) \in BOOLEAN
    OBVIOUS
  <2> QED
    BY <1>1, <2>1 DEF Environment, QuietCall
<1> QED
  BY <1>2, QuietlyKept DEF Environment

-----------------------------------------------------------------------------
(* The inductive invariant *)

LEMMA WorkerInvInit == WorkerInit => WorkerInv
<1> SUFFICES ASSUME WorkerInit PROVE WorkerInv
  OBVIOUS
<1>1. Init
  BY DEF WorkerInit
<1>2. AgreementInv /\ TypeOK
  BY <1>1, AgreementInit, TypeInit
<1>3. \A k \in Keys : /\ claim[k].status = "ABSENT" /\ claim[k].token = 0
                      /\ outbox[k].token = 0
  BY <1>1 DEF Init, NoClaim, NoDispatch
<1>4. StoreInv
  BY <1>2, <1>3 DEF StoreInv, NoCandidates, AuditLiveClaim, Live
<1>5. NoResult \in ResultRow
  BY DEF NoResult, ResultRow, OrNone
<1>6. Resting \in Process
  BY DEF Resting, Process, OrNone
<1>7. WorkerTypeOK
  <2>1. <<>> \in Seq(AttemptRow)
    OBVIOUS
  <2> QED
    BY <1>2, <1>5, <1>6, <2>1 DEF WorkerTypeOK, WorkerInit
<1>8. ASSUME NEW k \in Keys
      PROVE  Identified(k) /\ ResultFits(k) /\ AttemptsFit(k) /\ Matches(k)
  <2>1. result[k] = NoResult /\ attempts[k] = <<>> /\ result[k].state = "ABSENT"
    BY DEF WorkerInit, NoResult
  <2> QED
    BY <1>3, <2>1 DEF Identified, ResultFits, AttemptsFit, Matches
<1>9. ASSUME NEW p \in Workers
      PROVE  ProcessFits(p)
  <2>1. worker[p].pc = "idle" /\ worker[p].stale = {} /\ worker[p].attempt = 0
    BY DEF WorkerInit, Resting
  <2> QED
    BY <2>1 DEF ProcessFits, Holding
<1> QED
  BY <1>4, <1>7, <1>8, <1>9 DEF WorkerInv

LEMMA WorkerInvStep == WorkerInv /\ [WorkerNext]_workerVars => WorkerInv'
<1> SUFFICES ASSUME WorkerInv, [WorkerNext]_workerVars
             PROVE  WorkerInv'
  OBVIOUS
<1>1. ASSUME NEW p \in Workers, Step(p) \/ RenewInRun(p) \/ Crash(p) \/ StartProcess(p)
      PROVE  Kept
  BY <1>1, BeginKeeps, RecoverLocalKeeps, SweepKeeps, MarkLostKeeps, PollKeeps,
     ScheduleClaimKeeps, OpenKeeps, AcquireKeeps, RenewingKeeps, DispatchedKeeps, FinishKeeps,
     StageKeeps, CommitKeeps, FinalizeKeeps, RecordLostKeeps, RenewInRunKeeps, EndingKeeps
     DEF Step
<1>2. ASSUME UNCHANGED workerVars
      PROVE  Kept
  <2>1. UNCHANGED <<result, attempts>> /\ UNCHANGED <<storeVars, now>> /\ worker' = worker
    BY <1>2 DEF workerVars, storeVars
  <2>2. \A q \in Workers : worker'[q] = worker[q]
    BY <2>1
  <2> QED
    BY <2>1, <2>2, QuietlyKept
<1>3. ASSUME Environment
      PROVE  Kept
  BY <1>3, EnvironmentKeeps
<1>5. WorkerNext \/ UNCHANGED workerVars
  OBVIOUS
<1>6. Kept
  BY <1>1, <1>2, <1>3, <1>5 DEF WorkerNext
<1>4. worker' \in [Workers -> Process]
  BY WorkerType DEF WorkerInv
<1> QED
  BY <1>4, <1>6 DEF WorkerInv, WorkerTypeOK, Kept, KeyFits

LEMMA WorkerInvariant == WorkerSpec => []WorkerInv
BY WorkerInvInit, WorkerInvStep, PTL DEF WorkerSpec

-----------------------------------------------------------------------------
(* What the invariant says *)

\* The rows of the store, the results, the attempts and the processes are well formed.
THEOREM WorkerTypeCorrect == WorkerSpec => []WorkerTypeOK
<1>1. WorkerInv => WorkerTypeOK
  BY DEF WorkerInv
<1> QED
  BY <1>1, WorkerInvariant, PTL

\* The fences of a live claim, its dispatch and its result agree in every state, so
\* _recover_local_claims never ends a process with a Conflict, whoever died before it.
THEOREM RecoveryIsNeverRefused == WorkerSpec => []RecoveryAlwaysPossible
<1>1. WorkerInv => RecoveryAlwaysPossible
  BY DEF WorkerInv, RecoveryAlwaysPossible
<1> QED
  BY <1>1, WorkerInvariant, PTL

\* What _commit_staged_result records of a dispatch is what the store decided, although the
\* two are written in different transactions, possibly by different processes.
THEOREM ResultsMatchClaims == WorkerSpec => []ResultMatchesClaim
<1>1. WorkerInv => ResultMatchesClaim
  BY DEF WorkerInv, ResultMatchesClaim, Matches
<1> QED
  BY <1>1, WorkerInvariant, PTL

\* An executor that may not be repeated is started at most once for each dispatch.
THEOREM NoEffectTwice == WorkerSpec => []EffectAtMostOnce
<1>1. WorkerInv => EffectAtMostOnce
  BY DEF WorkerInv, EffectAtMostOnce, AttemptsFit
<1> QED
  BY <1>1, WorkerInvariant, PTL

\* The generations of the attempts of a dispatch rise, and all but the last are fenced.
THEOREM OneAttemptRuns == WorkerSpec => []OneRunningAttempt
<1>1. WorkerInv => OneRunningAttempt
  BY DEF WorkerInv, OneRunningAttempt, AttemptsFit
<1> QED
  BY <1>1, WorkerInvariant, PTL

\* Under the workers the audit of live claims holds: nothing they do leaves a live claim on
\* a lane or a delegation that does not name it.
THEOREM LiveClaimsPassAudit == WorkerSpec => []AuditLiveClaim
<1>1. WorkerInv => AuditLiveClaim
  BY DEF WorkerInv, StoreInv
<1> QED
  BY <1>1, WorkerInvariant, PTL

\* The processes keep the store's own safety, although they resume and extend claims past
\* its methods: one live claim on a lane, and claims, dispatches and delegations agree.
THEOREM WorkersKeepTheStore == WorkerSpec => [](LaneExclusion /\ LifecycleAgreement)
<1>1. WorkerInv => LaneExclusion /\ LifecycleAgreement
  BY AgreementImplies DEF WorkerInv, StoreInv, AgreementInv, ExclusionInv
<1> QED
  BY <1>1, WorkerInvariant, PTL

-----------------------------------------------------------------------------
(* Results are final *)

\* What ResultIsFinal says of one dispatch.
Settles(k) ==
  /\ result[k].state \in Final => result'[k] = result[k]
  /\ result[k].state = "RESULT_READY" =>
       /\ attempts'[k] # attempts[k] => Len(attempts'[k]) = Len(attempts[k])
       /\ result'[k].state # "RUNNING"
       /\ result'[k].state # "AUTHORITY_LOST" => result'[k].terminal = result[k].terminal
  /\ result'[k].generation >= result[k].generation

LEMMA SameSettles ==
  ASSUME WorkerTypeOK, NEW k \in Keys, SameResult(k)
  PROVE  Settles(k)
<1>1. result[k].generation \in Nat
  BY DEF WorkerTypeOK, ResultRow
<1> QED
  BY <1>1 DEF SameResult, Settles

\* A result that is lost, or resumed, with its running attempt fenced.
LEMMA MovedSettles ==
  ASSUME WorkerTypeOK, NEW k \in Keys, NEW t \in Nat, NEW n, NEW from,
         NEW to \in {"RUNNING", "RESULT_READY", "SUCCEEDED", "FAILED", "FENCED"},
         attempts'[k] \in {attempts[k], Moved(attempts[k], n, from, to)},
         \/ result'[k] = Lost(result[k])
         \/ result[k].state \notin Final /\ result'[k] = Resumed(result[k], t)
  PROVE  Settles(k)
<1>1. result[k] \in ResultRow /\ result[k].generation \in Nat /\ attempts[k] \in Seq(AttemptRow)
  BY DEF WorkerTypeOK, ResultRow
<1>2. Len(attempts'[k]) = Len(attempts[k])
  BY <1>1, MovedRows
<1>3. CASE result'[k] = Lost(result[k])
  BY <1>1, <1>2, <1>3 DEF Settles, Lost, ResultRow, Final
<1>4. CASE result[k].state \notin Final /\ result'[k] = Resumed(result[k], t)
  BY <1>1, <1>2, <1>4 DEF Settles, Resumed, ResultRow, Final
<1> QED
  BY <1>3, <1>4

LEMMA StepsSettle ==
  ASSUME WorkerInv, [WorkerNext]_workerVars, NEW k \in Keys
  PROVE  Settles(k)
<1> USE DEF WorkerInv
<1>1. ASSUME UNCHANGED <<result, attempts>>
      PROVE  Settles(k)
  BY <1>1, NothingWritten, SameSettles
<1>2. ASSUME NEW p \in Workers, RecoverLocalClaims(p)
      PROVE  Settles(k)
  <2>1. CASE UNCHANGED <<result, attempts>>
    BY <1>1, <2>1
  <2>2. CASE Resuming(p)
    <3>1. CASE Recoverable(k, worker[p].clock)
      <4>1. /\ result'[k] = Resumed(result[k], NextToken(claim[k].lane))
            /\ attempts'[k] \in {attempts[k], Moved(attempts[k], result[k].attempt, "RUNNING", "FENCED")}
            /\ result[k].state \notin Final /\ Live(k)
        BY <2>2, <3>1 DEF Resuming, RecoverLocalClaims, Recoverable, Abandoned
      <4>2. claim[k].lane \in Lanes
        BY <4>1, LiveIsAlone DEF StoreInv
      <4>3. NextToken(claim[k].lane) \in Nat
        BY <4>2 DEF NextToken, WorkerTypeOK, TypeOK, LaneRow
      <4> QED
        BY <4>1, <4>3, MovedSettles
    <3>2. CASE ~Recoverable(k, worker[p].clock)
      <4>1. SameResult(k)
        BY <2>2, <3>2 DEF Resuming, RecoverLocalClaims, SameResult
      <4> QED
        BY <4>1, SameSettles
    <3> QED
      BY <3>1, <3>2
  <2> QED
    BY <1>2, <2>1, <2>2 DEF RecoverLocalClaims, Resuming
<1>3. ASSUME NEW p \in Workers, MarkLost(p)
      PROVE  Settles(k)
  <2>1. CASE k \in worker[p].stale
    <3>1. /\ result'[k] = Lost(result[k])
          /\ attempts'[k] \in {attempts[k], Moved(attempts[k], result[k].attempt, "RUNNING", "FENCED")}
      BY <1>3, <2>1 DEF MarkLost
    <3> QED
      BY <3>1, MovedSettles
  <2>2. CASE k \notin worker[p].stale
    BY <1>3, <2>2, SameSettles DEF MarkLost, SameResult
  <2> QED
    BY <2>1, <2>2
<1>4. ASSUME NEW p \in Workers, Acquire(p)
      PROVE  Settles(k)
  <2> DEFINE r == result[k]
             f == Opened(r, worker[p].token)
  <2>1. CASE UNCHANGED <<result, attempts>>
    BY <1>1, <2>1
  <2>2. CASE k # worker[p].dispatch
    <3>1. SameResult(k)
      BY <1>4, <2>2 DEF Acquire, SameResult, WorkerTypeOK
    <3> QED
      BY <3>1, SameSettles
  <2>3. CASE ~Busy(p, r) /\ result' = [result EXCEPT ![k] = Taken(f, p, Len(attempts[k]))]
    <3>0. result'[k] = Taken(f, p, Len(attempts[k]))
      BY <2>3 DEF WorkerTypeOK
    <3>1. r \in ResultRow /\ r.generation \in Nat
      BY DEF WorkerTypeOK, ResultRow
    <3>2. r.state \notin Final \cup {"RESULT_READY"}
      BY <2>3 DEF Busy
    <3>3. r.state = "ABSENT" => r.generation = 0
      BY DEF ResultFits, NoResult
    <3>5. f.generation \in Nat /\ f.generation >= r.generation
      BY <3>1, <3>3 DEF Opened, NoResult
    <3>6. Taken(f, p, Len(attempts[k])).generation = f.generation
      BY <3>1 DEF Taken, Opened, NoResult, ResultRow
    <3> QED
      BY <3>0, <3>2, <3>5, <3>6 DEF Settles
  <2>4. ASSUME k = worker[p].dispatch
        PROVE  \/ UNCHANGED <<result, attempts>>
               \/ ~Busy(p, r) /\ result' = [result EXCEPT ![k] = Taken(f, p, Len(attempts[k]))]
    <3> HIDE DEF WorkerInv
    <3> QED
      BY <1>4, <2>4 DEF Acquire, Opened, Taken
  <2> QED
    BY <2>1, <2>2, <2>3, <2>4
<1>5. ASSUME NEW p \in Workers, Stage(p)
      PROVE  Settles(k)
  <2>1. CASE UNCHANGED <<result, attempts>>
    BY <1>1, <2>1
  <2>2. CASE k # worker[p].dispatch
    <3>1. SameResult(k)
      BY <1>5, <2>2 DEF Stage, SameResult, WorkerTypeOK
    <3> QED
      BY <3>1, SameSettles
  <2>3. CASE /\ result[k].state = "RUNNING"
             /\ result' = [result EXCEPT ![k].state = "RESULT_READY", ![k].terminal = worker[p].outcome]
    <3>1. result[k] \in ResultRow /\ result[k].generation \in Nat
      BY DEF WorkerTypeOK, ResultRow
    <3>2. result'[k].generation = result[k].generation
      BY <2>3, <3>1 DEF WorkerTypeOK, ResultRow
    <3> QED
      BY <2>3, <3>1, <3>2 DEF Settles, Final
  <2> QED
    BY <1>5, <2>1, <2>2, <2>3 DEF Stage, MayStage
<1>6. ASSUME NEW p \in Workers, Finalize(p)
      PROVE  Settles(k)
  <2>1. CASE UNCHANGED <<result, attempts>>
    BY <1>1, <2>1
  <2>2. CASE k # worker[p].dispatch
    <3>1. SameResult(k)
      BY <1>6, <2>2 DEF Finalize, SameResult, WorkerTypeOK
    <3> QED
      BY <3>1, SameSettles
  <2>f. PICK final : final = IF result[k].terminal = "COMPLETED" THEN "SUCCEEDED" ELSE "FAILED"
    OBVIOUS
  <2>3. CASE /\ result[k].state = "RESULT_READY"
             /\ result' = [result EXCEPT ![k].state = final, ![k].owner = NONE]
             /\ attempts' = [attempts EXCEPT ![k] =
                  Moved(@, worker[p].attempt, "RESULT_READY", final)]
    <3>1. /\ result[k] \in ResultRow /\ result[k].generation \in Nat
          /\ attempts[k] \in Seq(AttemptRow) /\ final \in {"SUCCEEDED", "FAILED"}
      BY <2>f DEF WorkerTypeOK, ResultRow
    <3>2. /\ result'[k].generation = result[k].generation
          /\ result'[k].state = final /\ result'[k].terminal = result[k].terminal
      BY <2>3, <3>1 DEF WorkerTypeOK, ResultRow
    <3>3. Len(attempts'[k]) = Len(attempts[k])
      BY <2>3, <3>1, MovedRows DEF WorkerTypeOK
    <3> QED
      BY <2>3, <3>1, <3>2, <3>3 DEF Settles, Final
  <2> QED
    BY <1>6, <2>1, <2>2, <2>f, <2>3 DEF Finalize
<1>7. ASSUME NEW p \in Workers, RecordLost(p)
      PROVE  Settles(k)
  <2>1. CASE UNCHANGED <<result, attempts>>
    BY <1>1, <2>1
  <2>2. CASE k # worker[p].dispatch
    <3>1. SameResult(k)
      BY <1>7, <2>2 DEF RecordLost, SameResult, WorkerTypeOK
    <3> QED
      BY <3>1, SameSettles
  <2>3. CASE /\ result' = [result EXCEPT ![k] = Lost(@)]
             /\ attempts' = [attempts EXCEPT ![k] = Moved(@, worker[p].attempt, "RUNNING", "FENCED")]
    <3>1. /\ result'[k] = Lost(result[k])
          /\ attempts'[k] = Moved(attempts[k], worker[p].attempt, "RUNNING", "FENCED")
      BY <2>3 DEF WorkerTypeOK
    <3> QED
      BY <3>1, MovedSettles
  <2> QED
    BY <1>7, <2>1, <2>2, <2>3 DEF RecordLost
<1>8. ASSUME NEW p \in Workers,
             Begin(p) \/ Sweep(p) \/ Poll(p) \/ ScheduleClaim(p) \/ Open(p) \/ Start(p)
             \/ Dispatched(p) \/ Finish(p) \/ Renew(p) \/ Commit(p) \/ RenewInRun(p) \/ Crash(p)
             \/ StartProcess(p)
      PROVE  UNCHANGED <<result, attempts>>
  BY <1>8 DEF Begin, Sweep, Poll, ScheduleClaim, Open, Start, Dispatched, Finish, Renew, Renewing,
     Commit, RenewInRun, Crash, StartProcess
<1>9. ASSUME Environment \/ UNCHANGED workerVars
      PROVE  UNCHANGED <<result, attempts>>
  BY <1>9 DEF Environment, workerVars
<1>10. WorkerNext \/ UNCHANGED workerVars
  OBVIOUS
<1> HIDE DEF WorkerInv
<1> QED
  BY <1>1, <1>2, <1>3, <1>4, <1>5, <1>6, <1>7, <1>8, <1>9, <1>10 DEF WorkerNext, Step

\* Committed results never change, staged ones are never run again or rewritten, and
\* generations only rise, whatever the processes do.
THEOREM ResultsAreFinal == WorkerSpec => ResultIsFinal
<1>1. WorkerInv /\ [WorkerNext]_workerVars =>
        [\A k \in Keys :
           /\ result[k].state \in Final => result'[k] = result[k]
           /\ result[k].state = "RESULT_READY" =>
                /\ attempts'[k] # attempts[k] => Len(attempts'[k]) = Len(attempts[k])
                /\ result'[k].state # "RUNNING"
                /\ result'[k].state # "AUTHORITY_LOST" => result'[k].terminal = result[k].terminal
           /\ result'[k].generation >= result[k].generation]_workerVars
  BY StepsSettle DEF Settles
<1> QED
  BY <1>1, WorkerInvariant, PTL DEF WorkerSpec, ResultIsFinal

-----------------------------------------------------------------------------
(* Overtaken processes *)

Moves(q) == Step(q) \/ RenewInRun(q) \/ Crash(q) \/ StartProcess(q)

\* A process that takes a step moves no other.
LEMMA OthersStay ==
  ASSUME WorkerTypeOK, NEW p \in Workers, NEW q \in Workers \ {p}, Moves(q)
  PROVE  worker'[p] = worker[p]
<1>0. worker \in [Workers -> Process]
  BY DEF WorkerTypeOK
<1>1. CASE Begin(q) \/ RecoverLocalClaims(q) \/ Sweep(q) \/ MarkLost(q) \/ Poll(q)
           \/ ScheduleClaim(q) \/ Open(q)
  BY <1>0, <1>1 DEF Begin, RecoverLocalClaims, Sweep, MarkLost, Poll, ScheduleClaim, Open,
     Go, Rest, Die
<1>2. CASE Acquire(q) \/ Start(q) \/ Dispatched(q) \/ Finish(q) \/ Renew(q) \/ Stage(q)
  BY <1>0, <1>2 DEF Acquire, Start, Dispatched, Finish, Renew, Renewing, Stage, Go, Rest, Die
<1>3. CASE Commit(q) \/ Finalize(q) \/ RecordLost(q) \/ RenewInRun(q) \/ Crash(q) \/ StartProcess(q)
  BY <1>0, <1>3 DEF Commit, RefusedCompletion, Finalize, RecordLost, RenewInRun, Crash,
     StartProcess, Go, Rest, Die
<1> QED
  BY <1>1, <1>2, <1>3 DEF Moves, Step

Overtaken(p) ==
  /\ worker[p].pc \in {"acquire", "start", "dispatched", "run", "renew", "stage", "commit",
                       "finalize", "lost"}
  /\ worker'[p] # worker[p]
  /\ worker[p].token # claim[worker[p].dispatch].token

\* What an overtaken process leaves alone, and what it may do to its dispatch.
TablesUntouched ==
  UNCHANGED <<lane, delegation, claim, circuits, failures, verdicts, result, attempts>>

OnlyAcknowledges(p) ==
  LET k == worker[p].dispatch IN
  outbox' # outbox =>
    /\ worker[p].pc = "dispatched" /\ Live(k) /\ outbox[k].run = NONE
    /\ outbox' = [outbox EXCEPT ![k] = Acknowledged(@, k)]
    /\ outbox'[k].token = claim[k].token

\* What an overtaken process does is refused: its fence is not the claim's any more.
LEMMA OvertakenStep ==
  ASSUME WorkerInv, NEW p \in Workers, WorkerNext, Overtaken(p)
  PROVE  TablesUntouched /\ OnlyAcknowledges(p)
<1> USE DEF Overtaken
<1>0. ~Authorized(p) /\ ~MayRenew(p) /\ ~MayStage(p)
  BY DEF MayRenew, MayStage, Authorized, LiveWorker
<1>k. PICK k \in Keys : k = worker[p].dispatch
  BY DEF WorkerInv, ProcessFits, Holding
<1>q. SUFFICES ASSUME ~Dispatched(p)
               PROVE  UNCHANGED <<storeVars, result, attempts>>
  <2>1. CASE UNCHANGED <<storeVars, result, attempts>>
    BY <2>1 DEF TablesUntouched, OnlyAcknowledges, storeVars
  <2>2. CASE MarkDispatched(k, k) /\ UNCHANGED <<result, attempts>> /\ Dispatched(p)
    <3>1. outbox[k].token = claim[k].token /\ outbox \in [Keys -> OutboxRow]
      BY DEF WorkerInv, Identified, WorkerTypeOK, TypeOK
    <3>2. outbox' = [outbox EXCEPT ![k] = Acknowledged(@, k)]
      BY <2>2 DEF MarkDispatched
    <3>3. outbox'[k].token = outbox[k].token
      BY <3>1, <3>2 DEF Acknowledged, OutboxRow
    <3> QED
      BY <1>k, <2>2, <3>1, <3>2, <3>3 DEF MarkDispatched, Dispatched, TablesUntouched, OnlyAcknowledges
  <2>3. CASE Dispatched(p)
    BY <1>k, <2>1, <2>2, <2>3 DEF Dispatched
  <2> QED
    BY <2>1, <2>3
<1>1. Moves(p)
  BY OthersStay DEF WorkerNext, Moves, Environment, WorkerInv
<1>2. CASE Begin(p) \/ RecoverLocalClaims(p) \/ Sweep(p) \/ MarkLost(p) \/ Poll(p)
           \/ ScheduleClaim(p) \/ Open(p) \/ Dispatched(p) \/ StartProcess(p) \/ RenewInRun(p)
  BY <1>0, <1>2, <1>q DEF Begin, RecoverLocalClaims, Sweep, MarkLost, Poll, ScheduleClaim, Open,
     StartProcess, RenewInRun
<1>3. CASE Acquire(p) \/ Finish(p) \/ Crash(p)
  BY <1>0, <1>3 DEF Acquire, Finish, Crash
<1>4. CASE Start(p) \/ Renew(p)
  BY <1>0, <1>4 DEF Start, Renew, Renewing, storeVars
<1>5. CASE Stage(p)
  BY <1>0, <1>5 DEF Stage
<1>6. CASE Commit(p)
  <2>1. UNCHANGED <<result, attempts>>
    BY <1>6 DEF Commit
  <2>2. ASSUME result[k].state = "RESULT_READY",
               Terminal(k, worker[p].token, result[k].terminal, worker[p].clock)
        PROVE  FALSE
    <3>1. result[k].terminal \in {"COMPLETED", "BLOCKED"}
      BY <2>2 DEF WorkerInv, ResultFits
    <3> QED
      BY <1>k, <2>2, <3>1 DEF Terminal, MayTerminalize, LiveWorker
  <2>3. UNCHANGED <<storeVars, now>>
    BY <1>k, <1>6, <2>2 DEF Commit, RefusedCompletion
  <2> QED
    BY <2>1, <2>3
<1>7. CASE Finalize(p)
  <2>1. worker[p].pc = "finalize"
    BY <1>7 DEF Finalize
  <2> QED
    BY <2>1 DEF WorkerInv, ProcessFits
<1>8. CASE RecordLost(p)
  <2>1. ASSUME Owns(p), result[k].state = "RUNNING"
        PROVE  FALSE
    <3>1. Holding(p) /\ ProcessFits(p) /\ Identified(k)
      BY <1>8 DEF RecordLost, Holding, WorkerInv
    <3> QED
      BY <1>k, <2>1, <3>1 DEF ProcessFits, Identified
  <2> QED
    BY <1>k, <1>8, <2>1 DEF RecordLost
<1> QED
  BY <1>1, <1>2, <1>3, <1>4, <1>5, <1>6, <1>7, <1>8 DEF Moves, Step

\* A process whose dispatch was given a newer fence, at whatever point of run_once it wakes
\* up, changes nothing but its own state, or acknowledges the dispatch for the newer holder.
THEOREM OvertakenAreHarmless == WorkerSpec => OvertakenIsHarmless
<1>1. WorkerInv /\ [WorkerNext]_workerVars =>
        [\A p \in Workers :
           LET k == worker[p].dispatch IN
           /\ worker[p].pc \in {"acquire", "start", "dispatched", "run", "renew", "stage",
                                "commit", "finalize", "lost"}
           /\ worker'[p] # worker[p]
           /\ worker[p].token # claim[k].token
           => /\ UNCHANGED <<lane, delegation, claim, circuits, failures, verdicts, result, attempts>>
              /\ outbox' # outbox =>
                   /\ worker[p].pc = "dispatched" /\ Live(k) /\ outbox[k].run = NONE
                   /\ outbox' = [outbox EXCEPT ![k] = Acknowledged(@, k)]
                   /\ outbox'[k].token = claim[k].token]_workerVars
  BY OvertakenStep DEF Overtaken, TablesUntouched, OnlyAcknowledges
<1> QED
  BY <1>1, WorkerInvariant, PTL DEF WorkerSpec, OvertakenIsHarmless

-----------------------------------------------------------------------------
(* The lifecycle of delegations *)

\* What a step of the processes is to the store: a call, one of the two bypasses, or nothing.
LEMMA StepsOnStore ==
  ASSUME WorkerInv, WorkerNext
  PROVE  StoreCall \/ InPlace \/ UNCHANGED <<storeVars, now>>
<1> DEFINE Good == StoreCall \/ InPlace \/ UNCHANGED <<storeVars, now>>
<1>s. StoreInv
  BY DEF WorkerInv
<1>c. \A p \in Workers : worker[p].clock \in Nat
  BY DEF WorkerInv, WorkerTypeOK, Process
<1>n. now \in Nat /\ LeaseSeconds \in Nat
  BY WorkerAssumption DEF WorkerInv, WorkerTypeOK, TypeOK
<1>1. ASSUME NEW p \in Workers, RecoverLocalClaims(p)
      PROVE  Good
  <2>1. CASE Resuming(p)
    BY <2>1, <1>s, <1>c, ResumingRows
  <2> QED
    BY <1>1, <2>1 DEF RecoverLocalClaims, Resuming
<1>2. ASSUME NEW p \in Workers, Sweep(p)
      PROVE  Good
  BY <1>2, <1>c DEF Sweep, StoreCall, QuietCall
<1>3. ASSUME NEW p \in Workers, ScheduleClaim(p)
      PROVE  Good
  BY <1>3, <1>c, <1>n DEF ScheduleClaim, StoreCall, QuietCall
<1>4. ASSUME NEW p \in Workers, Start(p) \/ Renew(p) \/ RenewInRun(p)
      PROVE  Good
  <2>1. worker[p].dispatch \in Keys
    BY <1>4 DEF Start, Renew, RenewInRun, WorkerInv, ProcessFits, Holding
  <2>2. Extending \/ UNCHANGED <<storeVars, now>>
    BY <1>4, <1>c, <1>n, <2>1 DEF Start, Renew, RenewInRun, Renewing, MayRenew, Authorized,
       LiveWorker, Extending, storeVars
  <2> QED
    BY <1>s, <2>2, ExtendingKeeps
<1>5. ASSUME NEW p \in Workers, Dispatched(p)
      PROVE  Good
  <2>1. worker[p].dispatch \in Keys /\ worker[p].dispatch \in Runs
    BY <1>5, WorkerAssumption DEF Dispatched, WorkerInv, ProcessFits, Holding
  <2> QED
    BY <1>5, <2>1 DEF Dispatched, StoreCall, QuietCall
<1>6. ASSUME NEW p \in Workers, Commit(p)
      PROVE  Good
  <2>0. worker[p].dispatch \in Keys
    BY <1>6 DEF Commit, WorkerInv, ProcessFits, Holding
  <2>1. PICK k \in Keys, t \in {worker[p].token}, at \in Nat :
               k = worker[p].dispatch /\ at = worker[p].clock
    BY <1>c, <2>0
  <2>s. PICK s : s = result[k].terminal
    OBVIOUS
  <2>2. ASSUME result[k].state = "RESULT_READY", Terminal(k, t, s, at)
        PROVE  StoreCall
    <3>1. s \in {"COMPLETED", "BLOCKED"}
      BY <2>s, <2>2 DEF WorkerInv, ResultFits
    <3>2. t \in Issued
      BY <2>2, <3>1 DEF Terminal, MayTerminalize, LiveWorker, Issued
    <3> QED
      BY <2>2, <3>1, <3>2 DEF StoreCall
  <2> QED
    BY <1>6, <2>1, <2>s, <2>2 DEF Commit, RefusedCompletion
<1>7. ASSUME NEW p \in Workers,
             Begin(p) \/ MarkLost(p) \/ Poll(p) \/ Open(p) \/ Acquire(p) \/ Finish(p) \/ Stage(p)
             \/ Finalize(p) \/ RecordLost(p) \/ Crash(p) \/ StartProcess(p)
      PROVE  Good
  BY <1>7 DEF Begin, MarkLost, Poll, Open, Acquire, Finish, Stage, Finalize, RecordLost, Crash,
     StartProcess
<1>8. ASSUME Environment
      PROVE  Good
  <2>1. \A d \in Delegations : (d \in Independent) \in BOOLEAN
    OBVIOUS
  <2> QED
    BY <1>8, <1>n, <2>1 DEF Environment, StoreCall, QuietCall
<1> QED
  BY <1>1, <1>2, <1>3, <1>4, <1>5, <1>6, <1>7, <1>8 DEF WorkerNext, Step

\* The processes and the store together implement the delegation lifecycle, although the
\* processes resume and extend claims past the store's methods: one grant, one holder per
\* lane, one decision for each delegation.
THEOREM WorkersKeepTheLifecycle == WorkerSpec => ImplementsLifecycle
<1>1. WorkerInv /\ WorkerInv' /\ [WorkerNext]_workerVars => [Lifecycle!Next]_Lifecycle!lifecycle
  <2> SUFFICES ASSUME WorkerInv, WorkerInv', [WorkerNext]_workerVars
               PROVE  [Lifecycle!Next]_Lifecycle!lifecycle
    OBVIOUS
  <2>1. AgreementInv /\ AgreementInv' /\ TypeOK'
    BY DEF WorkerInv, StoreInv, WorkerTypeOK
  <2>2. CASE [AnyStep]_vars
    BY <2>1, <2>2, RefinementStep
  <2>3. CASE InPlace
    <3>1. \A k \in Keys : Live(k)' <=> Live(k)
      BY <2>3 DEF InPlace, Live
    <3>2. UNCHANGED <<held, delegation>>
      BY <2>3, <3>1, HeldUnchanged DEF InPlace
    <3> QED
      BY <3>2 DEF Lifecycle!lifecycle, phase, home, judged
  <2>4. [AnyStep]_vars \/ InPlace
    BY StepsOnStore, CallsAreSteps DEF workerVars, vars, storeVars
  <2> QED
    BY <2>2, <2>3, <2>4
<1>2. WorkerInit => Lifecycle!Init
  BY RefinementInit DEF WorkerInit
<1> QED
  BY <1>1, <1>2, WorkerInvariant, PTL DEF WorkerSpec, ImplementsLifecycle, Lifecycle!Spec

=============================================================================
