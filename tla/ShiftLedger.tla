------------------------------ MODULE ShiftLedger ------------------------------
(***************************************************************************)
(* The utilization ledger of a Second Shift lane and the two programs that *)
(* judge it: validateLedger of .github/scripts/second-shift-enforce.js,    *)
(* which the watchdog runs, and validateLedger of                          *)
(* .github/scripts/second-shift-state-kernel-v2.js, which its stress test  *)
(* calls the stricter kernel.                                              *)
(*                                                                         *)
(* A ledger grows by one event at a time.  Each program reads it from the  *)
(* first event and carries what it has seen; live and strict are what they *)
(* carry at the end of the ledger so far.  Both refuse an event without    *)
(* its required fields, of another lane, with a used identifier or an      *)
(* unreadable time; the events here are well formed.  An event that both   *)
(* programs refuse ends the ledger.                                        *)
(***************************************************************************)
EXTENDS Integers, Sequences

CONSTANTS
  Kinds,          \* the event types that are written
  Works,          \* a delegation and its objective
  Heads,          \* control heads
  Keys,           \* idempotency keys
  Leases,
  Dependencies,
  LastTime,
  MaxBudget,      \* limits.max_retry_budget
  MaxEvents,
  Null            \* null

\* Times and budgets are numbers; the head of an event is a commit and not null.
ASSUME LedgerAssumption == LastTime \in Nat /\ MaxBudget \in Nat /\ Null \notin Heads

Terminal == {"COMPLETED", "BLOCKED", "STALE"}
Working == {"RUNNING", "PROGRESS", "HEARTBEAT"}
Circuit == {"CIRCUIT_OPEN", "CIRCUIT_HALF_OPEN", "CIRCUIT_CLOSED"}
Plain == {"SHIFT_OPEN", "READY", "SUCCESSOR_BOUND", "ALL_RUNGS_EXHAUSTED", "IDLE_VALID",
          "SHIFT_CLOSE"}

VARIABLES ledger, live, strict

ledgerVars == <<ledger, live, strict>>

NoClaim == [work |-> Null, head |-> Null, key |-> Null, lease |-> Null, expires |-> 0]

Fresh == [clean |-> TRUE, opened |-> FALSE, closed |-> FALSE, last |-> 0,
          lease |-> NoClaim, keys |-> [k \in Keys |-> NoClaim], exhausted |-> Null]

LedgerInit ==
  /\ ledger = <<>>
  /\ live = [run |-> Fresh, terminal |-> FALSE]
  /\ strict = [run |-> Fresh, pending |-> FALSE,
               retry |-> [d \in Dependencies |-> [attempt |-> 0, budget |-> 0]],
               circuit |-> [d \in Dependencies |-> "CLOSED"]]

-----------------------------------------------------------------------------
(* The events                                                              *)

Times == 1..LastTime

ClaimEvents ==
  [type : Kinds \intersect {"CLAIMED"}, at : Times, head : Heads, work : Works, key : Keys,
   lease : Leases, expires : 1..(LastTime + 1)]

\* Of a claim: a heartbeat names its lease, and only what is stale may be a gap reconciled.
WorkEvents ==
  {e \in [type : Kinds \intersect (Working \union Terminal), at : Times, head : Heads,
          work : Works, key : Keys, lease : Leases \union {Null}, reconciled : BOOLEAN] :
     (e.type = "HEARTBEAT" => e.lease # Null) /\ (e.reconciled => e.type = "STALE")}

RetryEvents ==
  [type : Kinds \intersect {"RETRY"}, at : Times, head : Heads, dep : Dependencies,
   attempt : 0..(MaxBudget + 1), budget : 0..(MaxBudget + 1)]

CircuitEvents == [type : Kinds \intersect Circuit, at : Times, head : Heads, dep : Dependencies]

\* Of the lane; valid is whether a proof of exhaustion has its eight rungs.
LaneEvents ==
  [type : Kinds \intersect Plain, at : Times, head : Heads, valid : BOOLEAN]

LedgerEvents ==
  ClaimEvents \union WorkEvents \union RetryEvents \union CircuitEvents
    \union {e \in LaneEvents : e.type = "ALL_RUNGS_EXHAUSTED" \/ e.valid}

\* What a claim is about; the lease it was given is a part of it for the watchdog only.
Claim(e) == [work |-> e.work, head |-> e.head, key |-> e.key, lease |-> e.lease,
             expires |-> e.expires]
SameWork(c, d) == c.work = d.work /\ c.head = d.head
Claimed(r) == r.lease # NoClaim

-----------------------------------------------------------------------------
(* What both programs do                                                   *)

Disorder(r, e) ==
  \/ e.at < r.last
  \/ r.closed
  \/ e.type = "SHIFT_OPEN" <=> r.opened

\* Where the whole claim stands for a key, an event that was refused leaves the first.
Remember(r, e, reused) ==
  IF e.type = "CLAIMED" /\ ~reused THEN [r.keys EXCEPT ![e.key] = Claim(e)] ELSE r.keys

Carry(r, e, fault, lease, reused, exhausted) ==
  [r EXCEPT !.clean = @ /\ ~fault, !.last = e.at,
            !.opened = @ \/ e.type = "SHIFT_OPEN",
            !.closed = @ \/ e.type = "SHIFT_CLOSE",
            !.lease = lease, !.keys = Remember(r, e, reused), !.exhausted = exhausted]

RetryFault(e) ==
  e.attempt < 1 \/ e.budget < 1 \/ e.attempt > e.budget \/ e.budget > MaxBudget

-----------------------------------------------------------------------------
(* The watchdog's program                                                  *)

\* leaseMatches
LiveMatch(r, e) ==
  /\ Claimed(r)
  /\ SameWork(r.lease, e) /\ r.lease.key = e.key /\ r.lease.lease = e.lease

LiveReuse(r, e) ==
  LET prior == r.keys[e.key] IN
  prior # NoClaim /\ ~(SameWork(prior, e) /\ prior.lease = e.lease)

LiveFault(s, e) ==
  LET r == s.run IN
  \/ Disorder(r, e)
  \/ e.type = "CLAIMED" /\ (LiveReuse(r, e) \/ Claimed(r))
  \/ e.type \in Working \union Terminal /\ ~LiveMatch(r, e)
  \/ e.type = "RETRY" /\ RetryFault(e)
  \/ e.type = "ALL_RUNGS_EXHAUSTED" /\ ~e.valid
  \/ e.type = "IDLE_VALID" /\ r.exhausted # e.head
  \/ e.type = "SUCCESSOR_BOUND" /\ ~s.terminal
  \/ e.type = "SHIFT_CLOSE" /\ Claimed(r)

LiveLease(r, e) ==
  IF e.type = "CLAIMED" /\ ~Claimed(r) THEN Claim(e)
  ELSE IF e.type \in Terminal /\ LiveMatch(r, e) THEN NoClaim ELSE r.lease

LiveStep(s, e) ==
  LET r == s.run IN
  [run |-> Carry(r, e, LiveFault(s, e), LiveLease(r, e),
                 e.type = "CLAIMED" /\ LiveReuse(r, e),
                 IF e.type = "ALL_RUNGS_EXHAUSTED" THEN e.head ELSE r.exhausted),
   terminal |-> s.terminal \/ (e.type \in Terminal /\ LiveMatch(r, e))]

-----------------------------------------------------------------------------
(* The kernel                                                              *)

StrictMatch(r, e) ==
  /\ Claimed(r)
  /\ SameWork(r.lease, e) /\ r.lease.key = e.key
  /\ e.lease \in {Null, r.lease.lease}

\* The identity that a key is kept for does not hold the lease.
StrictReuse(r, e) ==
  LET prior == r.keys[e.key] IN prior # NoClaim /\ ~SameWork(prior, e)

Late(r, e) == e.at > r.lease.expires

\* Faulty: an attempt that comes after the lease has run out counts.
FaultyStrictClaimFault(s, e) ==
  LET r == s.run IN
  \/ e.type = "CLAIMED" /\ (Claimed(r) \/ e.expires <= e.at \/ StrictReuse(r, e))
  \/ e.type \in Working \union Terminal /\ ~StrictMatch(r, e)

StrictClaimFault(s, e) ==
  LET r == s.run IN
  \/ e.type = "CLAIMED" /\ (Claimed(r) \/ e.expires <= e.at \/ StrictReuse(r, e))
  \/ e.type \in Working /\ (~StrictMatch(r, e) \/ Late(r, e))
  \/ /\ e.type \in Terminal
     /\ IF Claimed(r) THEN ~StrictMatch(r, e) \/ (Late(r, e) /\ e.type # "STALE")
                     ELSE ~(e.type = "STALE" /\ e.reconciled)

CircuitFault(s, e) ==
  \/ /\ e.type = "CIRCUIT_OPEN"
     /\ s.retry[e.dep].attempt = 0 \/ s.retry[e.dep].attempt # s.retry[e.dep].budget
  \/ e.type = "CIRCUIT_HALF_OPEN" /\ s.circuit[e.dep] # "OPEN"
  \/ e.type = "CIRCUIT_CLOSED" /\ s.circuit[e.dep] # "HALF_OPEN"

SuccessionFault(s, e) ==
  LET r == s.run IN
  \/ e.type = "READY" /\ (Claimed(r) \/ s.pending)
  \/ e.type = "SUCCESSOR_BOUND" /\ ~s.pending
  \/ e.type = "ALL_RUNGS_EXHAUSTED" /\ (~e.valid \/ Claimed(r))
  \/ e.type = "IDLE_VALID" /\ (r.exhausted # e.head \/ Claimed(r))
  \/ e.type = "SHIFT_CLOSE" /\ Claimed(r)

StrictFault(s, e) ==
  \/ Disorder(s.run, e) \/ StrictClaimFault(s, e) \/ SuccessionFault(s, e)
  \/ e.type = "RETRY" /\ RetryFault(e)
  \/ CircuitFault(s, e)

StrictLease(r, e) ==
  IF e.type = "CLAIMED" THEN Claim(e)
  ELSE IF e.type \in Terminal /\ StrictMatch(r, e) THEN NoClaim ELSE r.lease

StrictExhausted(r, e) ==
  IF e.type = "ALL_RUNGS_EXHAUSTED" THEN e.head
  ELSE IF e.type = "SUCCESSOR_BOUND" THEN Null ELSE r.exhausted

StrictStep(s, e) ==
  LET r == s.run IN
  [run |-> Carry(r, e, StrictFault(s, e), StrictLease(r, e),
                 e.type = "CLAIMED" /\ StrictReuse(r, e), StrictExhausted(r, e)),
   pending |-> \/ e.type \in Terminal /\ StrictMatch(r, e)
               \/ s.pending /\ e.type \notin {"CLAIMED", "SUCCESSOR_BOUND", "ALL_RUNGS_EXHAUSTED"},
   retry |-> IF e.type # "RETRY" THEN s.retry
             ELSE [s.retry EXCEPT ![e.dep] = [attempt |-> e.attempt, budget |-> e.budget]],
   circuit |-> IF e.type \notin Circuit THEN s.circuit
               ELSE [s.circuit EXCEPT ![e.dep] =
                       IF e.type = "CIRCUIT_OPEN" THEN "OPEN"
                       ELSE IF e.type = "CIRCUIT_HALF_OPEN" THEN "HALF_OPEN" ELSE "CLOSED"]]

-----------------------------------------------------------------------------

Write(e) ==
  /\ ledger' = Append(ledger, e)
  /\ live' = LiveStep(live, e)
  /\ strict' = StrictStep(strict, e)
  /\ live'.run.clean \/ strict'.run.clean

LedgerNext ==
  /\ Len(ledger) < MaxEvents
  /\ \E e \in LedgerEvents : Write(e)

LedgerSpec == LedgerInit /\ [][LedgerNext]_ledgerVars

-----------------------------------------------------------------------------
(* Properties                                                              *)

Positions == DOMAIN ledger
Is(i, types) == ledger[i].type \in types
\* There is an event of these types after the i-th and before the j-th.
Between(i, j, types) == \E k \in (i + 1)..(j - 1) : Is(k, types)

\* In a ledger that either program accepts so far, a claim is released, by an event of its
\* own work, head and key, before the next one is made.
ClaimsAreReleased ==
  live.run.clean \/ strict.run.clean =>
    \A i, j \in Positions : i < j /\ Is(i, {"CLAIMED"}) /\ Is(j, {"CLAIMED"}) =>
      \E k \in (i + 1)..(j - 1) : /\ Is(k, Terminal) /\ SameWork(ledger[i], ledger[k])
                                  /\ ledger[i].key = ledger[k].key

\* What the watchdog accepts as work, or as its end, names the lease of the last claim.
WorkNamesItsLease ==
  live.run.clean =>
    \A j \in Positions : Is(j, Working \union Terminal) =>
      \E i \in 1..(j - 1) :
        /\ Is(i, {"CLAIMED"}) /\ ~Between(i, j, Terminal \union {"CLAIMED"})
        /\ SameWork(ledger[i], ledger[j])
        /\ ledger[i].key = ledger[j].key /\ ledger[i].lease = ledger[j].lease

\* What the kernel accepts as work, or as its result, lies inside a claim and comes before
\* that claim runs out.
WorkIsInTime ==
  strict.run.clean =>
    \A j \in Positions : Is(j, Working \union {"COMPLETED", "BLOCKED"}) =>
      \E i \in 1..(j - 1) :
        /\ Is(i, {"CLAIMED"}) /\ ~Between(i, j, Terminal)
        /\ SameWork(ledger[i], ledger[j]) /\ ledger[i].key = ledger[j].key
        /\ ledger[j].at <= ledger[i].expires

\* A circuit that the kernel accepts is opened when the last retry of its dependency was
\* the last of its budget, tried only when open and closed only when tried.
CircuitIsEarned ==
  LET last(j, types) == {i \in 1..(j - 1) : /\ Is(i, types) /\ ledger[i].dep = ledger[j].dep
                                             /\ \A k \in (i + 1)..(j - 1) :
                                                  Is(k, types) => ledger[k].dep # ledger[j].dep}
  IN strict.run.clean =>
       \A j \in Positions :
         /\ Is(j, {"CIRCUIT_OPEN"}) =>
              \E i \in last(j, {"RETRY"}) : /\ ledger[i].attempt = ledger[i].budget
                                            /\ ledger[i].budget \in 1..MaxBudget
         /\ Is(j, {"CIRCUIT_HALF_OPEN"}) => \E i \in last(j, Circuit) : Is(i, {"CIRCUIT_OPEN"})
         /\ Is(j, {"CIRCUIT_CLOSED"}) => \E i \in last(j, Circuit) : Is(i, {"CIRCUIT_HALF_OPEN"})

\* After a released claim the kernel accepts READY only when a successor was bound, or the
\* lane proved exhausted, since then.
ReadyHasSuccessor ==
  strict.run.clean =>
    \A i, j \in Positions :
      i < j /\ Is(i, {"COMPLETED", "BLOCKED"}) /\ Is(j, {"READY"}) =>
        Between(i, j, {"SUCCESSOR_BOUND", "ALL_RUNGS_EXHAUSTED"})

\* The kernel accepts idleness only on a proof of the same head that no successor was bound
\* after, and with every claim released.
IdleIsProven ==
  strict.run.clean =>
    \A j \in Positions : Is(j, {"IDLE_VALID"}) =>
      /\ \E i \in 1..(j - 1) : /\ Is(i, {"ALL_RUNGS_EXHAUSTED"}) /\ ledger[i].valid
                               /\ ledger[i].head = ledger[j].head
                               /\ ~Between(i, j, {"SUCCESSOR_BOUND"})
      /\ \A i \in 1..(j - 1) : Is(i, {"CLAIMED"}) => Between(i, j, Terminal)

\* The kernel calls itself the stricter program: what it accepts, the watchdog accepts, where
\* every event of a claim names the lease, no key is used for two leases and no gap is
\* reconciled.
StricterWhereNamed ==
  /\ strict.run.clean
  /\ \A i \in Positions : Is(i, Working \union Terminal) =>
       ledger[i].lease # Null /\ ~ledger[i].reconciled
  /\ \A i, j \in Positions :
       Is(i, {"CLAIMED"}) /\ Is(j, {"CLAIMED"}) /\ ledger[i].key = ledger[j].key =>
         ledger[i].lease = ledger[j].lease
  => live.run.clean

\* All of this, of every ledger that the validators accept so far: a claim is released, by
\* its own work, head and key, before the next one; work names the lease of the last claim
\* and lies inside it and inside its time; circuits open, are tried and close in turn; after
\* a released claim READY needs a successor or a proof of exhaustion, and idleness needs that
\* proof; what the kernel accepts the watchdog accepts where leases are named.
LedgersAreConsistent ==
  /\ ClaimsAreReleased /\ WorkNamesItsLease /\ WorkIsInTime
  /\ CircuitIsEarned /\ ReadyHasSuccessor /\ IdleIsProven
  /\ StricterWhereNamed

=============================================================================
