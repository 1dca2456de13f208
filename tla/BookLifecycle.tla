---------------------------- MODULE BookLifecycle ----------------------------
(***************************************************************************)
(* The lifecycle of one Book: its macro phases in their frozen order, what *)
(* is recorded about each, and the operations that move them              *)
(* (system-master/book-system/book-lifecycle-state-machine.js).            *)
(*                                                                         *)
(* Every operation is a mutator inside `mutate`: it changes a copy of the  *)
(* state, the copy's readiness is refreshed, and the copy is sealed.  An   *)
(* operation that throws leaves the state as it was.                       *)
(*                                                                         *)
(* A phase's required inputs and decisions are one set of items, for every *)
(* guard asks for both.  References other than receipts and checkpoints,   *)
(* timestamps, versions and digests are left out; so are the operations    *)
(* of a phase, which only the wording of the next step depends on, and the *)
(* source identity, which is fixed when the lifecycle is created.          *)
(***************************************************************************)
EXTENDS Naturals

CONSTANTS
  PhaseCount,   \* length of contract.phase_order
  Items,        \* inputs and decisions
  Required,     \* Required[p]: the ones phase p needs
  Mandatory,    \* phases whose applicability mode is MANDATORY
  Requires,     \* <<p, q>>: a profile with flag p needs flag q
  Reopenable,   \* phases whose reopen_rules.allowed is true
  Events,       \* for every invalidation event with fixed targets, the targets
  Receipts,     \* completion receipts
  Checkpoints,
  NONE

Phases == 1 .. PhaseCount

\* What validateContract demands of the contract, as far as it is modelled.
ASSUME ContractAssumption ==
  /\ PhaseCount \in Nat \ {0}
  /\ Required \in [Phases -> SUBSET Items]
  /\ Mandatory \subseteq Phases
  /\ Requires \subseteq Phases \X Phases
  /\ Reopenable \subseteq Phases
  /\ Events \subseteq SUBSET Phases
  /\ NONE \notin Receipts
  /\ NONE \notin Checkpoints

Statuses == {"NOT_APPLICABLE", "PENDING", "READY", "ACTIVE", "BLOCKED", "STALE",
             "COMPLETE", "CANCELLED"}

PhaseState == [status     : Statuses,
               done       : SUBSET Items,
               gate       : BOOLEAN,
               receipt    : Receipts \union {NONE},
               superseded : SUBSET Receipts,
               checkpoint : Checkpoints \union {NONE}]

VARIABLES
  profile,   \* the applicable phases
  phase      \* phase[p] \in PhaseState

vars == <<profile, phase>>

-----------------------------------------------------------------------------
(* Helpers                                                                 *)

\* A profile that passes validateProfile: mandatory phases apply, and no flag
\* is set without the flags it requires.
ValidProfile(P) ==
  /\ Mandatory \subseteq P
  /\ \A r \in Requires : r[1] \in P => r[2] \in P

Template(p, P) ==
  [status     |-> IF p \in P THEN "PENDING" ELSE "NOT_APPLICABLE",
   done       |-> {},
   gate       |-> FALSE,
   receipt    |-> NONE,
   superseded |-> {},
   checkpoint |-> NONE]

PrerequisitesSatisfied(p, P, f) ==
  \A q \in P : q < p => f[q].status = "COMPLETE"

\* The first pending phase becomes READY when everything before it is COMPLETE.
\* No other pending phase can have its prerequisites satisfied.
Refresh(P, f) ==
  [p \in Phases |->
     IF /\ p \in P
        /\ f[p].status = "PENDING"
        /\ PrerequisitesSatisfied(p, P, f)
     THEN [f[p] EXCEPT !.status = "READY"]
     ELSE f[p]]

Mutate(P, f) ==
  /\ profile' = P
  /\ phase' = Refresh(P, f)

Mutable(p, allowed) ==
  /\ p \in profile
  /\ phase[p].status \in allowed

\* A completion receipt that stops being the current one stays as provenance.
Superseded(s) ==
  IF s.status = "COMPLETE" /\ s.receipt # NONE
  THEN s.superseded \union {s.receipt}
  ELSE s.superseded

\* Faulty: a stale phase keeps its gate and its receipt.
FaultyStaleOneKeepsEvidence(s) ==
  IF s.status \in {"PENDING", "NOT_APPLICABLE"}
  THEN s
  ELSE [s EXCEPT !.superseded = Superseded(s), !.status = "STALE"]

StaleOne(s) ==
  IF s.status \in {"PENDING", "NOT_APPLICABLE"}
  THEN s
  ELSE [s EXCEPT !.superseded = Superseded(s),
                 !.status     = "STALE",
                 !.gate       = FALSE,
                 !.receipt    = NONE]

StaleAll(f, targets) ==
  [p \in Phases |-> IF p \in targets THEN StaleOne(f[p]) ELSE f[p]]

-----------------------------------------------------------------------------
(* Operations                                                              *)

RecordPhaseProgress(p, items) ==
  /\ Mutable(p, {"READY", "ACTIVE", "BLOCKED"})
  /\ items \subseteq Required[p]
  /\ Mutate(profile, [phase EXCEPT ![p].done = @ \union items])

StartPhase(p) ==
  /\ Mutable(p, {"READY"})
  /\ Mutate(profile, [phase EXCEPT ![p].status = "ACTIVE"])

CompletePhase(p, r) ==
  /\ Mutable(p, {"READY", "ACTIVE"})
  /\ Required[p] \subseteq phase[p].done
  /\ Mutate(profile, [phase EXCEPT ![p].status     = "COMPLETE",
                                   ![p].gate       = TRUE,
                                   ![p].receipt    = r,
                                   ![p].checkpoint = NONE])

BlockPhase(p) ==
  /\ Mutable(p, {"READY", "ACTIVE"})
  /\ Mutate(profile, [phase EXCEPT ![p].status = "BLOCKED"])

UnblockPhase(p) ==
  /\ Mutable(p, {"BLOCKED"})
  /\ Mutate(profile, [phase EXCEPT ![p].status = "READY"])

\* With includeDownstream the phase and all later ones, otherwise it alone.
MarkPhaseStale(p, includeDownstream) ==
  Mutate(profile,
         StaleAll(phase, IF includeDownstream THEN p .. PhaseCount ELSE {p}))

Reopened(s) ==
  [s EXCEPT !.superseded = Superseded(s),
            !.status     = "READY",
            !.gate       = FALSE,
            !.receipt    = NONE,
            !.checkpoint = NONE]

ReopenPhase(p) ==
  /\ p \in Reopenable
  /\ Mutable(p, {"COMPLETE", "STALE", "BLOCKED", "CANCELLED"})
  /\ Mutate(profile, StaleAll([phase EXCEPT ![p] = Reopened(@)], p + 1 .. PhaseCount))

CancelPhase(p, c) ==
  /\ Mutable(p, {"READY", "ACTIVE", "BLOCKED", "STALE"})
  /\ Mutate(profile, [phase EXCEPT ![p].status     = "CANCELLED",
                                   ![p].checkpoint = c])

\* Only with the phase's own checkpoint, if it has one.
RecoverPhase(p, c) ==
  /\ Mutable(p, {"CANCELLED", "STALE"})
  /\ phase[p].checkpoint \in {NONE, c}
  /\ Mutate(profile, [phase EXCEPT ![p].status     = "READY",
                                   ![p].checkpoint = NONE])

\* A phase enters the profile pending, and everything after the first phase that
\* enters is stale; a phase that leaves keeps its receipt as provenance only.
Entering(s) == [s EXCEPT !.status = "PENDING", !.checkpoint = NONE]

\* Faulty: a phase that leaves the profile drops its receipt.
FaultyLeavingForgets(s) ==
  [s EXCEPT !.status     = "NOT_APPLICABLE",
            !.gate       = FALSE,
            !.receipt    = NONE,
            !.checkpoint = NONE]

Leaving(s) ==
  [s EXCEPT !.superseded = Superseded(s),
            !.status     = "NOT_APPLICABLE",
            !.gate       = FALSE,
            !.receipt    = NONE,
            !.checkpoint = NONE]

AfterFirstEntry(P) == {p \in Phases : \E q \in P \ profile : q < p}

ReprofileLifecycle(P) ==
  /\ ValidProfile(P)
  /\ LET moved == [p \in Phases |->
                     IF p \in P \ profile THEN Entering(phase[p])
                     ELSE IF p \in profile \ P THEN Leaving(phase[p])
                     ELSE phase[p]]
     IN  Mutate(P, StaleAll(moved, AfterFirstEntry(P)))

\* An invalidation event has its targets in the contract, or its caller names
\* the earliest phase affected and all from there on are its targets.
ApplyInvalidationEvent(targets) == Mutate(profile, StaleAll(phase, targets))

InvalidationTargets == Events \union {p .. PhaseCount : p \in Phases}

Operation ==
  \/ \E p \in Phases :
       \/ \E items \in SUBSET Required[p] : RecordPhaseProgress(p, items)
       \/ StartPhase(p)
       \/ \E r \in Receipts : CompletePhase(p, r)
       \/ BlockPhase(p)
       \/ UnblockPhase(p)
       \/ \E includeDownstream \in BOOLEAN : MarkPhaseStale(p, includeDownstream)
       \/ ReopenPhase(p)
       \/ \E c \in Checkpoints : CancelPhase(p, c) \/ RecoverPhase(p, c)
  \/ \E P \in SUBSET Phases : ReprofileLifecycle(P)
  \/ \E targets \in InvalidationTargets : ApplyInvalidationEvent(targets)

Init ==
  \E P \in SUBSET Phases :
    /\ ValidProfile(P)
    /\ profile = P
    /\ phase = Refresh(P, [p \in Phases |-> Template(p, P)])

Spec == Init /\ [][Operation]_vars

-----------------------------------------------------------------------------
(* The next step                                                           *)

\* Applicable phases that are not COMPLETE; calculateNextStep works on the first.
Open == {p \in profile : phase[p].status # "COMPLETE"}

FirstOpen(p) == p \in Open /\ \A q \in Open : p <= q

NextAction(p) ==
  CASE phase[p].status = "BLOCKED"           -> "RESOLVE_BLOCKER"
    [] phase[p].status = "STALE"             -> "REVALIDATE_OR_REOPEN"
    [] phase[p].status = "CANCELLED"         -> "RECOVER_PHASE"
    [] /\ phase[p].status \in {"PENDING", "READY", "ACTIVE"}
       /\ ~ Required[p] \subseteq phase[p].done -> "PROVIDE_INPUT_OR_DECISION"
    [] OTHER -> IF phase[p].status = "PENDING" THEN "WAIT_FOR_PREREQUISITE"
                ELSE IF phase[p].status = "READY" THEN "START_PHASE"
                ELSE "SEAL_PHASE_COMPLETION"

\* A caller that does what calculateNextStep says and nothing else.
Guided ==
  \E p \in Phases :
    /\ FirstOpen(p)
    /\ \/ NextAction(p) = "RESOLVE_BLOCKER" /\ UnblockPhase(p)
       \/ NextAction(p) = "REVALIDATE_OR_REOPEN"
            /\ (ReopenPhase(p) \/ \E c \in Checkpoints : RecoverPhase(p, c))
       \/ NextAction(p) = "RECOVER_PHASE" /\ \E c \in Checkpoints : RecoverPhase(p, c)
       \/ NextAction(p) = "PROVIDE_INPUT_OR_DECISION"
            /\ \E i \in Required[p] \ phase[p].done : RecordPhaseProgress(p, {i})
       \/ NextAction(p) = "START_PHASE" /\ StartPhase(p)
       \/ NextAction(p) = "SEAL_PHASE_COMPLETION" /\ \E r \in Receipts : CompletePhase(p, r)

-----------------------------------------------------------------------------
(* Properties                                                              *)

TypeOK ==
  /\ profile \subseteq Phases
  /\ phase \in [Phases -> PhaseState]

\* A phase whose state validateLifecycleState accepts.
PhaseValid(p) ==
  /\ p \in profile <=> phase[p].status # "NOT_APPLICABLE"
  /\ phase[p].done \subseteq Required[p]
  /\ phase[p].status = "COMPLETE" =>
       /\ phase[p].gate
       /\ phase[p].receipt # NONE
       /\ Required[p] \subseteq phase[p].done
  /\ phase[p].status = "CANCELLED" => phase[p].checkpoint # NONE

\* Whatever sequence of operations, in whatever order the phases were reopened,
\* recovered or taken into the profile, the state passes the validation that
\* every operation runs on its result (so that none is refused by it, and the
\* next one is not refused by the validation of its input), and evidence that
\* counts, a gate passed or a current receipt, is held by completed phases only.
EvidenceIsExact ==
  /\ ValidProfile(profile)
  /\ \A p \in Phases :
       /\ PhaseValid(p)
       /\ (phase[p].gate \/ phase[p].receipt # NONE) => phase[p].status = "COMPLETE"

\* The phase that calculateNextStep selects is never a pending one: the caller is
\* not told to wait for a prerequisite that nothing will satisfy, nor to
\* provide an input that recordPhaseProgress refuses in a pending phase.
NextStepIsWorkable ==
  \A p \in Phases : FirstOpen(p) => phase[p].status # "PENDING"

\* In every reachable state both hold: the validation passes with evidence where it
\* belongs, and the selected phase can be worked on.
StateIsSound == EvidenceIsExact /\ NextStepIsWorkable

\* No operation drops a completion receipt: one that stops being current is among
\* the superseded ones afterwards, and those are never forgotten.
ReceiptsAreKept ==
  [][\A p \in Phases :
       /\ phase[p].superseded \subseteq phase'[p].superseded
       /\ phase[p].receipt \notin {NONE, phase'[p].receipt} =>
            phase[p].receipt \in phase'[p].superseded]_vars

\* A caller that only does what calculateNextStep says completes the lifecycle,
\* whatever was done to it before.
GuidanceConverges == <>[][Guided]_vars => <>(Open = {})

=============================================================================
