------------------------------ MODULE BookProofs ------------------------------
(***************************************************************************)
(* Theorems about the book system, a part for each of its modules: the     *)
(* lifecycle of a book's phases for every contract, the durable store for  *)
(* any number of writers and crashes, the workflow for any requests in any *)
(* order, and the admission of plans for any tasks.                        *)
(***************************************************************************)
EXTENDS BookLifecycle, BookStore, BookWorkflow, BookPlan, SequenceTheorems,
        FiniteSetTheorems, TLAPS

-----------------------------------------------------------------------------
(* Lifecycle. An operation changes a copy of the state, and Refresh then   *)
(* makes the first pending phase ready: the proofs show of each operation  *)
(* that its copy is exact and drops no receipt, and once for all what      *)
(* Refresh adds.                                                           *)

\* What EvidenceIsExact and TypeOK ask of phase p when P applies and s is its state.
Exact(p, P, s) ==
  /\ s \in PhaseState
  /\ p \in P <=> s.status # "NOT_APPLICABLE"
  /\ s.done \subseteq Required[p]
  /\ s.status = "COMPLETE" => s.gate /\ s.receipt # NONE /\ Required[p] \subseteq s.done
  /\ s.status = "CANCELLED" => s.checkpoint # NONE
  /\ s.gate \/ s.receipt # NONE => s.status = "COMPLETE"

ExactState(P, f) ==
  /\ P \subseteq Phases /\ ValidProfile(P)
  /\ f \in [Phases -> PhaseState]
  /\ \A p \in Phases : Exact(p, P, f[p])

\* No receipt of s is lost in t.
Kept(s, t) ==
  /\ s.superseded \subseteq t.superseded
  /\ s.receipt \notin {NONE, t.receipt} => s.receipt \in t.superseded

\* A pending phase has an open one before it.
Waits(P, f) ==
  \A p \in P : f[p].status = "PENDING" => ~PrerequisitesSatisfied(p, P, f)

\* The inductive invariant.
Inv == ExactState(profile, phase) /\ Waits(profile, phase)

-----------------------------------------------------------------------------

LEMMA InvImplies == Inv => TypeOK /\ EvidenceIsExact
  BY DEF Inv, ExactState, Exact, TypeOK, EvidenceIsExact, PhaseValid

\* The first open phase waits for nothing.
LEMMA WaitsImplies == Inv => NextStepIsWorkable
<1> SUFFICES ASSUME Inv, NEW p \in Phases, FirstOpen(p), phase[p].status = "PENDING"
             PROVE  FALSE
  BY DEF NextStepIsWorkable
<1>1. p \in profile
  BY DEF FirstOpen, Open
<1>2. PICK q \in profile : q < p /\ phase[q].status # "COMPLETE"
  BY <1>1 DEF Inv, Waits, PrerequisitesSatisfied
<1>3. q \in Open /\ q \in Nat /\ p \in Nat
  BY <1>2, ContractAssumption DEF Open, Inv, ExactState, Phases
<1> QED
  BY <1>2, <1>3 DEF FirstOpen

LEMMA KeptTrans ==
  ASSUME NEW s, NEW t, NEW u, Kept(s, t), Kept(t, u)
  PROVE  Kept(s, u)
  BY DEF Kept

\* Refresh turns pending phases into ready ones and does nothing else, and after it
\* every phase that is still pending waits.
LEMMA RefreshLemma ==
  ASSUME NEW P, NEW f, ExactState(P, f)
  PROVE  /\ ExactState(P, Refresh(P, f))
         /\ Waits(P, Refresh(P, f))
         /\ \A p \in Phases : Kept(f[p], Refresh(P, f)[p])
<1> DEFINE g == Refresh(P, f)
<1>1. \A p \in Phases : \/ g[p] = f[p]
                        \/ /\ p \in P /\ f[p].status = "PENDING"
                           /\ g[p] = [f[p] EXCEPT !.status = "READY"]
  BY DEF Refresh
<1>2. \A p \in Phases : f[p] \in PhaseState
  BY DEF ExactState
<1>3. \A p \in Phases : Exact(p, P, g[p]) /\ Kept(f[p], g[p])
  <2> TAKE p \in Phases
  <2>1. Exact(p, P, f[p])
    BY DEF ExactState
  <2>2. CASE g[p] = f[p]
    BY <2>1, <2>2 DEF Kept
  <2>3. CASE p \in P /\ f[p].status = "PENDING" /\ g[p] = [f[p] EXCEPT !.status = "READY"]
    BY <2>1, <2>3 DEF Exact, Kept, PhaseState, Statuses
  <2> QED
    BY <1>1, <2>2, <2>3
<1>4. g \in [Phases -> PhaseState]
  BY <1>3 DEF Exact, Refresh
<1>5. Waits(P, g)
  <2> SUFFICES ASSUME NEW p \in P, g[p].status = "PENDING"
               PROVE  ~PrerequisitesSatisfied(p, P, g)
    BY DEF Waits
  <2>1. p \in Phases
    BY DEF ExactState
  <2>2. f[p].status = "PENDING" /\ ~PrerequisitesSatisfied(p, P, f)
    BY <2>1, <1>2 DEF Refresh, PhaseState
  <2>3. PICK q \in P : q < p /\ f[q].status # "COMPLETE"
    BY <2>2 DEF PrerequisitesSatisfied
  <2>4. q \in Phases /\ f[q] \in PhaseState
    BY <1>2 DEF ExactState
  <2>5. \/ g[q] = f[q]
        \/ g[q] = [f[q] EXCEPT !.status = "READY"]
    BY <1>1, <2>4
  <2>6. g[q].status # "COMPLETE"
    BY <2>3, <2>4, <2>5 DEF PhaseState
  <2> QED
    BY <2>3, <2>6 DEF PrerequisitesSatisfied
<1> QED
  BY <1>3, <1>4, <1>5 DEF ExactState

LEMMA MutateLemma ==
  ASSUME NEW P, NEW f, ExactState(P, f), \A p \in Phases : Kept(phase[p], f[p]), Mutate(P, f)
  PROVE  Inv' /\ \A p \in Phases : Kept(phase[p], phase'[p])
<1>1. profile' = P /\ phase' = Refresh(P, f)
  BY DEF Mutate
<1>2. Inv'
  BY <1>1, RefreshLemma DEF Inv
<1>3. \A p \in Phases : Kept(phase[p], phase'[p])
  BY <1>1, RefreshLemma, KeptTrans
<1> QED
  BY <1>2, <1>3

\* An operation that replaces the state of one phase.
LEMMA OneLemma ==
  ASSUME Inv, NEW p \in Phases, NEW s, Exact(p, profile, s), Kept(phase[p], s)
  PROVE  LET f == [phase EXCEPT ![p] = s] IN
           ExactState(profile, f) /\ \A q \in Phases : Kept(phase[q], f[q])
<1> DEFINE f == [phase EXCEPT ![p] = s]
<1>1. phase \in [Phases -> PhaseState] /\ \A q \in Phases : Exact(q, profile, phase[q])
  BY DEF Inv, ExactState
<1>2. s \in PhaseState
  BY DEF Exact
<1>3. f \in [Phases -> PhaseState]
  BY <1>1, <1>2
<1>4. \A q \in Phases : f[q] = IF q = p THEN s ELSE phase[q]
  BY <1>1
<1>5. \A q \in Phases : Exact(q, profile, f[q]) /\ Kept(phase[q], f[q])
  BY <1>1, <1>4 DEF Kept
<1> QED
  BY <1>3, <1>5 DEF Inv, ExactState

LEMMA SupersededType ==
  ASSUME NEW s \in PhaseState
  PROVE  Superseded(s) \in SUBSET Receipts
  BY DEF Superseded, PhaseState

LEMMA StaleOneLemma ==
  ASSUME NEW p, NEW P, NEW s, Exact(p, P, s)
  PROVE  Exact(p, P, StaleOne(s)) /\ Kept(s, StaleOne(s))
<1>1. CASE s.status \in {"PENDING", "NOT_APPLICABLE"}
  BY <1>1 DEF StaleOne, Kept
<1>2. CASE s.status \notin {"PENDING", "NOT_APPLICABLE"}
  <2> DEFINE t == [s EXCEPT !.superseded = Superseded(s), !.status = "STALE",
                            !.gate = FALSE, !.receipt = NONE]
  <2>1. StaleOne(s) = t
    BY <1>2 DEF StaleOne
  <2>2. s \in PhaseState
    BY DEF Exact
  <2>3. t \in PhaseState
    BY <2>2, SupersededType DEF PhaseState, Statuses
  <2>4. /\ t.status = "STALE" /\ t.gate = FALSE /\ t.receipt = NONE
        /\ t.superseded = Superseded(s) /\ t.done = s.done
    BY <2>2 DEF PhaseState
  <2>5. Exact(p, P, t)
    BY <1>2, <2>3, <2>4 DEF Exact
  <2>6. Kept(s, t)
    BY <2>4 DEF Kept, Superseded, Exact
  <2> QED
    BY <2>1, <2>5, <2>6
<1> QED
  BY <1>1, <1>2

LEMMA StaleAllLemma ==
  ASSUME NEW P, NEW f, NEW targets, ExactState(P, f), \A p \in Phases : Kept(phase[p], f[p])
  PROVE  /\ ExactState(P, StaleAll(f, targets))
         /\ \A p \in Phases : Kept(phase[p], StaleAll(f, targets)[p])
<1> DEFINE g == StaleAll(f, targets)
<1>1. \A p \in Phases : g[p] = f[p] \/ g[p] = StaleOne(f[p])
  BY DEF StaleAll
<1>2. \A p \in Phases : Exact(p, P, f[p])
  BY DEF ExactState
<1>3. \A p \in Phases : Exact(p, P, g[p]) /\ Kept(phase[p], g[p])
  BY <1>1, <1>2, StaleOneLemma, KeptTrans
<1>4. g \in [Phases -> PhaseState]
  BY <1>3 DEF Exact, StaleAll
<1> QED
  BY <1>3, <1>4 DEF ExactState

LEMMA KeptRefl == \A p \in Phases : Kept(phase[p], phase[p])
  BY DEF Kept

-----------------------------------------------------------------------------

LEMMA InitInv == Init => Inv
<1> SUFFICES ASSUME Init PROVE Inv
  OBVIOUS
<1>1. PICK P \in SUBSET Phases :
        /\ ValidProfile(P) /\ profile = P
        /\ phase = Refresh(P, [p \in Phases |-> Template(p, P)])
  BY DEF Init
<1> DEFINE f == [p \in Phases |-> Template(p, P)]
<1>2. \A p \in Phases : Exact(p, P, f[p])
  BY DEF Exact, Template, PhaseState, Statuses
<1>3. f \in [Phases -> PhaseState]
  BY <1>2 DEF Exact
<1>4. ExactState(P, f)
  BY <1>1, <1>2, <1>3 DEF ExactState
<1> QED
  BY <1>1, <1>4, RefreshLemma DEF Inv

\* What one operation does: nothing is lost, and the invariant holds after it.
Sound == Inv' /\ \A p \in Phases : Kept(phase[p], phase'[p])

LEMMA OneStep ==
  ASSUME Inv, NEW p \in Phases, NEW s, Exact(p, profile, s), Kept(phase[p], s),
         Mutate(profile, [phase EXCEPT ![p] = s])
  PROVE  Sound
  BY OneLemma, MutateLemma DEF Sound

LEMMA RecordPhaseProgressStep ==
  ASSUME Inv, NEW p \in Phases, NEW items \in SUBSET Required[p], RecordPhaseProgress(p, items)
  PROVE  Sound
<1> DEFINE s == [phase[p] EXCEPT !.done = @ \union items]
<1>1. Exact(p, profile, phase[p])
  BY DEF Inv, ExactState
<1>2. Required[p] \subseteq Items
  BY ContractAssumption
<1>3. phase[p].status \in {"READY", "ACTIVE", "BLOCKED"}
  BY DEF RecordPhaseProgress, Mutable
<1>4. Exact(p, profile, s) /\ Kept(phase[p], s)
  BY <1>1, <1>2, <1>3 DEF Exact, Kept, PhaseState
<1>5. Mutate(profile, [phase EXCEPT ![p] = s])
  BY DEF RecordPhaseProgress
<1> QED
  BY <1>4, <1>5, OneStep

LEMMA StartPhaseStep ==
  ASSUME Inv, NEW p \in Phases, StartPhase(p)
  PROVE  Sound
<1> DEFINE s == [phase[p] EXCEPT !.status = "ACTIVE"]
<1>1. Exact(p, profile, phase[p])
  BY DEF Inv, ExactState
<1>2. Exact(p, profile, s) /\ Kept(phase[p], s)
  BY <1>1 DEF Exact, Kept, PhaseState, Statuses, StartPhase, Mutable
<1>3. Mutate(profile, [phase EXCEPT ![p] = s])
  BY DEF StartPhase
<1> QED
  BY <1>2, <1>3, OneStep

LEMMA CompletePhaseStep ==
  ASSUME Inv, NEW p \in Phases, NEW r \in Receipts, CompletePhase(p, r)
  PROVE  Sound
<1> DEFINE s == [phase[p] EXCEPT !.status = "COMPLETE", !.gate = TRUE, !.receipt = r,
                                 !.checkpoint = NONE]
<1>1. Exact(p, profile, phase[p])
  BY DEF Inv, ExactState
<1>2. p \in profile /\ phase[p].status \in {"READY", "ACTIVE"} /\ Required[p] \subseteq phase[p].done
  BY DEF CompletePhase, Mutable
<1>3. Exact(p, profile, s) /\ Kept(phase[p], s)
  BY <1>1, <1>2, ContractAssumption DEF Exact, Kept, PhaseState, Statuses
<1>4. Mutate(profile, [phase EXCEPT ![p] = s])
  BY DEF CompletePhase
<1> QED
  BY <1>3, <1>4, OneStep

LEMMA BlockPhaseStep ==
  ASSUME Inv, NEW p \in Phases, BlockPhase(p) \/ UnblockPhase(p)
  PROVE  Sound
<1>1. PICK status \in {"READY", "BLOCKED"} :
        Mutate(profile, [phase EXCEPT ![p].status = status])
  BY DEF BlockPhase, UnblockPhase
<1> DEFINE s == [phase[p] EXCEPT !.status = status]
<1>2. Exact(p, profile, phase[p])
  BY DEF Inv, ExactState
<1>3. p \in profile /\ phase[p].status \in {"READY", "ACTIVE", "BLOCKED"}
  BY DEF BlockPhase, UnblockPhase, Mutable
<1>4. Exact(p, profile, s) /\ Kept(phase[p], s)
  BY <1>2, <1>3 DEF Exact, Kept, PhaseState, Statuses
<1>5. Mutate(profile, [phase EXCEPT ![p] = s])
  BY <1>1
<1> QED
  BY <1>4, <1>5, OneStep

LEMMA StaleStep ==
  ASSUME Inv, NEW targets, Mutate(profile, StaleAll(phase, targets))
  PROVE  Sound
<1>1. /\ ExactState(profile, StaleAll(phase, targets))
      /\ \A p \in Phases : Kept(phase[p], StaleAll(phase, targets)[p])
  BY KeptRefl, StaleAllLemma DEF Inv
<1> QED
  BY <1>1, MutateLemma DEF Sound

LEMMA ReopenPhaseStep ==
  ASSUME Inv, NEW p \in Phases, ReopenPhase(p)
  PROVE  Sound
<1> DEFINE s == Reopened(phase[p])
           f == [phase EXCEPT ![p] = s]
<1>1. Exact(p, profile, phase[p])
  BY DEF Inv, ExactState
<1>2. p \in profile /\ phase[p] \in PhaseState
  BY <1>1 DEF ReopenPhase, Mutable, Exact
<1>3. /\ s \in PhaseState /\ s.status = "READY" /\ s.gate = FALSE /\ s.receipt = NONE
      /\ s.superseded = Superseded(phase[p]) /\ s.done = phase[p].done
  BY <1>2, SupersededType DEF Reopened, PhaseState, Statuses
<1>4. Exact(p, profile, s)
  BY <1>1, <1>2, <1>3 DEF Exact
<1>5. Kept(phase[p], s)
  BY <1>1, <1>3 DEF Kept, Superseded, Exact
<1>6. ExactState(profile, f) /\ \A q \in Phases : Kept(phase[q], f[q])
  BY <1>4, <1>5, OneLemma
<1>7. Mutate(profile, StaleAll(f, p + 1 .. PhaseCount))
  BY DEF ReopenPhase
<1>8. /\ ExactState(profile, StaleAll(f, p + 1 .. PhaseCount))
      /\ \A q \in Phases : Kept(phase[q], StaleAll(f, p + 1 .. PhaseCount)[q])
  BY <1>6, StaleAllLemma
<1> QED
  BY <1>7, <1>8, MutateLemma DEF Sound

LEMMA CancelPhaseStep ==
  ASSUME Inv, NEW p \in Phases, NEW c \in Checkpoints, CancelPhase(p, c)
  PROVE  Sound
<1> DEFINE s == [phase[p] EXCEPT !.status = "CANCELLED", !.checkpoint = c]
<1>1. Exact(p, profile, phase[p])
  BY DEF Inv, ExactState
<1>2. p \in profile /\ phase[p].status \in {"READY", "ACTIVE", "BLOCKED", "STALE"}
  BY DEF CancelPhase, Mutable
<1>3. Exact(p, profile, s) /\ Kept(phase[p], s)
  BY <1>1, <1>2, ContractAssumption DEF Exact, Kept, PhaseState, Statuses
<1>4. Mutate(profile, [phase EXCEPT ![p] = s])
  BY DEF CancelPhase
<1> QED
  BY <1>3, <1>4, OneStep

LEMMA RecoverPhaseStep ==
  ASSUME Inv, NEW p \in Phases, NEW c \in Checkpoints, RecoverPhase(p, c)
  PROVE  Sound
<1> DEFINE s == [phase[p] EXCEPT !.status = "READY", !.checkpoint = NONE]
<1>1. Exact(p, profile, phase[p])
  BY DEF Inv, ExactState
<1>2. p \in profile /\ phase[p].status \in {"CANCELLED", "STALE"}
  BY DEF RecoverPhase, Mutable
<1>3. Exact(p, profile, s) /\ Kept(phase[p], s)
  BY <1>1, <1>2 DEF Exact, Kept, PhaseState, Statuses
<1>4. Mutate(profile, [phase EXCEPT ![p] = s])
  BY DEF RecoverPhase
<1> QED
  BY <1>3, <1>4, OneStep

LEMMA LeavingLemma ==
  ASSUME NEW p, NEW P, NEW Q, NEW s, Exact(p, P, s), p \in P, p \notin Q
  PROVE  Exact(p, Q, Leaving(s)) /\ Kept(s, Leaving(s))
<1> DEFINE t == Leaving(s)
<1>1. s \in PhaseState
  BY DEF Exact
<1>2. /\ t \in PhaseState /\ t.status = "NOT_APPLICABLE" /\ t.gate = FALSE /\ t.receipt = NONE
      /\ t.superseded = Superseded(s) /\ t.done = s.done
  BY <1>1, SupersededType DEF Leaving, PhaseState, Statuses
<1>3. Exact(p, Q, t)
  BY <1>2 DEF Exact
<1>4. Kept(s, t)
  BY <1>2 DEF Kept, Superseded, Exact
<1> QED
  BY <1>3, <1>4

LEMMA ReprofileLifecycleStep ==
  ASSUME Inv, NEW P \in SUBSET Phases, ReprofileLifecycle(P)
  PROVE  Sound
<1> DEFINE f == [p \in Phases |->
                   IF p \in P \ profile THEN Entering(phase[p])
                   ELSE IF p \in profile \ P THEN Leaving(phase[p])
                   ELSE phase[p]]
<1>1. ValidProfile(P) /\ Mutate(P, StaleAll(f, AfterFirstEntry(P)))
  BY DEF ReprofileLifecycle
<1>2. \A p \in Phases : Exact(p, P, f[p]) /\ Kept(phase[p], f[p])
  <2> TAKE p \in Phases
  <2>1. Exact(p, profile, phase[p])
    BY DEF Inv, ExactState
  <2>2. CASE p \in P \ profile
    BY <2>1, <2>2 DEF Entering, Exact, Kept, PhaseState, Statuses
  <2>3. CASE p \in profile \ P
    <3>1. f[p] = Leaving(phase[p])
      BY <2>3
    <3> QED
      BY <2>1, <2>3, <3>1, LeavingLemma
  <2>4. CASE p \notin P \ profile /\ p \notin profile \ P
    BY <2>1, <2>4 DEF Exact, Kept
  <2> QED
    BY <2>2, <2>3, <2>4
<1>3. f \in [Phases -> PhaseState]
  BY <1>2 DEF Exact
<1>4. ExactState(P, f)
  BY <1>1, <1>2, <1>3 DEF ExactState
<1>5. /\ ExactState(P, StaleAll(f, AfterFirstEntry(P)))
      /\ \A p \in Phases : Kept(phase[p], StaleAll(f, AfterFirstEntry(P))[p])
  BY <1>2, <1>4, StaleAllLemma
<1> QED
  BY <1>1, <1>5, MutateLemma DEF Sound

LEMMA OperationSound ==
  ASSUME Inv, Operation
  PROVE  Sound
<1>1. ASSUME NEW p \in Phases, NEW items \in SUBSET Required[p], RecordPhaseProgress(p, items)
      PROVE  Sound
  BY <1>1, RecordPhaseProgressStep
<1>2. ASSUME NEW p \in Phases, StartPhase(p) \/ BlockPhase(p) \/ UnblockPhase(p) \/ ReopenPhase(p)
      PROVE  Sound
  BY <1>2, StartPhaseStep, BlockPhaseStep, ReopenPhaseStep
<1>3. ASSUME NEW p \in Phases, NEW r \in Receipts, CompletePhase(p, r)
      PROVE  Sound
  BY <1>3, CompletePhaseStep
<1>4. ASSUME NEW p \in Phases, NEW includeDownstream \in BOOLEAN, MarkPhaseStale(p, includeDownstream)
      PROVE  Sound
  BY <1>4, StaleStep DEF MarkPhaseStale
<1>5. ASSUME NEW p \in Phases, NEW c \in Checkpoints, CancelPhase(p, c) \/ RecoverPhase(p, c)
      PROVE  Sound
  BY <1>5, CancelPhaseStep, RecoverPhaseStep
<1>6. ASSUME NEW P \in SUBSET Phases, ReprofileLifecycle(P)
      PROVE  Sound
  BY <1>6, ReprofileLifecycleStep
<1>7. ASSUME NEW targets \in InvalidationTargets, ApplyInvalidationEvent(targets)
      PROVE  Sound
  BY <1>7, StaleStep DEF ApplyInvalidationEvent
<1> QED
  BY <1>1, <1>2, <1>3, <1>4, <1>5, <1>6, <1>7 DEF Operation

LEMMA NextInv == Inv /\ [Operation]_vars => Inv'
<1> SUFFICES ASSUME Inv, [Operation]_vars PROVE Inv'
  OBVIOUS
<1>1. CASE Operation
  BY <1>1, OperationSound DEF Sound
<1>2. CASE UNCHANGED vars
  BY <1>2 DEF vars, Inv, ExactState, Waits, PrerequisitesSatisfied
<1> QED
  BY <1>1, <1>2

-----------------------------------------------------------------------------

\* The invariant holds of every lifecycle, whatever its contract.
THEOREM Invariance == Spec => []Inv
<1>1. Init => Inv
  BY InitInv
<1>2. Inv /\ [Operation]_vars => Inv'
  BY NextInv
<1> QED
  BY <1>1, <1>2, PTL DEF Spec

\* Every phase keeps a state that its record may have.
THEOREM TypeCorrect == Spec => []TypeOK
<1>1. Inv => TypeOK
  BY InvImplies
<1> QED
  BY <1>1, Invariance, PTL

\* Whatever operations are called in whatever order, the state passes the validation
\* that each of them begins and ends with, and only completed phases hold evidence.
THEOREM EvidenceExact == Spec => []EvidenceIsExact
<1>1. Inv => EvidenceIsExact
  BY InvImplies
<1> QED
  BY <1>1, Invariance, PTL

\* The phase that calculateNextStep selects never waits for a prerequisite.
THEOREM NextStepWorkable == Spec => []NextStepIsWorkable
<1>1. Inv => NextStepIsWorkable
  BY WaitsImplies
<1> QED
  BY <1>1, Invariance, PTL

\* No operation drops a completion receipt.
THEOREM ReceiptsKept == Spec => ReceiptsAreKept
<1> DEFINE A == \A p \in Phases :
                  /\ phase[p].superseded \subseteq phase'[p].superseded
                  /\ phase[p].receipt \notin {NONE, phase'[p].receipt} =>
                       phase[p].receipt \in phase'[p].superseded
<1>1. Inv /\ [Operation]_vars => [A]_vars
  <2> SUFFICES ASSUME Inv, Operation PROVE A
    OBVIOUS
  <2>1. \A p \in Phases : Kept(phase[p], phase'[p])
    BY OperationSound DEF Sound
  <2> QED
    BY <2>1 DEF Kept
<1>2. []Inv /\ [][Operation]_vars => [][A]_vars
  BY <1>1, PTL
<1> QED
  BY <1>2, Invariance, PTL DEF Spec, ReceiptsAreKept

\* In every reachable state the validation passes, evidence is where it belongs and the
\* selected phase can be worked on.
THEOREM StateSound == Spec => []StateIsSound
BY EvidenceExact, NextStepWorkable, PTL DEF StateIsSound

-----------------------------------------------------------------------------
(* Store: prefixes and chains                                              *)

LEMMA PrefixIsElementwise ==
  ASSUME NEW S, NEW s \in Seq(S), NEW t \in Seq(S)
  PROVE  IsPrefix(s, t) <=> Len(s) <= Len(t) /\ \A i \in 1 .. Len(s) : s[i] = t[i]
<1>1. SUFFICES ASSUME Len(s) <= Len(t)
               PROVE  SubSeq(s, 1, Len(s)) = SubSeq(t, 1, Len(s))
                        <=> \A i \in 1 .. Len(s) : s[i] = t[i]
  BY DEF IsPrefix
<1> DEFINE n == Len(s)
           u == SubSeq(t, 1, n)
<1>2. n \in Nat /\ Len(t) \in Nat /\ SubSeq(s, 1, n) = s
  BY SubSeqFull
<1>3. u \in Seq(S) /\ Len(u) = n /\ \A i \in 1 .. n : u[i] = t[i]
  <2>1. \A i \in 1 .. n : t[i] \in S
    BY <1>1, <1>2
  <2>2. u \in Seq(S)
    BY <1>1, <1>2, <2>1, SubSeqProperties
  <2>3. Len(u) = IF 1 <= n THEN n - 1 + 1 ELSE 0
    BY <1>1, <1>2, <2>1, SubSeqProperties
  <2>4. \A i \in 1 .. n - 1 + 1 : u[i] = t[1 + i - 1]
    BY <1>1, <1>2, <2>1, SubSeqProperties
  <2> QED
    BY <1>2, <2>2, <2>3, <2>4
<1>4. ASSUME \A i \in 1 .. n : s[i] = t[i]
      PROVE  s = u
  BY <1>2, <1>3, <1>4, SeqEqual
<1> QED
  BY <1>2, <1>3, <1>4

LEMMA PrefixIsOrder ==
  ASSUME NEW S, NEW s \in Seq(S)
  PROVE  /\ IsPrefix(s, s)
         /\ IsPrefix(<< >>, s)
         /\ \A t, u \in Seq(S) : IsPrefix(s, t) /\ IsPrefix(t, u) => IsPrefix(s, u)
         /\ \A t \in Seq(S) : IsPrefix(s, s \o t)
<1>1. Len(s) \in Nat
  OBVIOUS
<1>2. IsPrefix(s, s) /\ IsPrefix(<< >>, s)
  <2>1. Len(<< >>) = 0 /\ SubSeq(s, 1, 0) = << >> /\ SubSeq(<< >>, 1, 0) = << >>
    BY SubSeqEmpty
  <2>2. IsPrefix(<< >>, s)
    BY <1>1, <2>1 DEF IsPrefix
  <2> QED
    BY <1>1, <2>2, PrefixIsElementwise
<1>3. ASSUME NEW t \in Seq(S), NEW u \in Seq(S), IsPrefix(s, t), IsPrefix(t, u)
      PROVE  IsPrefix(s, u)
  <2>1. Len(t) \in Nat /\ Len(u) \in Nat
    OBVIOUS
  <2>2. Len(s) <= Len(t) /\ \A i \in 1 .. Len(s) : s[i] = t[i]
    BY <1>3, PrefixIsElementwise
  <2>3. Len(t) <= Len(u) /\ \A i \in 1 .. Len(t) : t[i] = u[i]
    BY <1>3, PrefixIsElementwise
  <2>4. Len(s) <= Len(u) /\ \A i \in 1 .. Len(s) : s[i] = u[i]
    BY <1>1, <2>1, <2>2, <2>3
  <2> QED
    BY <2>4, PrefixIsElementwise
<1>4. ASSUME NEW t \in Seq(S)
      PROVE  IsPrefix(s, s \o t)
  <2>1. Len(t) \in Nat
    OBVIOUS
  <2>2. s \o t \in Seq(S) /\ Len(s \o t) = Len(s) + Len(t)
    BY ConcatProperties
  <2>3. \A i \in 1 .. Len(s) + Len(t) : (s \o t)[i] = IF i <= Len(s) THEN s[i] ELSE t[i - Len(s)]
    BY ConcatProperties
  <2>4. Len(s) <= Len(s \o t) /\ \A i \in 1 .. Len(s) : s[i] = (s \o t)[i]
    BY <1>1, <2>1, <2>2, <2>3
  <2> QED
    BY <2>2, <2>4, PrefixIsElementwise
<1> QED
  BY <1>2, <1>3, <1>4

EvidenceReceipt == [id : Changes, seq : Nat, parent : Seq(Changes)]

\* A chain is held against the receipt before each, and not against all the receipts before.
LEMMA ChainsLink ==
  ASSUME NEW chain \in Seq(EvidenceReceipt), NEW i \in 1 .. Len(chain)
  PROVE  TerminalDigest(SubSeq(chain, 1, i - 1)) = IF i = 1 THEN << >> ELSE Digest(chain[i - 1])
<1> DEFINE s == SubSeq(chain, 1, i - 1)
<1>1. Len(chain) \in Nat /\ i \in Int /\ i - 1 \in Int
  OBVIOUS
<1>2. CASE i = 1
  <2>1. s = << >>
    BY <1>2, SubSeqEmpty
  <2> QED
    BY <1>2, <2>1 DEF TerminalDigest
<1>3. CASE i > 1
  <2>1. \A j \in 1 .. i - 1 : chain[j] \in EvidenceReceipt
    BY <1>1, ElementOfSeq
  <2>2. s \in Seq(EvidenceReceipt)
    BY <1>1, <2>1, SubSeqProperties
  <2>3. Len(s) = IF 1 <= i - 1 THEN i - 1 - 1 + 1 ELSE 0
    BY <1>1, <2>1, SubSeqProperties
  <2>4. \A j \in 1 .. i - 1 - 1 + 1 : s[j] = chain[1 + j - 1]
    BY <1>1, <2>1, SubSeqProperties
  <2>5. Len(s) = i - 1 /\ s[i - 1] = chain[i - 1]
    BY <1>1, <1>3, <2>3, <2>4
  <2>6. s # << >>
    BY <1>1, <1>3, <2>2, <2>5, EmptySeq
  <2> QED
    BY <1>3, <2>5, <2>6 DEF TerminalDigest, Last
<1> QED
  BY <1>1, <1>2, <1>3

Linked(chain) ==
  \A i \in 1 .. Len(chain) :
    /\ chain[i].seq = i
    /\ chain[i].parent = IF i = 1 THEN << >> ELSE Digest(chain[i - 1])
    /\ \A j \in 1 .. (i - 1) : chain[j].id # chain[i].id /\ Digest(chain[j]) # Digest(chain[i])

LEMMA ValidIsLinked ==
  ASSUME NEW chain \in Seq(EvidenceReceipt)
  PROVE  ValidChain(chain) <=> Linked(chain)
  BY ChainsLink DEF ValidChain, Linked

LEMMA AppendKeepsChain ==
  ASSUME NEW chain \in Seq(EvidenceReceipt), NEW r \in EvidenceReceipt, Appendable(chain, r)
  PROVE  ValidChain(chain \o <<r>>)
<1> DEFINE n == Len(chain)
           c == chain \o <<r>>
<1>1. n \in Nat /\ <<r>> \in Seq(EvidenceReceipt) /\ Len(<<r>>) = 1 /\ <<r>>[1] = r
  OBVIOUS
<1>2. c \in Seq(EvidenceReceipt) /\ Len(c) = n + 1
  BY <1>1, ConcatProperties
<1>3. \A i \in 1 .. n + 1 : c[i] = IF i <= n THEN chain[i] ELSE r
  <2>1. \A i \in 1 .. n + 1 : c[i] = IF i <= n THEN chain[i] ELSE <<r>>[i - n]
    BY <1>1, ConcatProperties
  <2> QED
    BY <1>1, <2>1
<1>4. Linked(chain)
  BY ValidIsLinked DEF Appendable
<1>5. r.seq = n + 1 /\ r.parent = IF n = 0 THEN << >> ELSE Digest(chain[n])
  BY <1>1, EmptySeq DEF Appendable, TerminalDigest, Last
<1> HIDE DEF c
<1>6. Linked(c)
  <2> SUFFICES ASSUME NEW i \in 1 .. n + 1
               PROVE  /\ c[i].seq = i
                      /\ c[i].parent = IF i = 1 THEN << >> ELSE Digest(c[i - 1])
                      /\ \A j \in 1 .. (i - 1) : c[j].id # c[i].id /\ Digest(c[j]) # Digest(c[i])
    BY <1>2 DEF Linked
  <2>1. CASE i <= n
    <3>1. /\ chain[i].seq = i
          /\ chain[i].parent = IF i = 1 THEN << >> ELSE Digest(chain[i - 1])
          /\ \A j \in 1 .. (i - 1) : chain[j].id # chain[i].id /\ Digest(chain[j]) # Digest(chain[i])
      BY <1>1, <1>4, <2>1 DEF Linked
    <3>2. c[i] = chain[i] /\ \A j \in 1 .. i - 1 : c[j] = chain[j]
      BY <1>1, <1>3, <2>1
    <3>3. i # 1 => i - 1 \in 1 .. i - 1
      OBVIOUS
    <3> QED
      BY <3>1, <3>2, <3>3
  <2>2. CASE i = n + 1
    <3>1. c[i] = r /\ \A j \in 1 .. i - 1 : c[j] = chain[j]
      BY <1>1, <1>3, <2>2
    <3>2. i # 1 => i - 1 = n /\ n \in 1 .. i - 1 /\ n # 0
      BY <1>1, <2>2
    <3>3. i = 1 => n = 0
      BY <1>1, <2>2
    <3>4. \A j \in 1 .. i - 1 : chain[j].id # r.id /\ Digest(chain[j]) # Digest(r)
      BY <1>1, <2>2 DEF Appendable
    <3>5. c[i].parent = IF i = 1 THEN << >> ELSE Digest(c[i - 1])
      BY <1>5, <3>1, <3>2, <3>3
    <3> QED
      BY <1>5, <2>2, <3>1, <3>4, <3>5
  <2> QED
    BY <1>1, <2>1, <2>2
<1> QED
  BY <1>2, <1>6, ValidIsLinked DEF c

-----------------------------------------------------------------------------
(* Store: the invariant                                                    *)

Content(k) == IF k = "RECEIPTS" THEN Seq(EvidenceReceipt) ELSE Seq(Changes)

Contents == [k \in Keys |-> Content(k)]

Records == Seq(EvidenceReceipt) \union Seq(Changes)

Call == [pc : {"IDLE", "READ", "AGAIN", "WRITE", "SYNC", "FAILED", "REFUSED"}, key : Keys,
         expected : Records, want : Records, out : Records]

KeptFiles(f) == f \in [Keys -> Records] /\ \A k \in Keys : f[k] \in Content(k)

CallOK(c) ==
  /\ c \in Call
  /\ c.expected \in Content(c.key) /\ c.want \in Content(c.key) /\ c.out \in Content(c.key)
  /\ c.pc # "IDLE" => c.want # << >>
  /\ c.pc # "IDLE" /\ c.key = "WORKFLOW" => \E x \in Changes : c.want = Append(c.expected, x)
  /\ c.key = "RECEIPTS" /\ c.pc # "IDLE" => Len(c.want) = 1
  /\ c.pc = "AGAIN" => c.key = "WORKFLOW"

StoreTypeOK ==
  /\ KeptFiles(files) /\ KeptFiles(disk)
  /\ known \in [Procs -> [Keys -> Records]] /\ \A p \in Procs : KeptFiles(known[p])
  /\ proc \in [Procs -> Call] /\ \A p \in Procs : CallOK(proc[p])
  /\ acked \in [Keys -> SUBSET Records] /\ \A k \in Keys : acked[k] \subseteq Content(k)
  /\ told.key \in Keys /\ told.record \in Content(told.key)
  /\ users \subseteq Procs

\* Whoever writes to the chain writes one that can be read.
ChainsAreValid ==
  /\ ChainStaysReadable
  /\ \A p \in Procs : proc[p].pc = "WRITE" /\ proc[p].key = "RECEIPTS" => ValidChain(proc[p].out)

\* The one process of a store writes what continues the record that it has read, which is
\* still there; what the last sync made safe is continued by what is written since.
Continued ==
  /\ \A k \in Keys : IsPrefix(disk[k], files[k])
  /\ root # "LOST" => \A k \in Keys : \A a \in acked[k] : IsPrefix(a, disk[k])
  /\ \A p \in users :
       /\ proc[p].pc = "WRITE" => IsPrefix(files[proc[p].key], proc[p].out)
       /\ proc[p].pc = "SYNC" => files[proc[p].key] = proc[p].out
  /\ RetryIsRecognised

StoreInv ==
  /\ StoreTypeOK
  /\ ChainsAreValid
  /\ \A p \in Procs \ users : proc[p].pc = "IDLE"
  /\ Unshared => Continued

LEMMA ContentIsRecords == \A k : Content(k) \subseteq Records /\ << >> \in Content(k)
  BY EmptySeq DEF Content, Records

LEMMA NoCallOK == CallOK(NoCall) /\ NoCall.pc = "IDLE"
<1>1. << >> \in Records /\ << >> \in Content("WORKFLOW")
  BY ContentIsRecords
<1> QED
  BY <1>1 DEF CallOK, NoCall, Call, Keys, Absent

LEMMA NothingKept == KeptFiles([k \in Keys |-> Absent])
  BY ContentIsRecords DEF KeptFiles, Absent

LEMMA EmptyChain == ValidChain(<< >>)
  BY DEF ValidChain

LEMMA StoreInitInv == StoreInit => StoreInv
<1> SUFFICES ASSUME StoreInit PROVE StoreInv
  OBVIOUS
<1>1. StoreTypeOK
  <2>1. acked \in [Keys -> SUBSET Records] /\ \A k \in Keys : acked[k] \subseteq Content(k)
    BY DEF StoreInit
  <2>2. proc \in [Procs -> Call] /\ \A p \in Procs : CallOK(proc[p])
    BY NoCallOK DEF StoreInit, CallOK
  <2>3. known \in [Procs -> [Keys -> Records]] /\ \A p \in Procs : KeptFiles(known[p])
    BY NothingKept DEF StoreInit, NothingKnown, KeptFiles
  <2>4. KeptFiles(files) /\ KeptFiles(disk) /\ users \subseteq Procs
    BY NothingKept DEF StoreInit
  <2>5. told.key \in Keys /\ told.record \in Content(told.key)
    BY ContentIsRecords DEF StoreInit, Keys, Absent
  <2> QED
    BY <2>1, <2>2, <2>3, <2>4, <2>5 DEF StoreTypeOK
<1>2. \A p \in Procs : proc[p].pc = "IDLE"
  BY NoCallOK DEF StoreInit
<1>3. files.RECEIPTS = << >> /\ disk.RECEIPTS = << >>
  BY DEF StoreInit, Keys, Absent
<1>4. Continued
  <2>1. \A k \in Keys : IsPrefix(disk[k], files[k])
    <3>1. IsPrefix(<< >>, << >>)
      BY PrefixIsOrder, EmptySeq
    <3> QED
      BY <3>1 DEF StoreInit, Absent
  <2> QED
    BY <1>1, <1>2, <2>1 DEF Continued, StoreInit, RetryIsRecognised, StoreTypeOK
<1> QED
  BY <1>1, <1>2, <1>3, <1>4, EmptyChain DEF StoreInv, ChainsAreValid, ChainStaysReadable

-----------------------------------------------------------------------------
(* Store: its steps                                                        *)

\* What a call writes continues the record, and what it refuses is not there.
Writable(c) ==
  /\ c.key = "RECEIPTS" => ValidChain(c.out)
  /\ IsPrefix(files[c.key], c.out)

Refusable(c) ==
  IF c.key = "RECEIPTS" THEN c.want[1] \notin ToSet(files.RECEIPTS) ELSE c.want # files[c.key]

\* A step of one call that writes nothing.
LEMMA CallInv ==
  ASSUME StoreInv, NEW p \in users, NEW c, CallOK(c), c.pc # "SYNC",
         c.pc = "WRITE" => Writable(c), c.pc = "REFUSED" => Refusable(c),
         proc' = [proc EXCEPT ![p] = c],
         UNCHANGED <<files, disk, acked, root, users>>,
         told'.key \in Keys, told'.record \in Content(told'.key),
         known' \in [Procs -> [Keys -> Records]], \A q \in Procs : KeptFiles(known'[q])
  PROVE  StoreInv'
<1>1. p \in Procs /\ proc \in [Procs -> Call] /\ c \in Call
  BY DEF StoreInv, StoreTypeOK, CallOK
<1>2. /\ proc' \in [Procs -> Call] /\ proc'[p] = c
      /\ \A q \in Procs \ {p} : proc'[q] = proc[q]
  BY <1>1
<1>3. \A q \in Procs : CallOK(proc'[q])
  BY <1>2 DEF StoreInv, StoreTypeOK
<1>4. StoreTypeOK'
  BY <1>2, <1>3 DEF StoreInv, StoreTypeOK, KeptFiles
<1>5. ChainsAreValid'
  BY <1>2 DEF StoreInv, ChainsAreValid, ChainStaysReadable, Writable
<1>6. ASSUME Unshared' PROVE Continued'
  <2>1. Unshared /\ Continued
    BY <1>6 DEF Unshared, StoreInv
  <2> QED
    BY <1>2, <2>1 DEF Continued, RetryIsRecognised, Writable, Refusable
<1> QED
  BY <1>1, <1>2, <1>4, <1>5, <1>6 DEF StoreInv

LEMMA LoadInv ==
  ASSUME StoreInv, NEW p \in users, NEW k \in Keys, Load(p, k), UNCHANGED <<root, users>>
  PROVE  StoreInv'
<1>1. p \in Procs /\ known \in [Procs -> [Keys -> Records]] /\ KeptFiles(files) /\ (\A q \in Procs : KeptFiles(known[q]))
  BY DEF StoreInv, StoreTypeOK
<1>2. known' = [known EXCEPT ![p][k] = files[k]]
  BY DEF Load
<1>3. files[k] \in Records /\ files[k] \in Content(k)
  BY <1>1 DEF KeptFiles
<1>4. known' \in [Procs -> [Keys -> Records]] /\ \A q \in Procs : KeptFiles(known'[q])
  BY <1>1, <1>2, <1>3 DEF KeptFiles
<1> QED
  BY <1>4, NoCallOK, CallInv DEF Load, StoreInv, StoreTypeOK

LEMMA BeginInv ==
  ASSUME StoreInv, NEW p \in users, NEW k \in Keys, NEW want \in Content(k), BeginCall(p, k, want),
         UNCHANGED <<root, users>>,
         want # << >>, k = "RECEIPTS" => Len(want) = 1,
         k = "WORKFLOW" => \E x \in Changes : want = Append(known[p].WORKFLOW, x)
  PROVE  StoreInv'
<1> DEFINE c == [pc |-> "READ", key |-> k, expected |-> known[p][k], want |-> want, out |-> Absent]
<1>1. p \in Procs /\ known[p] \in [Keys -> Records] /\ KeptFiles(known[p])
  BY DEF StoreInv, StoreTypeOK
<1>2. Absent \in Content(k) /\ Absent \in Records /\ want \in Records
  BY ContentIsRecords DEF Absent
<1>3. c \in Call
  BY <1>1, <1>2 DEF Call
<1>4. CallOK(c) /\ c.pc = "READ"
  BY <1>1, <1>2, <1>3 DEF CallOK, KeptFiles
<1>5. proc' = [proc EXCEPT ![p] = c] /\ UNCHANGED <<files, disk, acked, told, known>>
  BY DEF BeginCall
<1> HIDE DEF c
<1> QED
  BY <1>4, <1>5, CallInv DEF StoreInv, StoreTypeOK

LEMMA SaveInv ==
  ASSUME StoreInv, NEW p \in users, NEW x \in Changes, UNCHANGED <<root, users>>,
         SaveWorkflow(p, x) \/ SaveCheckpoint(p, x) \/ AppendEvidenceReceipt(p, x)
  PROVE  StoreInv'
<1>1. KeptFiles(known[p]) /\ "WORKFLOW" \in Keys /\ "CHECKPOINT" \in Keys /\ "RECEIPTS" \in Keys
  BY DEF StoreInv, StoreTypeOK, Keys
<1>2. known[p].WORKFLOW \in Seq(Changes) /\ known[p].RECEIPTS \in Seq(EvidenceReceipt)
  BY <1>1 DEF KeptFiles, Content
<1>3. CASE SaveWorkflow(p, x)
  <2>1. Append(known[p].WORKFLOW, x) \in Content("WORKFLOW") /\ Append(known[p].WORKFLOW, x) # << >>
    BY <1>2 DEF Content
  <2> QED
    BY <1>1, <1>3, <2>1, BeginInv DEF SaveWorkflow
<1>4. CASE SaveCheckpoint(p, x)
  <2>1. <<x>> \in Content("CHECKPOINT") /\ <<x>> # << >>
    BY DEF Content
  <2> QED
    BY <1>1, <1>4, <2>1, BeginInv DEF SaveCheckpoint
<1>5. CASE AppendEvidenceReceipt(p, x)
  <2> DEFINE chain == known[p].RECEIPTS
             r == NewReceipt(chain, x)
  <2>1. TerminalDigest(chain) \in Seq(Changes)
    <3>1. CASE chain = << >>
      BY <3>1 DEF TerminalDigest
    <3>2. CASE chain # << >>
      <4>1. chain[Len(chain)] \in EvidenceReceipt
        BY <1>2, <3>2, EmptySeq, ElementOfSeq
      <4> QED
        BY <3>2, <4>1 DEF TerminalDigest, Last, Digest, EvidenceReceipt
    <3> QED
      BY <3>1, <3>2
  <2>2. r \in EvidenceReceipt
    BY <1>2, <2>1 DEF NewReceipt, EvidenceReceipt
  <2>3. <<r>> \in Content("RECEIPTS") /\ <<r>> # << >> /\ Len(<<r>>) = 1
    BY <2>2 DEF Content
  <2>4. BeginCall(p, "RECEIPTS", <<r>>)
    BY <1>5 DEF AppendEvidenceReceipt
  <2> HIDE DEF r
  <2> QED
    BY <1>1, <2>3, <2>4, BeginInv
<1> QED
  BY <1>3, <1>4, <1>5

GoOn(call, pc, out) == [call EXCEPT !.pc = pc, !.out = out]

\* A call that goes on: its record stays the one it is about.
LEMMA CallGoesOn ==
  ASSUME StoreInv, NEW p \in users, proc[p].pc # "IDLE", NEW c,
         NEW pc \in {"IDLE", "READ", "AGAIN", "WRITE", "FAILED", "REFUSED"},
         NEW out \in Content(proc[p].key), pc = "AGAIN" => proc[p].key = "WORKFLOW",
         c = GoOn(proc[p], pc, out)
  PROVE  /\ CallOK(c) /\ c.pc = pc /\ c.out = out
         /\ c.key = proc[p].key /\ c.want = proc[p].want /\ c.expected = proc[p].expected
<1>1. PICK x \in Call : x = proc[p]
  BY DEF StoreInv, StoreTypeOK
<1>2. out \in Records /\ CallOK(x)
  BY <1>1, ContentIsRecords DEF StoreInv, StoreTypeOK
<1>3. c = [x EXCEPT !.pc = pc, !.out = out]
  BY <1>1 DEF GoOn
<1>4. /\ c \in Call /\ c.pc = pc /\ c.out = out
      /\ c.key = x.key /\ c.want = x.want /\ c.expected = x.expected
  BY <1>2, <1>3 DEF Call
<1>5. CallOK(c)
  BY <1>1, <1>2, <1>4 DEF CallOK
<1> QED
  BY <1>1, <1>4, <1>5

LEMMA DecideInv ==
  ASSUME StoreInv, NEW p \in users, UNCHANGED <<root, users>>, proc[p].pc \in {"READ", "AGAIN"},
         NEW decision \in {"KNOWN", "AGAIN", "WRITE", "REFUSED"}, NEW out \in Content(proc[p].key),
         Decide(p, decision, out), decision = "AGAIN" => proc[p].key = "WORKFLOW",
         decision = "WRITE" => /\ proc[p].key = "RECEIPTS" => ValidChain(out)
                               /\ IsPrefix(files[proc[p].key], out),
         decision = "REFUSED" => Refusable(proc[p])
  PROVE  StoreInv'
<1> DEFINE pc == IF decision = "KNOWN" THEN "IDLE" ELSE decision
<1>1. pc \in {"IDLE", "READ", "AGAIN", "WRITE", "FAILED", "REFUSED"} /\ proc[p].pc # "IDLE"
  OBVIOUS
<1>2. pc = "AGAIN" => proc[p].key = "WORKFLOW"
  OBVIOUS
<1>3. PICK c : c = GoOn(proc[p], pc, out)
  OBVIOUS
<1> HIDE DEF pc
<1>4. /\ CallOK(c) /\ c.pc = pc /\ c.out = out
      /\ c.key = proc[p].key /\ c.want = proc[p].want /\ c.expected = proc[p].expected
  BY <1>1, <1>2, <1>3, CallGoesOn
<1>5. proc' = [proc EXCEPT ![p] = c] /\ UNCHANGED <<files, disk, acked>>
  BY <1>3 DEF Decide, GoOn, pc
<1>6. c.pc # "SYNC" /\ (c.pc = "WRITE" => Writable(c)) /\ (c.pc = "REFUSED" => Refusable(c))
  BY <1>4 DEF pc, Writable, Refusable
<1>7. known' \in [Procs -> [Keys -> Records]] /\ \A q \in Procs : KeptFiles(known'[q])
  <2>1. /\ p \in Procs /\ known \in [Procs -> [Keys -> Records]] /\ KeptFiles(files)
        /\ (\A q \in Procs : KeptFiles(known[q])) /\ proc[p].key \in Keys
    BY DEF StoreInv, StoreTypeOK, Call
  <2>2. CASE decision = "KNOWN"
    <3>1. known' = [known EXCEPT ![p][proc[p].key] = files[proc[p].key]]
      BY <2>2 DEF Decide
    <3> QED
      BY <2>1, <3>1 DEF KeptFiles
  <2>3. CASE decision # "KNOWN"
    BY <2>1, <2>3 DEF Decide
  <2> QED
    BY <2>2, <2>3
<1>8. told'.key \in Keys /\ told'.record \in Content(told'.key)
  <2>1. /\ told.key \in Keys /\ told.record \in Content(told.key)
        /\ proc[p].key \in Keys /\ files[proc[p].key] \in Content(proc[p].key)
    BY DEF StoreInv, StoreTypeOK, KeptFiles, Call
  <2>2. told' = told \/ told' = [key |-> proc[p].key, record |-> files[proc[p].key]]
    BY DEF Decide
  <2> QED
    BY <2>1, <2>2
<1> QED
  BY <1>4, <1>5, <1>6, <1>7, <1>8, CallInv

LEMMA ReadInv ==
  ASSUME StoreInv, NEW p \in users, UNCHANGED <<root, users>>, ReadRecord(p)
  PROVE  StoreInv'
<1> DEFINE k == proc[p].key
           want == proc[p].want
           expected == proc[p].expected
<1>1. /\ p \in Procs /\ k \in Keys /\ CallOK(proc[p]) /\ proc[p].pc = "READ"
      /\ want # << >> /\ want \in Content(k) /\ files[k] \in Content(k)
  BY DEF StoreInv, StoreTypeOK, KeptFiles, CallOK, Call, ReadRecord
<1>2. CASE k = "WORKFLOW"
  <2> DEFINE d == CheckFirstWorkflow(files[k], expected, want)
  <2>1. Decide(p, d, want) /\ d \in {"AGAIN", "WRITE", "REFUSED"}
    BY <1>2 DEF ReadRecord, CheckFirstWorkflow
  <2>2. d # "AGAIN" => files[k] = << >>
    BY DEF CheckFirstWorkflow, Absent
  <2>3. IsPrefix(<< >>, want)
    BY <1>1, <1>2, PrefixIsOrder DEF Content
  <2> HIDE DEF d
  <2> QED
    BY <1>1, <1>2, <2>1, <2>2, <2>3, DecideInv DEF Refusable
<1>3. CASE k = "CHECKPOINT"
  <2> DEFINE d == CheckCheckpoint(files[k], want)
  <2>1. Decide(p, d, want) /\ d \in {"KNOWN", "WRITE", "REFUSED"}
    BY <1>3 DEF ReadRecord, CheckCheckpoint
  <2>2. (d = "WRITE" => files[k] = << >>) /\ (d = "REFUSED" => want # files[k])
    BY DEF CheckCheckpoint, Absent
  <2>3. IsPrefix(<< >>, want)
    BY <1>1, <1>3, PrefixIsOrder DEF Content
  <2> HIDE DEF d
  <2> QED
    BY <1>1, <1>3, <2>1, <2>2, <2>3, DecideInv DEF Refusable
<1>4. CASE k = "RECEIPTS"
  <2> DEFINE chain == files[k]
             r == want[1]
             d == CheckReceipt(chain, r)
             out == chain \o want
  <2>1. Decide(p, d, out) /\ d \in {"KNOWN", "WRITE", "REFUSED"}
    BY <1>4 DEF ReadRecord, CheckReceipt
  <2>2. (d = "WRITE" => Appendable(chain, r)) /\ (d = "REFUSED" => r \notin ToSet(files.RECEIPTS))
    BY <1>4 DEF CheckReceipt
  <2>3. chain \in Seq(EvidenceReceipt) /\ want \in Seq(EvidenceReceipt) /\ Len(want) = 1
    BY <1>1, <1>4 DEF Content, CallOK
  <2>4. r \in EvidenceReceipt /\ want = <<r>>
    BY <2>3
  <2>5. d = "WRITE" => ValidChain(out)
    BY <2>2, <2>3, <2>4, AppendKeepsChain
  <2>6. out \in Content(k) /\ IsPrefix(chain, out)
    BY <1>4, <2>3, PrefixIsOrder, ConcatProperties DEF Content
  <2> HIDE DEF d, out
  <2> QED
    BY <1>1, <1>4, <2>1, <2>2, <2>5, <2>6, DecideInv DEF Refusable
<1> QED
  BY <1>1, <1>2, <1>3, <1>4 DEF Keys

LEMMA ReadAgainInv ==
  ASSUME StoreInv, NEW p \in users, UNCHANGED <<root, users>>, ReadWorkflowAgain(p)
  PROVE  StoreInv'
<1> DEFINE want == proc[p].want
           expected == proc[p].expected
           current == files.WORKFLOW
           d == CheckWorkflow(current, expected, want)
<1>1. /\ p \in Procs /\ CallOK(proc[p]) /\ proc[p].pc = "AGAIN" /\ proc[p].key = "WORKFLOW"
      /\ want \in Seq(Changes) /\ expected \in Seq(Changes)
  BY DEF StoreInv, StoreTypeOK, CallOK, ReadWorkflowAgain, Content
<1>2. Decide(p, d, want) /\ d \in {"KNOWN", "WRITE", "REFUSED"}
  BY DEF ReadWorkflowAgain, CheckWorkflow
<1>3. (d = "WRITE" => current = expected) /\ (d = "REFUSED" => want # current)
  BY DEF CheckWorkflow
<1>4. IsPrefix(expected, want)
  <2>1. PICK x \in Changes : want = Append(expected, x)
    BY <1>1 DEF CallOK
  <2>2. want = expected \o <<x>> /\ <<x>> \in Seq(Changes)
    BY <1>1, <2>1
  <2>3. \A t \in Seq(Changes) : IsPrefix(expected, expected \o t)
    BY <1>1, PrefixIsOrder
  <2> QED
    BY <2>2, <2>3
<1>5. want \in Content(proc[p].key)
  BY <1>1 DEF Content
<1> HIDE DEF d
<1> QED
  BY <1>1, <1>2, <1>3, <1>4, <1>5, DecideInv DEF Refusable

LEMMA RetryInv ==
  ASSUME StoreInv, NEW p \in users, UNCHANGED <<root, users>>,
         Retry(p) \/ WriteFails(p)
  PROVE  StoreInv'
<1>1. /\ p \in Procs /\ proc[p] \in Call /\ proc[p].out \in Content(proc[p].key) /\ proc[p].pc # "IDLE"
      /\ known \in [Procs -> [Keys -> Records]] /\ \A q \in Procs : KeptFiles(known[q])
  BY DEF StoreInv, StoreTypeOK, CallOK, Retry, WriteFails
<1>2. PICK pc \in {"READ", "FAILED"} :
        proc' = [proc EXCEPT ![p].pc = pc] /\ UNCHANGED <<files, disk, acked, told, known>>
  BY DEF Retry, WriteFails
<1>3. PICK out \in Content(proc[p].key) : out = proc[p].out
  BY <1>1
<1>4. PICK c : c = GoOn(proc[p], pc, out)
  OBVIOUS
<1>5. pc \in {"IDLE", "READ", "AGAIN", "WRITE", "FAILED", "REFUSED"} /\ pc # "AGAIN"
  OBVIOUS
<1>6. CallOK(c) /\ c.pc = pc
  <2>1. proc[p].pc # "IDLE" /\ (pc = "AGAIN" => proc[p].key = "WORKFLOW")
    BY <1>1, <1>5
  <2> QED
    BY <1>4, <1>5, <2>1, CallGoesOn
<1>7. c = [proc[p] EXCEPT !.pc = pc]
  <2>1. PICK x \in Call : x = proc[p]
    BY <1>1
  <2>2. [x EXCEPT !.pc = pc, !.out = x.out] = [x EXCEPT !.pc = pc]
    BY DEF Call
  <2> QED
    BY <1>4, <1>3, <2>1, <2>2 DEF GoOn
<1>8. proc' = [proc EXCEPT ![p] = c]
  BY <1>2, <1>7
<1> QED
  BY <1>1, <1>2, <1>6, <1>8, CallInv DEF StoreInv, StoreTypeOK

LEMMA CrashInv ==
  ASSUME StoreInv, NEW p \in users, UNCHANGED <<root, users>>, ProcessCrash(p)
  PROVE  StoreInv'
<1>1. p \in Procs /\ known \in [Procs -> [Keys -> Records]] /\ (\A q \in Procs : KeptFiles(known[q]))
  BY DEF StoreInv, StoreTypeOK
<1>2. known' = [known EXCEPT ![p] = NothingKnown] /\ KeptFiles(NothingKnown)
  BY NothingKept DEF ProcessCrash, NothingKnown
<1>3. known' \in [Procs -> [Keys -> Records]] /\ \A q \in Procs : KeptFiles(known'[q])
  BY <1>1, <1>2 DEF KeptFiles
<1> QED
  BY <1>3, NoCallOK, CallInv DEF ProcessCrash, StoreInv, StoreTypeOK

\* What the rename, the sync and the loss of power leave of a record, for a store that one
\* process has to itself.
LEMMA RenameInv ==
  ASSUME StoreInv, NEW p \in users, UNCHANGED <<root, users>>, Rename(p)
  PROVE  StoreInv'
<1> DEFINE k == proc[p].key
           out == proc[p].out
<1>1. /\ p \in Procs /\ proc[p] \in Call /\ CallOK(proc[p]) /\ proc[p].pc = "WRITE"
      /\ k \in Keys /\ out \in Content(k) /\ out \in Records
      /\ KeptFiles(files) /\ KeptFiles(disk)
  BY DEF StoreInv, StoreTypeOK, CallOK, Call, Rename
<1>2. PICK c : c = [proc[p] EXCEPT !.pc = "SYNC"]
  OBVIOUS
<1>3. /\ c \in Call /\ CallOK(c) /\ c.pc = "SYNC" /\ c.out = out
      /\ c.key = k /\ c.want = proc[p].want /\ c.expected = proc[p].expected
  <2>1. /\ c \in Call /\ c.pc = "SYNC" /\ c.out = out
        /\ c.key = k /\ c.want = proc[p].want /\ c.expected = proc[p].expected
    BY <1>1, <1>2 DEF Call
  <2> QED
    BY <1>1, <2>1 DEF CallOK
<1>4. /\ proc' = [proc EXCEPT ![p] = c] /\ files' = [files EXCEPT ![k] = out]
      /\ UNCHANGED <<disk, known, acked, told>>
  BY <1>2 DEF Rename
<1>5. /\ proc' \in [Procs -> Call] /\ proc'[p] = c
      /\ \A q \in Procs \ {p} : proc'[q] = proc[q]
  BY <1>1, <1>3, <1>4 DEF StoreInv, StoreTypeOK
<1>6. /\ files' \in [Keys -> Records] /\ files'[k] = out
      /\ \A j \in Keys \ {k} : files'[j] = files[j]
  BY <1>1, <1>4 DEF KeptFiles
<1>7. StoreTypeOK'
  <2>1. \A q \in Procs : CallOK(proc'[q])
    BY <1>3, <1>5 DEF StoreInv, StoreTypeOK
  <2>2. KeptFiles(files')
    BY <1>1, <1>6 DEF KeptFiles
  <2>3. KeptFiles(files)'
    BY <2>2 DEF KeptFiles
  <2>4. KeptFiles(disk)' /\ \A q \in Procs : KeptFiles(known[q])'
    BY <1>4 DEF StoreInv, StoreTypeOK, KeptFiles
  <2> QED
    BY <1>4, <1>5, <2>1, <2>3, <2>4 DEF StoreInv, StoreTypeOK
<1>8. ChainsAreValid'
  <2>1. ValidChain(files'.RECEIPTS)
    BY <1>1, <1>6 DEF StoreInv, ChainsAreValid, ChainStaysReadable, Keys
  <2> QED
    BY <1>3, <1>4, <1>5, <2>1 DEF StoreInv, ChainsAreValid, ChainStaysReadable
<1>9. ASSUME Unshared' PROVE Continued'
  <2>1. Unshared /\ Continued
    BY <1>9 DEF Unshared, StoreInv
  <2>2. \A q \in users : q = p
    BY <2>1 DEF Unshared
  <2>3. IsPrefix(files[k], out) /\ \A j \in Keys : IsPrefix(disk[j], files[j])
    BY <1>1, <2>1 DEF Continued
  <2>4. IsPrefix(disk[k], out)
    <3>1. PICK S : Content(k) = Seq(S)
      BY DEF Content
    <3> QED
      BY <1>1, <2>3, <3>1, PrefixIsOrder DEF KeptFiles
  <2>5. \A j \in Keys : IsPrefix(disk[j], files'[j])
    BY <1>6, <2>3, <2>4
  <2>6. RetryIsRecognised'
    <3>1. \A q \in Procs : proc'[q].pc # "REFUSED"
      BY <1>3, <1>5, <2>2 DEF StoreInv
    <3> QED
      BY <3>1 DEF RetryIsRecognised
  <2>7. root # "LOST" => \A j \in Keys : \A a \in acked[j] : IsPrefix(a, disk[j])
    BY <2>1 DEF Continued
  <2>8. \A q \in users' : /\ proc'[q].pc = "WRITE" => IsPrefix(files'[proc'[q].key], proc'[q].out)
                          /\ proc'[q].pc = "SYNC" => files'[proc'[q].key] = proc'[q].out
    BY <1>3, <1>5, <1>6, <2>2
  <2> QED
    BY <1>4, <2>5, <2>6, <2>7, <2>8 DEF Continued
<1> QED
  BY <1>5, <1>7, <1>8, <1>9 DEF StoreInv

LEMMA SyncInv ==
  ASSUME StoreInv, NEW p \in users, UNCHANGED <<root, users>>, SyncDirectory(p)
  PROVE  StoreInv'
<1> DEFINE k == proc[p].key
           out == proc[p].out
<1>1. /\ p \in Procs /\ proc[p] \in Call /\ CallOK(proc[p]) /\ proc[p].pc = "SYNC"
      /\ k \in Keys /\ out \in Content(k) /\ out \in Records
      /\ KeptFiles(files) /\ KeptFiles(disk) /\ \A q \in Procs : KeptFiles(known[q])
  BY DEF StoreInv, StoreTypeOK, CallOK, Call, SyncDirectory
<1>2. PICK c : c = [proc[p] EXCEPT !.pc = "IDLE"]
  OBVIOUS
<1>3. /\ c \in Call /\ CallOK(c) /\ c.pc = "IDLE"
  <2>1. /\ c \in Call /\ c.pc = "IDLE" /\ c.out = out
        /\ c.key = k /\ c.want = proc[p].want /\ c.expected = proc[p].expected
    BY <1>1, <1>2 DEF Call
  <2> QED
    BY <1>1, <2>1 DEF CallOK
<1>4. /\ proc' = [proc EXCEPT ![p] = c] /\ disk' = files /\ UNCHANGED <<files, told>>
      /\ acked' = [acked EXCEPT ![k] = @ \union {out}]
      /\ known' = [known EXCEPT ![p][k] = out]
  BY <1>2 DEF SyncDirectory
<1>5. /\ proc' \in [Procs -> Call] /\ proc'[p] = c
      /\ \A q \in Procs \ {p} : proc'[q] = proc[q]
  BY <1>1, <1>3, <1>4 DEF StoreInv, StoreTypeOK
<1>6. /\ acked' \in [Keys -> SUBSET Records] /\ acked'[k] = acked[k] \union {out}
      /\ \A j \in Keys \ {k} : acked'[j] = acked[j]
  BY <1>1, <1>4 DEF StoreInv, StoreTypeOK
<1>7. StoreTypeOK'
  <2>1. \A q \in Procs : CallOK(proc'[q])
    BY <1>3, <1>5 DEF StoreInv, StoreTypeOK
  <2>2. KeptFiles(files)' /\ KeptFiles(disk)'
    BY <1>1, <1>4 DEF KeptFiles
  <2>3. known' \in [Procs -> [Keys -> Records]] /\ \A q \in Procs : KeptFiles(known'[q])
    BY <1>1, <1>4 DEF StoreInv, StoreTypeOK, KeptFiles
  <2>4. \A j \in Keys : acked'[j] \subseteq Content(j)
    BY <1>1, <1>6 DEF StoreInv, StoreTypeOK
  <2> QED
    BY <1>4, <1>5, <1>6, <2>1, <2>2, <2>3, <2>4 DEF StoreInv, StoreTypeOK, KeptFiles
<1>8. ChainsAreValid'
  BY <1>3, <1>4, <1>5 DEF StoreInv, ChainsAreValid, ChainStaysReadable
<1>9. ASSUME Unshared' PROVE Continued'
  <2>1. Unshared /\ Continued
    BY <1>9 DEF Unshared, StoreInv
  <2>2. files[k] = out
    BY <1>1, <2>1 DEF Continued
  <2>3. \A j \in Keys : IsPrefix(files[j], files[j]) /\ IsPrefix(disk[j], files[j])
    <3>1. \A j \in Keys : IsPrefix(files[j], files[j])
      <4> TAKE j \in Keys
      <4>1. PICK S : Content(j) = Seq(S)
        BY DEF Content
      <4> QED
        BY <1>1, <4>1, PrefixIsOrder DEF KeptFiles
    <3> QED
      BY <2>1, <3>1 DEF Continued
  <2>4. ASSUME root # "LOST", NEW j \in Keys, NEW a \in acked'[j] PROVE IsPrefix(a, files[j])
    <3>1. CASE a \in acked[j]
      <4>1. PICK S : Content(j) = Seq(S)
        BY DEF Content
      <4>2. a \in Seq(S) /\ disk[j] \in Seq(S) /\ files[j] \in Seq(S)
        BY <1>1, <3>1, <4>1 DEF StoreInv, StoreTypeOK, KeptFiles
      <4>3. IsPrefix(a, disk[j]) /\ IsPrefix(disk[j], files[j])
        BY <2>1, <2>4, <3>1 DEF Continued
      <4> QED
        BY <4>2, <4>3, PrefixIsOrder
    <3>2. CASE a \notin acked[j]
      BY <1>6, <2>2, <2>3, <2>4, <3>2
    <3> QED
      BY <3>1, <3>2
  <2>5. RetryIsRecognised'
    BY <1>3, <1>4, <1>5, <2>1 DEF Continued, RetryIsRecognised
  <2>6. \A q \in users' : /\ proc'[q].pc = "WRITE" => IsPrefix(files[proc'[q].key], proc'[q].out)
                          /\ proc'[q].pc = "SYNC" => files[proc'[q].key] = proc'[q].out
    BY <1>3, <1>5, <2>1 DEF Continued, StoreInv, StoreTypeOK
  <2> QED
    BY <1>4, <2>3, <2>4, <2>5, <2>6 DEF Continued
<1> QED
  BY <1>5, <1>7, <1>8, <1>9 DEF StoreInv

LEMMA PowerLossInv ==
  ASSUME StoreInv, UNCHANGED users, PowerLoss
  PROVE  StoreInv'
<1>1. \/ root' = "LOST" /\ files' = [j \in Keys |-> Absent]
      \/ /\ root' # "LOST" => root # "LOST"
         /\ \E lost \in SUBSET Keys : files' = [j \in Keys |-> IF j \in lost THEN disk[j] ELSE files[j]]
  BY DEF PowerLoss
<1>2. /\ disk' = files' /\ UNCHANGED <<acked, told>>
      /\ proc' = [p \in Procs |-> NoCall] /\ known' = [p \in Procs |-> NothingKnown]
  BY DEF PowerLoss
<1>3. KeptFiles(files) /\ KeptFiles(disk) /\ KeptFiles(NothingKnown)
  BY NothingKept DEF StoreInv, StoreTypeOK, NothingKnown
<1>4. \A j \in Keys : files'[j] = << >> \/ files'[j] = disk[j] \/ files'[j] = files[j]
  BY <1>1 DEF Absent
<1>a. root' # "LOST" => root # "LOST" /\ \A j \in Keys : files'[j] = disk[j] \/ files'[j] = files[j]
  BY <1>1
<1>5. KeptFiles(files')
  <2>1. CASE files' = [j \in Keys |-> Absent]
    BY <2>1, NothingKept
  <2>2. CASE \E lost \in SUBSET Keys : files' = [j \in Keys |-> IF j \in lost THEN disk[j] ELSE files[j]]
    BY <1>3, <2>2 DEF KeptFiles
  <2> QED
    BY <1>1, <2>1, <2>2
<1>6. /\ proc' \in [Procs -> Call]
      /\ \A p \in Procs : proc'[p] = NoCall /\ proc'[p].pc = "IDLE" /\ CallOK(proc'[p])
  BY <1>2, NoCallOK DEF CallOK
<1>7. StoreTypeOK'
  <2>1. KeptFiles(files)' /\ KeptFiles(disk)'
    BY <1>2, <1>5 DEF KeptFiles
  <2>2. known' \in [Procs -> [Keys -> Records]] /\ \A q \in Procs : KeptFiles(known'[q])
    BY <1>2, <1>3 DEF KeptFiles
  <2> QED
    BY <1>2, <1>6, <2>1, <2>2 DEF StoreInv, StoreTypeOK, KeptFiles
<1>8. ChainsAreValid'
  BY <1>2, <1>4, <1>6, EmptyChain DEF StoreInv, ChainsAreValid, ChainStaysReadable, Keys
<1>9. ASSUME Unshared' PROVE Continued'
  <2>1. Unshared /\ Continued
    BY <1>9 DEF Unshared, StoreInv
  <2>2. ASSUME NEW j \in Keys
        PROVE  /\ IsPrefix(files'[j], files'[j])
               /\ root' # "LOST" => \A a \in acked[j] : IsPrefix(a, files'[j])
    <3>1. PICK S : Content(j) = Seq(S)
      BY DEF Content
    <3>2. disk[j] \in Seq(S) /\ files[j] \in Seq(S) /\ files'[j] \in Seq(S) /\ acked[j] \subseteq Seq(S)
      BY <1>3, <1>5, <3>1 DEF StoreInv, StoreTypeOK, KeptFiles
    <3>3. IsPrefix(files'[j], files'[j])
      BY <3>2, PrefixIsOrder
    <3>4. ASSUME root' # "LOST", NEW a \in acked[j] PROVE IsPrefix(a, files'[j])
      <4>1. IsPrefix(disk[j], files[j]) /\ IsPrefix(a, disk[j])
        BY <1>a, <2>1, <3>4 DEF Continued
      <4>2. IsPrefix(a, files[j])
        BY <3>2, <4>1, PrefixIsOrder
      <4> QED
        BY <1>a, <3>4, <4>1, <4>2
    <3> QED
      BY <3>3, <3>4
  <2>3. RetryIsRecognised'
    BY <1>6 DEF RetryIsRecognised
  <2>4. \A q \in users' : proc'[q].pc = "IDLE"
    BY <1>6 DEF StoreInv, StoreTypeOK
  <2> QED
    BY <1>2, <2>2, <2>3, <2>4 DEF Continued
<1> QED
  BY <1>6, <1>7, <1>8, <1>9 DEF StoreInv

-----------------------------------------------------------------------------
(* Store: the theorem                                                      *)

LEMMA StoreNextInv == StoreInv /\ [StoreNext]_storeVars => StoreInv'
<1> SUFFICES ASSUME StoreInv, [StoreNext]_storeVars PROVE StoreInv'
  OBVIOUS
<1>1. CASE UNCHANGED storeVars
  BY <1>1 DEF storeVars, StoreInv, StoreTypeOK, KeptFiles, ChainsAreValid, ChainStaysReadable, Unshared,
              Continued, RetryIsRecognised
<1>2. ASSUME UNCHANGED <<root, users>>, NEW p \in users, NEW k \in InUse, Load(p, k) PROVE StoreInv'
  BY <1>2, LoadInv, StoreAssumption
<1>3. ASSUME UNCHANGED <<root, users>>, NEW p \in users, NEW c \in Changes,
             SaveWorkflow(p, c) \/ SaveCheckpoint(p, c) \/ AppendEvidenceReceipt(p, c)
      PROVE  StoreInv'
  BY <1>3, SaveInv
<1> QED
  BY <1>1, <1>2, <1>3, RetryInv, ReadInv, ReadAgainInv, RenameInv, SyncInv, CrashInv, PowerLossInv
     DEF StoreNext, ProcessStep

\* A record grows with every step of the one process; a power failure takes what no sync made safe.
LEMMA StepsKeepKnown ==
  ASSUME StoreInv, [StoreNext]_storeVars, Unshared
  PROVE  KnownUnlessLost
<1> DEFINE k == told.key
           record == told.record
<1> SUFFICES ASSUME IsPrefix(record, files[k])
             PROVE  IsPrefix(record, files'[k]) \/ (PowerLoss /\ (root = "SAFE" => ~IsPrefix(record, disk[k])))
  BY DEF KnownUnlessLost
<1>1. k \in Keys /\ record \in Content(k) /\ KeptFiles(files) /\ KeptFiles(disk) /\ Continued
  BY DEF StoreInv, StoreTypeOK
<1>2. CASE PowerLoss
  <2>1. root = "SAFE" => files'[k] = disk[k] \/ files'[k] = files[k]
    BY <1>1, <1>2 DEF PowerLoss
  <2> QED
    BY <1>2, <2>1
<1>3. CASE \E p \in users : Rename(p)
  <2>1. PICK p \in users : Rename(p)
    BY <1>3
  <2> DEFINE j == proc[p].key
             out == proc[p].out
  <2>2. /\ p \in Procs /\ CallOK(proc[p]) /\ j \in Keys /\ out \in Content(j)
        /\ IsPrefix(files[j], out) /\ files' = [files EXCEPT ![j] = out]
    BY <1>1, <2>1 DEF Rename, StoreInv, StoreTypeOK, CallOK, Call, Continued
  <2>3. CASE k = j
    <3>1. PICK S : Content(k) = Seq(S)
      BY DEF Content
    <3>2. record \in Seq(S) /\ files[k] \in Seq(S) /\ out \in Seq(S) /\ files'[k] = out
      BY <1>1, <2>2, <2>3, <3>1 DEF KeptFiles
    <3> QED
      BY <2>2, <2>3, <3>2, PrefixIsOrder
  <2>4. CASE k # j
    BY <1>1, <2>2, <2>4
  <2> QED
    BY <2>3, <2>4
<1>4. CASE UNCHANGED files
  BY <1>4
<1>5. ASSUME NEW p \in users, ReadRecord(p) \/ ReadWorkflowAgain(p) PROVE UNCHANGED files
  <2>1. proc[p].key \in Keys
    BY DEF StoreInv, StoreTypeOK, Call
  <2>2. PICK decision, out : Decide(p, decision, out)
    BY <1>5, <2>1 DEF ReadRecord, ReadWorkflowAgain, Keys
  <2> QED
    BY <2>2 DEF Decide
<1>6. UNCHANGED files \/ PowerLoss \/ \E p \in users : Rename(p)
  BY <1>5 DEF StoreNext, ProcessStep, storeVars, Load, BeginCall, SaveWorkflow, SaveCheckpoint,
              AppendEvidenceReceipt, Retry, SyncDirectory, WriteFails, ProcessCrash
<1> QED
  BY <1>2, <1>3, <1>4, <1>6

\* Whatever becomes of the processes and of the machine, what the caller of a store of its own
\* was told is persisted stays, if the directory does; what it was told is there already is
\* taken by nothing but a power failure before a sync; a save made again is recognised, and
\* the chain stays readable.
THEOREM StoredRecordsAreKept == StoreSpec => RecordsAreKept
<1>1. StoreInv => /\ Unshared => NothingAcknowledgedIsLost /\ RetryIsRecognised
                  /\ ChainStaysReadable
  <2> SUFFICES ASSUME StoreInv
               PROVE  /\ Unshared => NothingAcknowledgedIsLost /\ RetryIsRecognised
                      /\ ChainStaysReadable
    OBVIOUS
  <2>1. ASSUME Continued, root # "LOST", NEW k \in Keys, NEW a \in acked[k]
        PROVE  IsPrefix(a, files[k]) /\ IsPrefix(a, disk[k])
    <3>1. PICK S : Content(k) = Seq(S)
      BY DEF Content
    <3>2. disk[k] \in Seq(S) /\ files[k] \in Seq(S) /\ a \in Seq(S)
      BY <3>1, <2>1 DEF StoreInv, StoreTypeOK, KeptFiles
    <3>3. IsPrefix(disk[k], files[k]) /\ IsPrefix(a, disk[k])
      BY <2>1 DEF Continued
    <3> QED
      BY <3>2, <3>3, PrefixIsOrder
  <2> QED
    BY <2>1 DEF StoreInv, ChainsAreValid, Continued, NothingAcknowledgedIsLost
<1>2. StoreInv /\ [StoreNext]_storeVars => [Unshared => KnownUnlessLost]_storeVars
  BY StepsKeepKnown
<1> QED
  BY <1>1, <1>2, StoreInitInv, StoreNextInv, PTL DEF StoreSpec, RecordsAreKept

-----------------------------------------------------------------------------
(* Workflow: the table of its transitions                                  *)

LEMMA TransitionTable ==
  /\ \A s \in Terminal : s \in WorkflowStatuses /\ Transitions[s] = {}
  /\ \A s \in Cancellable : s \in WorkflowStatuses /\ "CANCELLED" \in Transitions[s]
  /\ \A s \in Pausable : s \in WorkflowStatuses /\ "PAUSED" \in Transitions[s]
  /\ "CREATED" \in WorkflowStatuses /\ "PAUSED" \in WorkflowStatuses
  /\ Pausable \subseteq Transitions["PAUSED"]
  /\ \A s \in WorkflowStatuses : Transitions[s] \subseteq WorkflowStatuses
<1> DEFINE NotEnded == {"CREATED", "PLANNING", "READY", "RUNNING", "WAITING_SPECIALIST",
                        "WAITING_EVIDENCE", "WAITING_AUTHOR", "READY_FOR_ADMISSION_HANDOFF",
                        "ADMISSION_PENDING", "PAUSED"}
<1>1. WorkflowStatuses = Terminal \union NotEnded
  BY DEF WorkflowStatuses, OpenTransitions
<1>2. Terminal \intersect NotEnded = {}
  BY DEF Terminal
<1>3. \A s \in Terminal : Transitions[s] = {}
  BY <1>1 DEF Transitions
<1>4. \A s \in NotEnded : Transitions[s] = OpenTransitions[s]
  BY <1>1, <1>2 DEF Transitions
<1>5. \A s \in NotEnded : OpenTransitions[s] \subseteq Terminal \union NotEnded
  BY DEF Terminal, Stopping, OpenTransitions
<1> QED
  BY <1>1, <1>3, <1>4, <1>5 DEF Terminal, Stopping, Pausable, Cancellable, OpenTransitions

-----------------------------------------------------------------------------
(* Workflow: the invariant                                                 *)

TaskStatuses == {"PLANNED", "READY", "RUNNING", "BLOCKED", "COMPLETED", "FAILED", "CANCELLED",
                 "SUPERSEDED"}

Workflows == [version : Nat \ {0}, status : WorkflowStatuses, tasks : [Tasks -> TaskStatuses],
              checkpoint : Nat]

StopPoints == [class : {"NONE", "PAUSE", "CANCEL"}, pre : Nat, post : Nat, status : WorkflowStatuses,
               verified : SUBSET Tasks, interrupted : SUBSET Tasks]

WorkflowTypeOK ==
  /\ workflow \in Workflows
  /\ plan \in Nat
  /\ checkpoint \in StopPoints
  /\ source \in BOOLEAN
  /\ operation \in [Tasks -> Nat]
  /\ provider \in [Tasks -> {"IDLE", "CALLED", "DONE", "LOST"}]
  /\ performed \in [Tasks -> Nat]

\* A task that may still be started, or whose provider may still be called.
Startable(t) ==
  \/ workflow.tasks[t] \in {"PLANNED", "READY"}
  \/ workflow.tasks[t] = "RUNNING" /\ operation[t] = 0

\* An operation that must not be repeated is under way or done once and for all.
EffectsAreCounted ==
  \A t \in Tasks :
    taskClass[t] = "SPECIALIST" /\ t \notin Idempotent =>
      /\ performed[t] = IF provider[t] = "DONE" THEN 1 ELSE 0
      /\ Startable(t) => provider[t] \in {"IDLE", "LOST"}

\* A stop has its checkpoint.
StopIsRecorded ==
  /\ checkpoint.verified \intersect checkpoint.interrupted = {}
  /\ workflow.status = "PAUSED" => CheckpointValid /\ checkpoint.status \in Pausable

WorkflowInv ==
  /\ WorkflowTypeOK
  /\ EffectsAreCounted
  /\ StoppedIsAtRest
  /\ StopIsRecorded

LEMMA WorkflowInitInv == WorkflowInit => WorkflowInv
<1> SUFFICES ASSUME WorkflowInit PROVE WorkflowInv
  OBVIOUS
<1>1. /\ workflow.status = "CREATED" /\ workflow.version = 1 /\ workflow.checkpoint = 0
      /\ \A t \in Tasks : workflow.tasks[t] = "PLANNED"
  BY DEF WorkflowInit
<1>2. WorkflowTypeOK
  BY TransitionTable DEF WorkflowInit, WorkflowTypeOK, Workflows, StopPoints, NoCheckpoint, TaskStatuses
<1>3. EffectsAreCounted
  BY DEF WorkflowInit, EffectsAreCounted
<1>4. StoppedIsAtRest /\ StopIsRecorded
  BY <1>1 DEF WorkflowInit, StoppedIsAtRest, StopIsRecorded, NoCheckpoint
<1> QED
  BY <1>2, <1>3, <1>4 DEF WorkflowInv

-----------------------------------------------------------------------------
(* Workflow: its steps                                                     *)

\* What an advance of the state leads to.
LEMMA AdvanceType ==
  ASSUME WorkflowTypeOK, NEW status, NEW tasks \in [Tasks -> TaskStatuses], NEW ref \in Nat,
         AdvanceWorkflowState(status, tasks, ref)
  PROVE  /\ workflow' \in Workflows
         /\ workflow'.version = workflow.version + 1
         /\ workflow'.status = status /\ workflow'.tasks = tasks /\ workflow'.checkpoint = ref
         /\ workflow.status \notin Terminal
         /\ status \in Transitions[workflow.status] \union {workflow.status}
<1>1. /\ workflow.version \in Nat \ {0} /\ workflow.status \in WorkflowStatuses
      /\ status \in Transitions[workflow.status] \union {workflow.status}
  BY DEF WorkflowTypeOK, Workflows, AdvanceWorkflowState
<1>2. status \in WorkflowStatuses
  BY <1>1, TransitionTable
<1>3. workflow' = [version |-> workflow.version + 1, status |-> status, tasks |-> tasks,
                   checkpoint |-> ref]
  BY DEF AdvanceWorkflowState
<1> QED
  BY <1>1, <1>2, <1>3 DEF Workflows, AdvanceWorkflowState

\* The caller advances one task of a workflow that is not stopped.
LEMMA TaskStepInv ==
  ASSUME WorkflowInv, NEW t \in Tasks, NEW new \in TaskStatuses,
         AdvanceTasks([workflow.tasks EXCEPT ![t] = new]),
         workflow.status \notin {"PAUSED", "CANCELLED"},
         \/ operation' = operation
         \/ operation' = [operation EXCEPT ![t] = 0],
         UNCHANGED <<taskClass, plan, checkpoint, source, provider, performed>>,
         \/ new \notin {"PLANNED", "READY", "RUNNING"}
         \/ taskClass[t] = "SPECIALIST" /\ t \notin Idempotent => provider[t] \in {"IDLE", "LOST"},
         operation' = operation \/ new = "RUNNING"
  PROVE  WorkflowInv'
<1> DEFINE tasks == [workflow.tasks EXCEPT ![t] = new]
<1>1. /\ workflow.tasks \in [Tasks -> TaskStatuses] /\ workflow.checkpoint \in Nat /\ WorkflowTypeOK
      /\ operation \in [Tasks -> Nat]
  BY DEF WorkflowInv, WorkflowTypeOK, Workflows
<1>2. tasks \in [Tasks -> TaskStatuses] /\ AdvanceWorkflowState(workflow.status, tasks, workflow.checkpoint)
  BY <1>1 DEF AdvanceTasks
<1>3. /\ workflow' \in Workflows /\ workflow'.tasks = tasks /\ workflow'.status = workflow.status
  BY <1>1, <1>2, AdvanceType
<1>4. WorkflowTypeOK'
  BY <1>1, <1>3 DEF WorkflowTypeOK
<1>5. EffectsAreCounted'
  BY <1>1, <1>3 DEF WorkflowInv, EffectsAreCounted, Startable
<1>6. StoppedIsAtRest' /\ StopIsRecorded'
  BY <1>3 DEF WorkflowInv, StoppedIsAtRest, StopIsRecorded
<1> QED
  BY <1>4, <1>5, <1>6 DEF WorkflowInv

LEMMA StartInv ==
  ASSUME WorkflowInv, NEW t \in Tasks, StartTask(t), UNCHANGED taskClass
  PROVE  WorkflowInv'
<1>1. taskClass[t] = "SPECIALIST" /\ t \notin Idempotent => provider[t] \in {"IDLE", "LOST"}
  BY DEF WorkflowInv, EffectsAreCounted, Startable, StartTask
<1> QED
  BY <1>1, TaskStepInv DEF StartTask, TaskStatuses

LEMMA FinishInv ==
  ASSUME WorkflowInv, NEW t \in Tasks, FinishTask(t), UNCHANGED taskClass
  PROVE  WorkflowInv'
<1>1. workflow.status \notin {"PAUSED", "CANCELLED"}
  BY DEF WorkflowInv, StoppedIsAtRest, Running, FinishTask
<1>2. PICK new \in {"COMPLETED", "FAILED"} : AdvanceTasks([workflow.tasks EXCEPT ![t] = new])
  BY DEF FinishTask
<1>3. new \in TaskStatuses /\ new \notin {"PLANNED", "READY", "RUNNING"}
  BY DEF TaskStatuses
<1>4. UNCHANGED <<plan, checkpoint, source, operation, provider, performed>>
  BY DEF FinishTask, external
<1> QED
  BY <1>1, <1>2, <1>3, <1>4, TaskStepInv

LEMMA RetryDecisionInv ==
  ASSUME WorkflowInv, NEW t \in Tasks, NEW state \in Reconciliation(t), NEW withPrior \in BOOLEAN,
         DeriveRetryDecision(t, state, withPrior), UNCHANGED taskClass
  PROVE  WorkflowInv'
<1> DEFINE decision == RetryDecision(t, state, withPrior)
<1>1. workflow.status \notin {"PAUSED", "CANCELLED"} /\ UNCHANGED <<plan, checkpoint, source, operation, provider, performed>>
  BY DEF DeriveRetryDecision, external
<1>2. CASE /\ decision \in {"SAFE_SAME_OPERATION_REPLAY", "NEW_ATTEMPT_AFTER_CONFIRMED_NO_EFFECT"}
           /\ AdvanceTasks([workflow.tasks EXCEPT ![t] = "READY"])
  <2>1. taskClass[t] = "SPECIALIST" /\ t \notin Idempotent => state = "CONFIRMED_NO_EFFECT"
    BY <1>2 DEF RetryDecision, ProviderDecision
  <2>2. taskClass[t] = "SPECIALIST" /\ t \notin Idempotent => provider[t] = "LOST"
    BY <2>1 DEF Reconciliation
  <2> QED
    BY <1>1, <1>2, <2>2, TaskStepInv DEF TaskStatuses
<1>3. CASE AdvanceTasks([workflow.tasks EXCEPT ![t] = "COMPLETED"])
  BY <1>1, <1>3, TaskStepInv DEF TaskStatuses
<1> QED
  BY <1>2, <1>3 DEF DeriveRetryDecision

LEMMA ProviderInv ==
  ASSUME WorkflowInv, NEW t \in Tasks, CallProvider(t) \/ ProviderActs(t), UNCHANGED taskClass
  PROVE  WorkflowInv'
<1>1. UNCHANGED <<workflow, plan, checkpoint, source>>
  BY DEF CallProvider, ProviderActs
<1>2. /\ workflow.version \in Nat \ {0}
      /\ operation \in [Tasks -> Nat] /\ performed \in [Tasks -> Nat]
      /\ provider \in [Tasks -> {"IDLE", "CALLED", "DONE", "LOST"}]
  BY DEF WorkflowInv, WorkflowTypeOK, Workflows
<1>3. StoppedIsAtRest' /\ StopIsRecorded'
  BY <1>1 DEF WorkflowInv, StoppedIsAtRest, StopIsRecorded, Running, CheckpointValid
<1>4. CASE CallProvider(t)
  <2>1. WorkflowTypeOK'
    BY <1>1, <1>2, <1>4 DEF CallProvider, WorkflowInv, WorkflowTypeOK
  <2>2. EffectsAreCounted'
    BY <1>1, <1>2, <1>4 DEF CallProvider, WorkflowInv, EffectsAreCounted, Startable
  <2> QED
    BY <1>3, <2>1, <2>2 DEF WorkflowInv
<1>5. CASE ProviderActs(t)
  <2>1. WorkflowTypeOK'
    BY <1>1, <1>2, <1>5 DEF ProviderActs, WorkflowInv, WorkflowTypeOK
  <2>2. EffectsAreCounted'
    BY <1>1, <1>2, <1>5 DEF ProviderActs, WorkflowInv, EffectsAreCounted, Startable
  <2> QED
    BY <1>3, <2>1, <2>2 DEF WorkflowInv
<1> QED
  BY <1>4, <1>5

LEMMA StatusInv ==
  ASSUME WorkflowInv, NEW status, AdvanceStatus(status), UNCHANGED taskClass
  PROVE  WorkflowInv'
<1>1. /\ workflow.tasks \in [Tasks -> TaskStatuses] /\ workflow.checkpoint \in Nat /\ WorkflowTypeOK
  BY DEF WorkflowInv, WorkflowTypeOK, Workflows
<1>2. /\ workflow' \in Workflows /\ workflow'.tasks = workflow.tasks /\ workflow'.status = status
  BY <1>1, AdvanceType DEF AdvanceStatus
<1>3. /\ UNCHANGED <<plan, checkpoint, source, operation, provider, performed>>
      /\ status \notin {"PAUSED", "CANCELLED"}
  BY DEF AdvanceStatus, external
<1>4. WorkflowTypeOK'
  BY <1>1, <1>2, <1>3 DEF WorkflowTypeOK
<1>5. EffectsAreCounted'
  BY <1>2, <1>3 DEF WorkflowInv, EffectsAreCounted, Startable
<1>6. StoppedIsAtRest' /\ StopIsRecorded'
  BY <1>2, <1>3 DEF WorkflowInv, StoppedIsAtRest, StopIsRecorded
<1> QED
  BY <1>4, <1>5, <1>6 DEF WorkflowInv

\* A pause (PAUSED) or a cancellation (CANCELLED).
LEMMA StopInv ==
  ASSUME WorkflowInv, NEW verified \in SUBSET Tasks, UNCHANGED taskClass,
         PauseWorkflow(verified) \/ CancelWorkflow(verified)
  PROVE  WorkflowInv'
<1>1. PICK class \in {"PAUSE", "CANCEL"}, status \in {"PAUSED", "CANCELLED"} :
        /\ Stop(class, status, verified)
        /\ status = "PAUSED" => class = "PAUSE" /\ workflow.status \in Pausable
  BY DEF PauseWorkflow, CancelWorkflow
<1> DEFINE cancel == status = "CANCELLED"
           tasks == AdjustedForStop(verified, cancel)
<1>2. /\ workflow.tasks \in [Tasks -> TaskStatuses] /\ workflow.version \in Nat /\ WorkflowTypeOK
      /\ workflow.status \in WorkflowStatuses
  BY DEF WorkflowInv, WorkflowTypeOK, Workflows
<1>3. tasks \in [Tasks -> TaskStatuses]
  BY <1>2 DEF AdjustedForStop, TaskStatuses
<1>4. /\ AdvanceWorkflowState(status, tasks, workflow.version)
      /\ \A t \in verified : workflow.tasks[t] = "COMPLETED"
      /\ checkpoint' = [class |-> class, pre |-> workflow.version, post |-> workflow.version + 1,
                        status |-> workflow.status, verified |-> verified, interrupted |-> Running]
      /\ UNCHANGED <<plan, source, operation, provider, performed>>
  BY <1>1 DEF Stop, external
<1>5. \A t \in Tasks : /\ tasks[t] # "RUNNING"
                       /\ tasks[t] \in {"PLANNED", "READY"} => tasks[t] = workflow.tasks[t]
                       /\ t \in verified => tasks[t] = "COMPLETED"
  BY <1>2, <1>4 DEF AdjustedForStop
<1> HIDE DEF tasks
<1>6. /\ workflow' \in Workflows /\ workflow'.tasks = tasks /\ workflow'.status = status
      /\ workflow'.version = workflow.version + 1 /\ workflow'.checkpoint = workflow.version
  BY <1>2, <1>3, <1>4, AdvanceType
<1>7. /\ checkpoint'.verified = verified /\ checkpoint'.interrupted = Running
      /\ checkpoint'.class = class /\ checkpoint'.pre = workflow.version
      /\ checkpoint'.post = workflow.version + 1 /\ checkpoint'.status = workflow.status
  BY <1>4
<1>8. WorkflowTypeOK'
  <2>1. checkpoint' \in StopPoints
    BY <1>2, <1>4 DEF StopPoints, Running
  <2> QED
    BY <1>4, <1>6, <2>1 DEF WorkflowInv, WorkflowTypeOK
<1>9. EffectsAreCounted'
  BY <1>4, <1>5, <1>6 DEF WorkflowInv, EffectsAreCounted, Startable
<1>10. StoppedIsAtRest'
  BY <1>5, <1>6, <1>7 DEF StoppedIsAtRest, Running
<1>11. StopIsRecorded'
  <2>1. verified \intersect Running = {}
    BY <1>4 DEF Running
  <2> QED
    BY <1>1, <1>6, <1>7, <2>1 DEF StopIsRecorded, CheckpointValid
<1> QED
  BY <1>8, <1>9, <1>10, <1>11 DEF WorkflowInv

\* The tasks that a resumption leaves.
Resumed ==
  [t \in Tasks |-> IF t \in checkpoint.interrupted
                   THEN IF Classify(t) = "READY_FOR_LATER_SCHEDULING" THEN "READY" ELSE "BLOCKED"
                   ELSE workflow.tasks[t]]

\* A paused workflow can be resumed: what is recommended is a status it may go to.
LEMMA RecommendedIsPausable ==
  ASSUME checkpoint.status \in Pausable PROVE Recommended \in Pausable
  BY DEF Recommended, Pausable

LEMMA ResumeInv ==
  ASSUME WorkflowInv, ResumeWorkflow, UNCHANGED taskClass
  PROVE  /\ WorkflowInv' /\ workflow'.tasks = Resumed
<1>1. /\ AdvanceWorkflowState(Recommended, Resumed, workflow.checkpoint) /\ workflow.status = "PAUSED"
      /\ UNCHANGED <<plan, checkpoint, source, operation, provider, performed>>
  BY DEF ResumeWorkflow, ResumeAllowed, Resumed, external
<1>2. /\ workflow.tasks \in [Tasks -> TaskStatuses] /\ workflow.checkpoint \in Nat /\ WorkflowTypeOK
  BY DEF WorkflowInv, WorkflowTypeOK, Workflows
<1>3. Resumed \in [Tasks -> TaskStatuses]
  BY <1>2 DEF Resumed, TaskStatuses
<1>4. /\ workflow' \in Workflows /\ workflow'.tasks = Resumed /\ workflow'.status = Recommended
  BY <1>1, <1>2, <1>3, AdvanceType
<1>5. Recommended \in Pausable
  BY <1>1, RecommendedIsPausable DEF WorkflowInv, StopIsRecorded
<1>6. \A t \in Tasks : /\ Resumed[t] # "RUNNING"
                       /\ Resumed[t] \in {"PLANNED", "READY"} => Resumed[t] = workflow.tasks[t] \/ t \in Idempotent
  BY <1>1, <1>2 DEF Resumed, Classify, WorkflowInv, StoppedIsAtRest, Running
<1>7. WorkflowTypeOK'
  BY <1>1, <1>2, <1>4 DEF WorkflowTypeOK
<1>8. EffectsAreCounted'
  BY <1>1, <1>4, <1>6 DEF WorkflowInv, EffectsAreCounted, Startable
<1>9. StoppedIsAtRest' /\ StopIsRecorded'
  BY <1>1, <1>4, <1>5 DEF WorkflowInv, StoppedIsAtRest, StopIsRecorded, Pausable
<1> QED
  BY <1>4, <1>7, <1>8, <1>9 DEF WorkflowInv

LEMMA WorkflowNextInv == WorkflowInv /\ [WorkflowNext]_workflowVars => WorkflowInv'
<1> SUFFICES ASSUME WorkflowInv, [WorkflowNext]_workflowVars PROVE WorkflowInv'
  OBVIOUS
<1>1. CASE UNCHANGED <<workflow, operation, provider, performed, checkpoint, taskClass>> /\ plan' \in Nat /\ source' \in BOOLEAN
  BY <1>1 DEF WorkflowInv, WorkflowTypeOK, EffectsAreCounted, Startable, StoppedIsAtRest, Running,
              StopIsRecorded, CheckpointValid
<1>2. CASE UNCHANGED workflowVars
  BY <1>1, <1>2 DEF workflowVars, WorkflowInv, WorkflowTypeOK
<1>3. CASE UNCHANGED taskClass /\ (CreateExecutionPlan \/ SourceChanges)
  BY <1>1, <1>3 DEF CreateExecutionPlan, SourceChanges, external, WorkflowInv, WorkflowTypeOK, Workflows
<1> QED
  BY <1>2, <1>3, StatusInv, StopInv, ResumeInv, RetryDecisionInv, StartInv, ProviderInv, FinishInv
     DEF WorkflowNext

-----------------------------------------------------------------------------
(* Workflow: the theorem                                                   *)

LEMMA StepsAreClean ==
  ASSUME WorkflowInv, [WorkflowNext]_workflowVars
  PROVE  SafeResumption /\ (workflow.status \in Terminal => workflow' = workflow)
<1>1. "PAUSED" \notin Terminal
  BY DEF Terminal
<1>2. ASSUME UNCHANGED workflow PROVE SafeResumption
  BY <1>2 DEF SafeResumption
<1>3. ASSUME UNCHANGED taskClass, ResumeWorkflow PROVE SafeResumption
  <2>1. workflow'.tasks = Resumed /\ source /\ workflow.status = "PAUSED"
    BY <1>3, ResumeInv DEF ResumeWorkflow, ResumeAllowed
  <2>2. \A t \in checkpoint.verified : t \in Tasks /\ Resumed[t] = workflow.tasks[t] /\ workflow.tasks[t] = "COMPLETED"
    BY <2>1 DEF Resumed, WorkflowInv, StopIsRecorded, StoppedIsAtRest, WorkflowTypeOK, StopPoints
  <2>3. \A t \in Tasks : Resumed[t] = "READY" /\ workflow.tasks[t] # "READY" => t \in Idempotent
    BY DEF Resumed, Classify
  <2> QED
    BY <2>1, <2>2, <2>3 DEF SafeResumption
<1>4. ASSUME WorkflowNext
      PROVE  workflow.status \in Terminal => workflow' = workflow
  BY <1>4 DEF WorkflowNext, AdvanceStatus, PauseWorkflow, CancelWorkflow, Stop, ResumeWorkflow,
     DeriveRetryDecision, StartTask, CallProvider, ProviderActs, FinishTask, SourceChanges,
     CreateExecutionPlan, AdvanceTasks, AdvanceWorkflowState
<1>5. ASSUME NEW status, AdvanceStatus(status) PROVE SafeResumption
  BY <1>5 DEF AdvanceStatus, AdvanceWorkflowState, SafeResumption
<1>6. ASSUME NEW verified, PauseWorkflow(verified) \/ CancelWorkflow(verified) PROVE SafeResumption
  BY <1>6 DEF PauseWorkflow, CancelWorkflow, Stop, AdvanceWorkflowState, SafeResumption, Pausable,
              Terminal
<1>7. ASSUME NEW t, NEW state, NEW withPrior, DeriveRetryDecision(t, state, withPrior)
      PROVE  SafeResumption
  BY <1>7 DEF DeriveRetryDecision, AdvanceTasks, AdvanceWorkflowState, SafeResumption
<1>8. ASSUME NEW t, StartTask(t) \/ FinishTask(t) PROVE SafeResumption
  BY <1>8 DEF StartTask, FinishTask, AdvanceTasks, AdvanceWorkflowState, SafeResumption
<1>9. ASSUME NEW t, CallProvider(t) \/ ProviderActs(t) PROVE SafeResumption
  BY <1>2, <1>9 DEF CallProvider, ProviderActs
<1>10. ASSUME CreateExecutionPlan \/ SourceChanges PROVE SafeResumption
  BY <1>2, <1>10 DEF CreateExecutionPlan, SourceChanges
<1>11. ASSUME WorkflowNext PROVE SafeResumption
  BY <1>3, <1>5, <1>6, <1>7, <1>8, <1>9, <1>10, <1>11 DEF WorkflowNext
<1> QED
  BY <1>2, <1>4, <1>11 DEF workflowVars

\* For every plan, every registry of idempotent operations and every number of stops: an effect
\* that must not be repeated happens at most once, a stopped workflow is at rest, no pause is a
\* dead end, a resumption is safe and a workflow that ended stays as it is.
THEOREM WorkflowStopsAreClean == WorkflowSpec => StopsAreClean
<1>1. WorkflowInv => NoBlindRepeat /\ StoppedIsAtRest /\ StopAndResumeAgree
  <2> SUFFICES ASSUME WorkflowInv PROVE NoBlindRepeat /\ StopAndResumeAgree
    BY DEF WorkflowInv
  <2>1. NoBlindRepeat
    BY DEF WorkflowInv, EffectsAreCounted, NoBlindRepeat
  <2>2. StopAndResumeAgree
    BY TransitionTable, RecommendedIsPausable DEF WorkflowInv, StopIsRecorded, StopAndResumeAgree
  <2> QED
    BY <2>1, <2>2
<1>2. WorkflowInv /\ [WorkflowNext]_workflowVars
        => [SafeResumption]_workflowVars /\ [workflow.status \in Terminal => workflow' = workflow]_workflowVars
  BY StepsAreClean
<1> QED
  BY <1>1, <1>2, WorkflowInitInv, WorkflowNextInv, PTL
     DEF WorkflowSpec, StopsAreClean, ResumeIsSafe, TerminalIsFinal

-----------------------------------------------------------------------------
(* Plan: the layers.  While the layers are put together, the tasks in them *)
(* are after all that they depend on, the indegree of a task counts the    *)
(* dependencies that are in no layer, and the ready tasks are those that   *)
(* have none and are in no layer themselves.                               *)

Graphed ==
  \A t \in PlanTasks : Dependencies(t) \subseteq PlanTasks

LayersApart ==
  \A i, j \in DOMAIN layers : \A t \in layers[i] : t \in layers[j] => i = j

LayersOrdered ==
  \A i \in DOMAIN layers : \A t \in layers[i] : \A d \in Dependencies(t) :
    \E j \in DOMAIN layers : j < i /\ d \in layers[j]

Layered ==
  /\ layers \in Seq(SUBSET PlanTasks)
  /\ LayersApart
  /\ LayersOrdered

Counted ==
  /\ indegree = [t \in PlanTasks |-> Cardinality(Dependencies(t) \ Visited)]
  /\ ready = {t \in PlanTasks : t \notin Visited /\ Dependencies(t) \subseteq Visited}

LayeringInv == Graphed /\ Layered /\ Counted

\* A round adds its tasks to the visited ones.
LEMMA RoundVisits ==
  ASSUME layers \in Seq(SUBSET PlanTasks), layers' = Append(layers, ready),
         ready \subseteq PlanTasks
  PROVE  /\ layers' \in Seq(SUBSET PlanTasks)
         /\ DOMAIN layers' = 1 .. (Len(layers) + 1) /\ DOMAIN layers = 1 .. Len(layers)
         /\ Len(layers) \in Nat
         /\ \A i \in DOMAIN layers : i \in DOMAIN layers' /\ layers'[i] = layers[i]
         /\ layers'[Len(layers) + 1] = ready
         /\ Visited' = Visited \union ready
<1>1. /\ Append(layers, ready) \in Seq(SUBSET PlanTasks)
      /\ Len(Append(layers, ready)) = Len(layers) + 1
      /\ \A i \in 1 .. Len(layers) : Append(layers, ready)[i] = layers[i]
      /\ Append(layers, ready)[Len(layers) + 1] = ready
  BY AppendProperties
<1>2. DOMAIN layers = 1 .. Len(layers) /\ Len(layers) \in Nat
  BY LenProperties
<1>3. DOMAIN layers' = 1 .. (Len(layers) + 1)
  BY <1>1, LenProperties
<1>4. \A i \in DOMAIN layers : i \in DOMAIN layers' /\ layers'[i] = layers[i]
  BY <1>1, <1>2, <1>3
<1>5. \A i \in DOMAIN layers' : i \in DOMAIN layers \/ i = Len(layers) + 1
  BY <1>2, <1>3
<1>6. Len(layers) + 1 \in DOMAIN layers' /\ layers'[Len(layers) + 1] = ready
  BY <1>1, <1>2, <1>3
<1>7. Visited' = Visited \union ready
  <2>1. ASSUME NEW t \in Visited'
        PROVE  t \in Visited \union ready
    <3>1. PICK i \in DOMAIN layers' : t \in layers'[i]
      BY DEF Visited
    <3>2. QED
      BY <1>4, <1>5, <1>6, <3>1 DEF Visited
  <2>2. ASSUME NEW t \in Visited
        PROVE  t \in Visited'
    <3>1. PICK i \in DOMAIN layers : t \in layers[i]
      BY DEF Visited
    <3>2. QED
      BY <1>4, <3>1 DEF Visited
  <2>3. ASSUME NEW t \in ready
        PROVE  t \in Visited'
    BY <1>6 DEF Visited
  <2>4. QED
    BY <2>1, <2>2, <2>3
<1>8. QED
  BY <1>1, <1>2, <1>3, <1>4, <1>6, <1>7

\* What is left of the dependencies of a task is counted, and nothing if all are visited.
LEMMA RestCounts ==
  ASSUME NEW D \in SUBSET PlanTasks, NEW V
  PROVE  /\ IsFiniteSet(D \ V) /\ Cardinality(D \ V) \in Nat
         /\ Cardinality(D \ V) = 0 <=> D \subseteq V
<1>1. IsFiniteSet(D \ V)
  BY PlanAssumption, FS_Subset
<1>2. Cardinality(D \ V) \in Nat /\ (Cardinality(D \ V) = 0 <=> D \ V = {})
  BY <1>1, FS_CardinalityType, FS_EmptySet
<1>3. QED
  BY <1>1, <1>2

\* The dependencies that a round visits come off the count of those left.
LEMMA RoundCounts ==
  ASSUME NEW D \in SUBSET PlanTasks, NEW V, NEW R, R \intersect V = {}
  PROVE  Cardinality(D \ V) - Cardinality(D \intersect R) = Cardinality(D \ (V \union R))
<1>1. IsFiniteSet(D \ V)
  BY RestCounts
<1>2. (D \ V) \intersect R = D \intersect R /\ (D \ V) \ R = D \ (V \union R)
  OBVIOUS
<1>3. Cardinality((D \ V) \ R) = Cardinality(D \ V) - Cardinality((D \ V) \intersect R)
  BY <1>1, FS_Difference
<1>4. QED
  BY <1>2, <1>3

\* A round of topologicalLayers keeps the count.
LEMMA LayerKeepsLayering == LayeringInv /\ Layer => LayeringInv'
<1> SUFFICES ASSUME LayeringInv, Layer
             PROVE  LayeringInv'
  OBVIOUS
<1> DEFINE n == Len(layers) + 1
<1>1. /\ layers' = Append(layers, ready)
      /\ indegree' =
           [t \in PlanTasks |-> indegree[t] - Cardinality(Dependencies(t) \intersect ready)]
      /\ ready' = {t \in PlanTasks : indegree[t] > 0 /\ indegree'[t] = 0}
      /\ taskPlan' = taskPlan
  BY DEF Layer
<1>2. /\ layers \in Seq(SUBSET PlanTasks) /\ ready \subseteq PlanTasks
      /\ ready \intersect Visited = {}
      /\ \A t \in ready : Dependencies(t) \subseteq Visited
      /\ \A t \in PlanTasks : indegree[t] = Cardinality(Dependencies(t) \ Visited)
      /\ \A t \in PlanTasks : t \notin Visited /\ Dependencies(t) \subseteq Visited => t \in ready
  BY DEF LayeringInv, Layered, Counted
<1>3. /\ layers' \in Seq(SUBSET PlanTasks)
      /\ DOMAIN layers' = 1 .. n /\ DOMAIN layers = 1 .. Len(layers) /\ Len(layers) \in Nat
      /\ \A i \in DOMAIN layers : i \in DOMAIN layers' /\ layers'[i] = layers[i]
      /\ layers'[n] = ready
      /\ Visited' = Visited \union ready
  BY <1>1, <1>2, RoundVisits
<1>4. \A t : Dependencies(t)' = Dependencies(t)
  BY <1>1 DEF Dependencies
<1>5. \A t \in PlanTasks : Dependencies(t) \subseteq PlanTasks
  BY DEF LayeringInv, Graphed
<1>6. \A i \in DOMAIN layers' : i \in DOMAIN layers \/ i = n
  BY <1>3
<1>7. n \in DOMAIN layers' /\ n \notin DOMAIN layers /\ \A i \in DOMAIN layers : i < n
  BY <1>3
<1>8. \A t : t \in Visited <=> \E i \in DOMAIN layers : t \in layers[i]
  BY DEF Visited
<1> HIDE DEF n
<1>9. LayersApart'
  <2> SUFFICES ASSUME NEW i \in DOMAIN layers', NEW j \in DOMAIN layers',
                      NEW t \in layers'[i], t \in layers'[j]
               PROVE  i = j
    BY DEF LayersApart
  <2>1. CASE i \in DOMAIN layers /\ j \in DOMAIN layers
    BY <1>3, <2>1 DEF LayeringInv, Layered, LayersApart
  <2>2. CASE i = n /\ j = n
    BY <2>2
  <2>3. CASE i \in DOMAIN layers /\ j = n
    BY <1>2, <1>3, <1>8, <2>3
  <2>4. CASE i = n /\ j \in DOMAIN layers
    BY <1>2, <1>3, <1>8, <2>4
  <2>5. QED
    BY <1>6, <2>1, <2>2, <2>3, <2>4
<1>10. LayersOrdered'
  <2> SUFFICES ASSUME NEW i \in DOMAIN layers', NEW t \in layers'[i], NEW d \in Dependencies(t)
               PROVE  \E j \in DOMAIN layers' : j < i /\ d \in layers'[j]
    BY <1>4 DEF LayersOrdered
  <2>1. CASE i \in DOMAIN layers
    <3>1. PICK j \in DOMAIN layers : j < i /\ d \in layers[j]
      BY <1>3, <2>1 DEF LayeringInv, Layered, LayersOrdered
    <3>2. QED
      BY <1>3, <3>1
  <2>2. CASE i = n
    <3>1. PICK j \in DOMAIN layers : d \in layers[j]
      BY <1>2, <1>3, <1>8, <2>2
    <3>2. QED
      BY <1>3, <1>7, <2>2, <3>1
  <2>3. QED
    BY <1>6, <2>1, <2>2
<1>11. Counted'
  <2>1. ASSUME NEW t \in PlanTasks
        PROVE  /\ indegree[t] \in Nat /\ (indegree[t] = 0 <=> Dependencies(t) \subseteq Visited)
               /\ indegree'[t] = Cardinality(Dependencies(t) \ (Visited \union ready))
               /\ indegree'[t] = 0 <=> Dependencies(t) \subseteq Visited \union ready
    <3>1. PICK D \in SUBSET PlanTasks : D = Dependencies(t)
      BY <1>5
    <3>2. /\ Cardinality(D \ Visited) \in Nat
          /\ Cardinality(D \ Visited) = 0 <=> D \subseteq Visited
      BY RestCounts
    <3>3. Cardinality(D \ (Visited \union ready)) = 0 <=> D \subseteq Visited \union ready
      BY RestCounts
    <3>4. Cardinality(D \ Visited) - Cardinality(D \intersect ready)
            = Cardinality(D \ (Visited \union ready))
      BY <1>2, RoundCounts
    <3>5. /\ indegree[t] = Cardinality(D \ Visited)
          /\ indegree'[t] = indegree[t] - Cardinality(D \intersect ready)
      BY <1>1, <1>2, <3>1
    <3>6. QED
      BY <3>1, <3>2, <3>3, <3>4, <3>5
  <2>2. indegree' = [t \in PlanTasks |-> Cardinality(Dependencies(t)' \ Visited')]
    <3>1. indegree' =
            [t \in PlanTasks |-> Cardinality(Dependencies(t) \ (Visited \union ready))]
      BY <1>1, <2>1
    <3>2. QED
      BY <1>3, <1>4, <3>1
  <2>3. ASSUME NEW t \in PlanTasks
        PROVE  t \in ready' <=> t \notin Visited' /\ Dependencies(t)' \subseteq Visited'
    <3>1. t \in Visited => Dependencies(t) \subseteq Visited
      <4> SUFFICES ASSUME t \in Visited, NEW d \in Dependencies(t)
                   PROVE  d \in Visited
        OBVIOUS
      <4>1. PICK i \in DOMAIN layers : t \in layers[i]
        BY <1>8
      <4>2. \E j \in DOMAIN layers : j < i /\ d \in layers[j]
        BY <4>1 DEF LayeringInv, Layered, LayersOrdered
      <4>3. QED
        BY <1>8, <4>2
    <3>2. t \in ready' <=> /\ ~(Dependencies(t) \subseteq Visited)
                           /\ Dependencies(t) \subseteq Visited \union ready
      <4>1. indegree[t] \in Nat => (indegree[t] > 0 <=> indegree[t] # 0)
        OBVIOUS
      <4>2. t \in ready' <=> indegree[t] > 0 /\ indegree'[t] = 0
        BY <1>1
      <4>3. QED
        BY <2>1, <4>1, <4>2
    <3>3. t \notin Visited \union ready /\ Dependencies(t) \subseteq Visited \union ready
            <=> /\ ~(Dependencies(t) \subseteq Visited)
                /\ Dependencies(t) \subseteq Visited \union ready
      BY <1>2, <3>1
    <3>4. QED
      BY <1>3, <1>4, <3>2, <3>3
  <2>4. ready' \subseteq PlanTasks
    BY <1>1
  <2>5. ready' = {t \in PlanTasks : t \notin Visited' /\ Dependencies(t)' \subseteq Visited'}
    BY <2>3, <2>4
  <2>6. QED
    BY <2>2, <2>5 DEF Counted
<1>12. Graphed'
  BY <1>4, <1>5 DEF Graphed
<1>13. QED
  BY <1>3, <1>9, <1>10, <1>11, <1>12 DEF LayeringInv, Layered

\* When nothing is ready, what is left waits for each other.
LEMMA RestIsStuck ==
  ASSUME LayeringInv, ready = {}, Visited # PlanTasks
  PROVE  \E S \in SUBSET PlanTasks : Stuck(S)
<1>1. Visited \subseteq PlanTasks
  <2>1. ASSUME NEW t \in Visited
        PROVE  t \in PlanTasks
    <3>1. PICK i \in DOMAIN layers : t \in layers[i]
      BY DEF Visited
    <3>2. layers[i] \in SUBSET PlanTasks
      BY <3>1, LenProperties, ElementOfSeq DEF LayeringInv, Layered
    <3>3. QED
      BY <3>1, <3>2
  <2>2. QED
    BY <2>1
<1>2. PlanTasks \ Visited # {}
  BY <1>1
<1>3. ASSUME NEW t \in PlanTasks \ Visited
      PROVE  Dependencies(t) \intersect (PlanTasks \ Visited) # {}
  <2>1. ~(Dependencies(t) \subseteq Visited)
    BY DEF LayeringInv, Counted
  <2>2. QED
    BY <2>1 DEF LayeringInv, Graphed
<1>4. Stuck(PlanTasks \ Visited)
  BY <1>2, <1>3 DEF Stuck
<1>5. QED
  BY <1>4

\* When all tasks are in a layer, each is in one, after all it depends on.
LEMMA LayersAreExact ==
  ASSUME Layered, Visited = PlanTasks
  PROVE  /\ \A t \in PlanTasks : Cardinality({i \in DOMAIN layers : t \in layers[i]}) = 1
         /\ \A i, j \in DOMAIN layers : \A t \in layers[i], d \in layers[j] :
              d \in Dependencies(t) => j < i
<1>1. ASSUME NEW t \in PlanTasks
      PROVE  Cardinality({i \in DOMAIN layers : t \in layers[i]}) = 1
  <2>1. PICK i \in DOMAIN layers : t \in layers[i]
    BY DEF Visited
  <2>2. {j \in DOMAIN layers : t \in layers[j]} = {i}
    BY <2>1 DEF Layered, LayersApart
  <2>3. QED
    BY <2>2, FS_Singleton
<1>2. ASSUME NEW i \in DOMAIN layers, NEW j \in DOMAIN layers,
             NEW t \in layers[i], NEW d \in layers[j], d \in Dependencies(t)
      PROVE  j < i
  <2>1. PICK k \in DOMAIN layers : k < i /\ d \in layers[k]
    BY <1>2 DEF Layered, LayersOrdered
  <2>2. k = j
    BY <2>1 DEF Layered, LayersApart
  <2>3. QED
    BY <2>1, <2>2
<1>3. QED
  BY <1>1, <1>2
-----------------------------------------------------------------------------
(* Plan: the admission.  What requiredAncestors has seen, and what it has  *)
(* still on its stack, has been run whenever the admission may run.        *)

\* What can have been run when the admission task a may run.
RunBefore(a) ==
  {done \in SUBSET PlanTasks : a \in done /\ \A t \in done : taskPlan[t].required \subseteq done}

OnlyAdmission(a) == Admissions = {a} /\ \A t \in PlanTasks : a \notin Dependencies(t)

Searched(a) ==
  \A done \in RunBefore(a) : seen \subseteq done /\ \A i \in DOMAIN stack : stack[i] \subseteq done

SearchInv == \E a \in PlanTasks : OnlyAdmission(a) /\ Searched(a)

SearchTypeOK == stack \in Seq(SUBSET PlanTasks) /\ seen \subseteq PlanTasks

\* A task that is taken off the stack leaves what was below it there.
LEMMA AncestorStack ==
  ASSUME NEW S, NEW s \in Seq(S), s # << >>
  PROVE  /\ Head(s) = s[1] /\ 1 \in DOMAIN s /\ s[1] \in S
         /\ Tail(s) \in Seq(S)
         /\ \A i \in DOMAIN Tail(s) : \E j \in DOMAIN s : Tail(s)[i] = s[j]
<1>1. Len(s) \in Nat /\ Len(s) # 0 /\ DOMAIN s = 1 .. Len(s)
  BY EmptySeq, LenProperties
<1>2. /\ Tail(s) \in Seq(S) /\ Len(Tail(s)) = Len(s) - 1
      /\ \A i \in 1 .. Len(Tail(s)) : Tail(s)[i] = s[i + 1]
  BY HeadTailProperties
<1>3. DOMAIN Tail(s) = 1 .. Len(Tail(s))
  BY <1>2, LenProperties
<1>4. \A i \in DOMAIN Tail(s) : i + 1 \in DOMAIN s
  BY <1>1, <1>2, <1>3
<1>5. 1 \in DOMAIN s /\ Head(s) = s[1] /\ s[1] \in S
  BY <1>1, HeadTailProperties, ElementOfSeq
<1>6. QED
  BY <1>2, <1>3, <1>4, <1>5

\* One that is put in front is the first of the elements.
LEMMA PutInFront ==
  ASSUME NEW S, NEW s \in Seq(S), NEW x \in S
  PROVE  /\ <<x>> \o s \in Seq(S)
         /\ \A i \in DOMAIN (<<x>> \o s) :
              (<<x>> \o s)[i] = x \/ \E j \in DOMAIN s : (<<x>> \o s)[i] = s[j]
<1>1. <<x>> \in Seq(S) /\ Len(<<x>>) = 1 /\ <<x>>[1] = x
  OBVIOUS
<1>2. /\ <<x>> \o s \in Seq(S) /\ Len(<<x>> \o s) = 1 + Len(s)
      /\ \A i \in 1 .. 1 + Len(s) :
           (<<x>> \o s)[i] = IF i <= 1 THEN <<x>>[i] ELSE s[i - 1]
  BY <1>1, ConcatProperties
<1>3. DOMAIN (<<x>> \o s) = 1 .. 1 + Len(s) /\ DOMAIN s = 1 .. Len(s) /\ Len(s) \in Nat
  BY <1>2, LenProperties
<1>4. ASSUME NEW i \in DOMAIN (<<x>> \o s)
      PROVE  (<<x>> \o s)[i] = x \/ \E j \in DOMAIN s : (<<x>> \o s)[i] = s[j]
  <2>1. CASE i <= 1
    BY <1>1, <1>2, <1>3, <2>1
  <2>2. CASE ~(i <= 1)
    <3>1. i - 1 \in DOMAIN s /\ (<<x>> \o s)[i] = s[i - 1]
      BY <1>2, <1>3, <2>2
    <3>2. QED
      BY <3>1
  <2>3. QED
    BY <2>1, <2>2
<1>5. QED
  BY <1>2, <1>4

\* A task on the stack, and what it requires, has been run when the admission may run:
\* it is required by the admission or by a task that was seen.
LEMMA AncestorsAreRun ==
  ASSUME Graphed, SearchTypeOK, SearchInv, Ancestor
  PROVE  SearchTypeOK' /\ SearchInv'
<1>1. PICK a \in PlanTasks : OnlyAdmission(a) /\ Searched(a)
  BY DEF SearchInv
<1>2. /\ stack \in Seq(SUBSET PlanTasks) /\ stack # << >> /\ taskPlan' = taskPlan
      /\ seen \subseteq PlanTasks
  BY DEF Ancestor, SearchTypeOK
<1>3. /\ Head(stack) = stack[1] /\ 1 \in DOMAIN stack /\ stack[1] \in SUBSET PlanTasks
      /\ Tail(stack) \in Seq(SUBSET PlanTasks)
      /\ \A i \in DOMAIN Tail(stack) : \E j \in DOMAIN stack : Tail(stack)[i] = stack[j]
  BY <1>2, AncestorStack
<1>4. OnlyAdmission(a)' /\ RunBefore(a)' = RunBefore(a)
  BY <1>1, <1>2 DEF OnlyAdmission, Admissions, Dependencies, RunBefore
<1>5. \A done \in RunBefore(a) :
        /\ seen \subseteq done /\ Head(stack) \subseteq done
        /\ \A i \in DOMAIN Tail(stack) : Tail(stack)[i] \subseteq done
  BY <1>1, <1>3 DEF Searched
<1>6. ASSUME SearchTypeOK',
             \A done \in RunBefore(a) :
               seen' \subseteq done /\ \A i \in DOMAIN stack' : stack'[i] \subseteq done
      PROVE  SearchTypeOK' /\ SearchInv'
  BY <1>4, <1>6 DEF SearchInv, Searched
<1>7. CASE Head(stack) = {}
  <2>1. stack' = Tail(stack) /\ seen' = seen
    BY <1>7 DEF Ancestor
  <2>2. QED
    BY <1>2, <1>3, <1>5, <1>6, <2>1 DEF SearchTypeOK
<1>8. CASE Head(stack) # {}
  <2>1. PICK t \in Head(stack) :
          /\ seen' = seen \union {t}
          /\ stack' = IF t \in seen THEN <<Head(stack) \ {t}>> \o Tail(stack)
                      ELSE <<taskPlan[t].required>> \o (<<Head(stack) \ {t}>> \o Tail(stack))
    BY <1>8 DEF Ancestor
  <2>2. PICK first \in SUBSET PlanTasks : first = Head(stack) \ {t}
    BY <1>3
  <2>3. PICK tail \in Seq(SUBSET PlanTasks) : tail = Tail(stack)
    BY <1>3
  <2>4. PICK rest : rest = <<first>> \o tail
    OBVIOUS
  <2>5. /\ rest \in Seq(SUBSET PlanTasks)
        /\ \A i \in DOMAIN rest : rest[i] = first \/ \E j \in DOMAIN tail : rest[i] = tail[j]
    BY <2>4, PutInFront
  <2>6. PICK required \in SUBSET PlanTasks : required = taskPlan[t].required
    BY <1>3 DEF Graphed, Dependencies
  <2>7. PICK more : more = <<required>> \o rest
    OBVIOUS
  <2>8. /\ more \in Seq(SUBSET PlanTasks)
        /\ \A i \in DOMAIN more : more[i] = required \/ \E j \in DOMAIN rest : more[i] = rest[j]
    BY <2>5, <2>7, PutInFront
  <2>9. stack' = IF t \in seen THEN rest ELSE more
    BY <2>1, <2>2, <2>3, <2>4, <2>6, <2>7
  <2>10. SearchTypeOK'
    BY <1>2, <1>3, <2>1, <2>5, <2>8, <2>9 DEF SearchTypeOK
  <2>11. ASSUME NEW done \in RunBefore(a)
         PROVE  seen' \subseteq done /\ \A i \in DOMAIN stack' : stack'[i] \subseteq done
    <3>1. seen' \subseteq done /\ required \subseteq done /\ first \subseteq done
      BY <1>5, <2>1, <2>2, <2>6 DEF RunBefore
    <3>2. \A i \in DOMAIN rest : rest[i] \subseteq done
      BY <1>5, <2>3, <2>5, <3>1
    <3>3. \A i \in DOMAIN more : more[i] \subseteq done
      BY <2>8, <3>1, <3>2
    <3>4. QED
      BY <2>9, <3>1, <3>2, <3>3
  <2>12. QED
    BY <1>6, <2>10, <2>11
<1>9. QED
  BY <1>7, <1>8

-----------------------------------------------------------------------------
(* Plan: the invariant.                                                    *)

\* What is known of the tasks once they have been checked.
Checked == Graphed /\ \A t \in PlanTasks : ValidTask(t)

After == {"MULTIPLE", "NOT_A_SINK", "ANCESTORS", "ACCEPTED", "REQUIRED_TASK_NOT_BEFORE_ADMISSION"}

PlanInv ==
  /\ \A t \in PlanTasks : taskPlan[t].class \in {"SPECIALIST", "DECLARED", "WAIT", "HANDOFF"}
  /\ verdict \in {"SUBMITTED", "TASK_INVALID", "LAYERING", "CYCLE"} \union After
  /\ verdict = "SUBMITTED" => layers = << >> /\ stack = << >> /\ seen = {}
  /\ verdict \in {"LAYERING"} \union After => Checked
  /\ verdict = "LAYERING" => LayeringInv /\ stack = << >> /\ seen = {}
  /\ verdict = "CYCLE" => \E S \in SUBSET PlanTasks : Stuck(S)
  /\ verdict \in After => Layered /\ Visited = PlanTasks
  /\ verdict = "ANCESTORS" => SearchTypeOK /\ SearchInv
  /\ verdict = "ACCEPTED" => AdmissionComesLast

\* What depends on the plan and the registry alone stays as they do.
LEMMA SamePlan ==
  ASSUME UNCHANGED <<taskPlan, registry>>
  PROVE  /\ Graphed' = Graphed /\ Checked' = Checked
         /\ \A S : Stuck(S)' = Stuck(S)
         /\ Admissions' = Admissions
         /\ \A t : Dependencies(t)' = Dependencies(t)
<1>1. \A t : Dependencies(t)' = Dependencies(t)
  BY DEF Dependencies
<1>2. ASSUME NEW t
      PROVE  ValidTask(t)' = ValidTask(t)
  <2>1. Dependencies(t)' = Dependencies(t) /\ taskPlan' = taskPlan /\ registry' = registry
    BY <1>1
  <2>2. QED
    BY <2>1 DEF ValidTask
<1>3. QED
  BY <1>1, <1>2 DEF Graphed, Checked, Stuck, Admissions

\* The layers say the same while they are not added to.
LEMMA SameLayers ==
  ASSUME UNCHANGED <<taskPlan, registry, layers>>
  PROVE  Layered' = Layered /\ Visited' = Visited
<1>1. \A t : Dependencies(t)' = Dependencies(t)
  BY DEF Dependencies
<1>2. QED
  BY <1>1 DEF Layered, LayersApart, LayersOrdered, Visited

LEMMA PlanInvInitially == PlanInit => PlanInv
BY PlanAssumption DEF PlanInit, PlanInv, After

\* Before the first round no task is in a layer.
LEMMA CheckStartsLayering == PlanInv /\ CheckTasks => PlanInv'
<1> SUFFICES ASSUME PlanInv, CheckTasks
             PROVE  PlanInv'
  OBVIOUS
<1>1. /\ UNCHANGED <<taskPlan, registry, layers, stack, seen>>
      /\ layers = << >> /\ stack = << >> /\ seen = {}
  BY DEF CheckTasks, PlanInv
<1>2. CASE \A t \in PlanTasks : ValidTask(t) /\ Dependencies(t) \subseteq PlanTasks
  <2>1. /\ verdict' = "LAYERING"
        /\ indegree' = [t \in PlanTasks |-> Cardinality(Dependencies(t))]
        /\ ready' = {t \in PlanTasks : Dependencies(t) = {}}
    BY <1>2 DEF CheckTasks
  <2>2. Checked'
    BY <1>1, <1>2, SamePlan DEF Checked, Graphed
  <2>3. Visited' = {}
    BY <1>1 DEF Visited
  <2>4. Layered'
    BY <1>1 DEF Layered, LayersApart, LayersOrdered
  <2>5. Counted'
    <3>1. \A D : D \ {} = D
      OBVIOUS
    <3>2. \A t : Dependencies(t)' = Dependencies(t)
      BY <1>1, SamePlan
    <3>3. indegree' = [t \in PlanTasks |-> Cardinality(Dependencies(t)' \ Visited')]
      BY <2>1, <2>3, <3>1, <3>2
    <3>4. ready' = {t \in PlanTasks : t \notin Visited' /\ Dependencies(t)' \subseteq Visited'}
      BY <2>1, <2>3, <3>2
    <3>5. QED
      BY <3>3, <3>4 DEF Counted
  <2>6. QED
    BY <1>1, <2>1, <2>2, <2>4, <2>5 DEF PlanInv, LayeringInv, Checked, After
<1>3. CASE ~(\A t \in PlanTasks : ValidTask(t) /\ Dependencies(t) \subseteq PlanTasks)
  <2>1. verdict' = "TASK_INVALID"
    BY <1>3 DEF CheckTasks
  <2>2. QED
    BY <1>1, <2>1 DEF PlanInv, After
<1>4. QED
  BY <1>2, <1>3

LEMMA LayerKeepsPlanInv == PlanInv /\ Layer => PlanInv'
<1> SUFFICES ASSUME PlanInv, Layer
             PROVE  PlanInv'
  OBVIOUS
<1>1. UNCHANGED <<taskPlan, registry, verdict, stack, seen>> /\ verdict = "LAYERING"
  BY DEF Layer
<1>2. LayeringInv'
  BY <1>1, LayerKeepsLayering DEF PlanInv
<1>3. Checked'
  BY <1>1, SamePlan DEF PlanInv
<1>4. QED
  BY <1>1, <1>2, <1>3 DEF PlanInv, After

\* Only tasks that wait for each other are left out of the layers, and the search starts
\* from what the admission requires.
LEMMA EndOfLayersKeepsPlanInv == PlanInv /\ EndOfLayers => PlanInv'
<1> SUFFICES ASSUME PlanInv, EndOfLayers
             PROVE  PlanInv'
  OBVIOUS
<1>1. /\ UNCHANGED <<taskPlan, registry, layers, seen>>
      /\ verdict = "LAYERING" /\ ready = {} /\ Checked /\ LayeringInv /\ seen = {}
      /\ \A t \in PlanTasks : taskPlan[t].class \in {"SPECIALIST", "DECLARED", "WAIT", "HANDOFF"}
  BY DEF EndOfLayers, PlanInv
<1>2. /\ \A S : Stuck(S)' = Stuck(S)
      /\ Checked' /\ Layered'
      /\ Visited' = Visited /\ Admissions' = Admissions
      /\ \A t : Dependencies(t)' = Dependencies(t)
  BY <1>1, SamePlan, SameLayers DEF LayeringInv
<1>3. CASE Visited # PlanTasks /\ verdict' = "CYCLE"
  <2>1. \E S \in SUBSET PlanTasks : Stuck(S)'
    BY <1>1, <1>2, <1>3, RestIsStuck
  <2>2. QED
    BY <1>1, <1>3, <2>1 DEF PlanInv, After
<1>4. CASE /\ Visited = PlanTasks
           /\ verdict' \in {"MULTIPLE", "NOT_A_SINK"}
  BY <1>1, <1>2, <1>4 DEF PlanInv, After
<1>5. CASE Visited = PlanTasks /\ Admissions = {} /\ Accept
  <2>1. verdict' = "ACCEPTED"
    BY <1>5 DEF Accept
  <2>2. AdmissionComesLast'
    BY <1>2, <1>5 DEF AdmissionComesLast
  <2>3. QED
    BY <1>1, <1>2, <1>5, <2>1, <2>2 DEF PlanInv, After
<1>6. ASSUME NEW a \in Admissions, Visited = PlanTasks, Admissions = {a},
             ~(\E t \in PlanTasks : a \in Dependencies(t)),
             verdict' = "ANCESTORS", stack' = <<taskPlan[a].required>>
      PROVE  PlanInv'
  <2>1. a \in PlanTasks /\ OnlyAdmission(a)'
    BY <1>2, <1>6 DEF OnlyAdmission, Admissions
  <2>2. PICK required \in SUBSET PlanTasks : required = taskPlan[a].required
    BY <1>1, <2>1 DEF Checked, Graphed, Dependencies
  <2>3. stack' = <<required>> /\ DOMAIN stack' = {1} /\ stack'[1] = required
    BY <1>6, <2>2
  <2>4. SearchTypeOK'
    BY <1>1, <2>3 DEF SearchTypeOK
  <2>5. Searched(a)'
    BY <1>1, <2>2, <2>3 DEF Searched, RunBefore
  <2>6. SearchInv'
    BY <2>1, <2>5 DEF SearchInv
  <2>7. QED
    BY <1>1, <1>2, <1>6, <2>4, <2>6 DEF PlanInv, After
<1>7. QED
  BY <1>3, <1>4, <1>5, <1>6 DEF EndOfLayers

LEMMA AncestorKeepsPlanInv == PlanInv /\ Ancestor => PlanInv'
<1> SUFFICES ASSUME PlanInv, Ancestor
             PROVE  PlanInv'
  OBVIOUS
<1>1. UNCHANGED <<taskPlan, registry, verdict, layers>> /\ verdict = "ANCESTORS"
  BY DEF Ancestor
<1>2. Checked /\ Layered /\ Visited = PlanTasks /\ SearchTypeOK /\ SearchInv
  BY <1>1 DEF PlanInv, After
<1>3. SearchTypeOK' /\ SearchInv'
  BY <1>2, AncestorsAreRun DEF Checked
<1>4. Checked' /\ Layered' /\ Visited' = PlanTasks
  BY <1>1, <1>2, SamePlan, SameLayers
<1>5. QED
  BY <1>1, <1>3, <1>4 DEF PlanInv, After

\* All that the plan's success needs was seen.
LEMMA EndOfAncestorsKeepsPlanInv == PlanInv /\ EndOfAncestors => PlanInv'
<1> SUFFICES ASSUME PlanInv, EndOfAncestors
             PROVE  PlanInv'
  OBVIOUS
<1>1. UNCHANGED <<taskPlan, registry, layers, stack, seen>> /\ verdict = "ANCESTORS"
  BY DEF EndOfAncestors
<1>2. Checked /\ Layered /\ Visited = PlanTasks /\ SearchTypeOK /\ SearchInv
  BY <1>1 DEF PlanInv, After
<1>3. /\ Checked' /\ Layered' /\ Visited' = PlanTasks /\ Admissions' = Admissions
      /\ \A t : Dependencies(t)' = Dependencies(t)
  BY <1>1, <1>2, SamePlan, SameLayers
<1>4. CASE verdict' = "REQUIRED_TASK_NOT_BEFORE_ADMISSION"
  BY <1>1, <1>3, <1>4 DEF PlanInv, After
<1>5. CASE /\ \A t \in PlanTasks \ Admissions : taskPlan[t].needed => t \in seen
           /\ Accept
  <2>1. PICK a \in PlanTasks : OnlyAdmission(a) /\ Searched(a)
    BY <1>2 DEF SearchInv
  <2>2. ASSUME NEW done \in SUBSET PlanTasks, a \in done,
               \A t \in done : taskPlan[t].required \subseteq done,
               NEW t \in PlanTasks
        PROVE  (taskPlan[t].needed => t \in done) /\ a \notin Dependencies(t)
    <3>1. seen \subseteq done
      BY <2>1, <2>2 DEF Searched, RunBefore
    <3>2. QED
      BY <1>5, <2>1, <2>2, <3>1 DEF OnlyAdmission
  <2>3. AdmissionComesLast'
    BY <1>1, <1>3, <2>1, <2>2 DEF AdmissionComesLast, OnlyAdmission
  <2>4. verdict' = "ACCEPTED"
    BY <1>5 DEF Accept
  <2>5. QED
    BY <1>1, <1>3, <2>3, <2>4 DEF PlanInv, After
<1>6. QED
  BY <1>4, <1>5 DEF EndOfAncestors

LEMMA PlanInvIsKept == PlanInv /\ [PlanNext]_planVars => PlanInv'
<1> SUFFICES ASSUME PlanInv, [PlanNext]_planVars
             PROVE  PlanInv'
  OBVIOUS
<1>1. CASE UNCHANGED planVars
  <2>1. UNCHANGED <<taskPlan, registry, verdict, indegree, ready, layers, stack, seen>>
    BY <1>1 DEF planVars
  <2>2. /\ Graphed' = Graphed /\ Checked' = Checked /\ Layered' = Layered
        /\ Visited' = Visited /\ Admissions' = Admissions
        /\ \A S : Stuck(S)' = Stuck(S)
        /\ \A t : Dependencies(t)' = Dependencies(t)
    BY <2>1, SamePlan, SameLayers
  <2>3. /\ LayeringInv' = LayeringInv /\ SearchTypeOK' = SearchTypeOK
        /\ AdmissionComesLast' = AdmissionComesLast
    BY <2>1, <2>2 DEF LayeringInv, Counted, SearchTypeOK, AdmissionComesLast
  <2>4. SearchInv' = SearchInv
    BY <2>1, <2>2 DEF SearchInv, OnlyAdmission, Searched, RunBefore
  <2>5. QED
    BY <2>1, <2>2, <2>3, <2>4 DEF PlanInv
<1>2. QED
  BY <1>1, CheckStartsLayering, LayerKeepsPlanInv, EndOfLayersKeepsPlanInv,
     AncestorKeepsPlanInv, EndOfAncestorsKeepsPlanInv DEF PlanNext

-----------------------------------------------------------------------------
(* Plan: what follows.                                                     *)

\* A valid registry has one capability with the authority to write, the gate's own.
LEMMA RoutesAreGuarded == PlanInv => OnlyTheGateWrites
<1> SUFFICES ASSUME PlanInv, verdict = "ACCEPTED", NEW t \in PlanTasks
             PROVE  LET reached == Resolve(taskPlan[t].capability, taskPlan[t].domain, registry)
                    IN  /\ taskPlan[t].class = "HANDOFF" =>
                             /\ {c \in registry : c.write} = reached
                             /\ \A c \in reached :
                                  c.dispatch = "GATE" /\ c.owner = "BOOK" /\ ~c.callable
                        /\ taskPlan[t].class # "HANDOFF" => \A c \in reached : ~c.write
  BY DEF OnlyTheGateWrites
<1>1. ValidTask(t) /\ taskPlan[t].class \in {"SPECIALIST", "DECLARED", "WAIT", "HANDOFF"}
  BY DEF PlanInv, Checked, After
<1>2. PICK id, domain, reached :
        /\ id = taskPlan[t].capability /\ domain = taskPlan[t].domain
        /\ reached = Resolve(taskPlan[t].capability, taskPlan[t].domain, registry)
  OBVIOUS
<1>3. /\ \A c \in reached : ValidRegistry(registry) /\ c \in registry
                            /\ c.id = id /\ c.domain = domain
      /\ \A c \in reached : \A d \in registry : d.id = id /\ d.domain = domain => d \in reached
  BY <1>2 DEF Resolve
<1>4. \A c, d \in reached : c = d
  BY <1>3 DEF ValidRegistry
<1>5. CASE taskPlan[t].class = "SPECIALIST"
  <2>1. \E c \in reached : ~c.write
    BY <1>1, <1>2, <1>5 DEF ValidTask, ResolveCallable
  <2>2. QED
    BY <1>2, <1>4, <1>5, <2>1
<1>6. CASE taskPlan[t].class = "DECLARED"
  <2>1. \E c \in reached : ~c.write
    BY <1>1, <1>2, <1>6 DEF ValidTask
  <2>2. QED
    BY <1>2, <1>4, <1>6, <2>1
<1>7. CASE taskPlan[t].class = "WAIT"
  <2>1. domain # "CANONICAL"
    BY <1>1, <1>2, <1>7, PlanAssumption DEF ValidTask
  <2>2. \A c \in reached : ~c.write
    BY <1>3, <2>1 DEF ValidRegistry, ValidCapability
  <2>3. QED
    BY <1>2, <1>7, <2>2
<1>8. CASE taskPlan[t].class = "HANDOFF"
  <2>1. PICK g \in reached : g.owner = "BOOK" /\ g.write /\ ~g.callable /\ g.dispatch = "GATE"
    BY <1>1, <1>2, <1>8 DEF ValidTask
  <2>2. id = ADMISSION /\ domain = "CANONICAL" /\ ValidRegistry(registry)
    BY <1>1, <1>2, <1>3, <1>8, <2>1 DEF ValidTask
  <2>3. ASSUME NEW c \in registry, c.write
        PROVE  c \in reached
    <3>1. c.id = ADMISSION /\ c.domain = "CANONICAL"
      BY <2>2, <2>3 DEF ValidRegistry, ValidCapability
    <3>2. QED
      BY <1>3, <2>1, <2>2, <3>1
  <2>4. \A c \in reached : c \in registry /\ c.write /\ c.dispatch = "GATE"
                           /\ c.owner = "BOOK" /\ ~c.callable
    BY <1>3, <1>4, <2>1
  <2>5. {c \in registry : c.write} = reached
    BY <2>3, <2>4
  <2>6. QED
    BY <1>2, <1>8, <2>4, <2>5
<1>9. QED
  BY <1>1, <1>5, <1>6, <1>7, <1>8

LEMMA PlanInvLayersExactly == PlanInv => LayeringIsExact
BY LayersAreExact DEF PlanInv, LayeringIsExact, After

\* The layers answered are those of a plan that can be carried out, a plan is refused for a
\* cycle only if tasks wait for each other, the admission of an accepted plan comes after
\* all that its success needs, and nothing else writes (validateExecutionPlan).
THEOREM AcceptedPlansAreSafe == PlanSpec => []PlansAreSafe
<1>1. PlanInv => PlansAreSafe
  BY PlanInvLayersExactly, RoutesAreGuarded DEF PlansAreSafe, PlanInv, AdmissionComesLast
<1>2. QED
  BY <1>1, PlanInvInitially, PlanInvIsKept, PTL DEF PlanSpec
==============================================================================
