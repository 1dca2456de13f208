------------------------ MODULE ActivePublicationProofs ------------------------
(***************************************************************************)
(* Proofs about ActivePublication, for any number of runs and any packets. *)
(* A commit that is under way is founded: on nothing, or on a commit of    *)
(* the branch whose packet it was made from.  The branch only grows, so a  *)
(* commit stays founded; as it lands only on the head, it lands on what it *)
(* was founded on, and the history it makes is a log of WorkLog.           *)
(***************************************************************************)
EXTENDS ActivePublication, SequenceTheorems, TLAPS

\* The proofs of what a log keeps, about the history of the branch.
Logged == INSTANCE WorkHistoryProofs WITH
  Writers <- {}, MaxEdits <- 0, workHistory <- log, workHead <- Len(chain), draft <- << >>

Founded(commit) ==
  \/ commit.below = 0 /\ Log!Genesis(commit.packet)
  \/ /\ commit.below \in 1..Len(chain)
     /\ commit.packet \in Log!Transitions(chain[commit.below].packet)

Holding == {"CREATE", "UPDATE", "AMBIGUOUS", "VERIFY"}

PCs == {"IDLE", "BOOTSTRAP", "RECONSTRUCT"} \union Holding

BranchInv ==
  /\ \E S : chain \in Seq(S)
  /\ \A i \in 1..Len(chain) : chain[i].below = i - 1

RunsTyped == \E S : runs \in [Procs -> [pc : PCs, expected : Nat, commit : S]]

\* What a run holds to publish; the commit that it is asked to create the branch on may
\* be any as long as it was not checked.
RunInv(p) ==
  /\ runs[p].pc \in Holding =>
       Founded(runs[p].commit) /\ runs[p].commit.below = runs[p].expected
  /\ runs[p].pc = "BOOTSTRAP" => runs[p].expected = 0
  /\ runs[p].pc = "RECONSTRUCT" => Len(chain) > 0

LateInv == \A commit \in late : Founded(commit)

ReceiptsInv ==
  \A r \in receipts : r.revision \in 1..Len(chain) /\ chain[r.revision] = r.commit

IInv ==
  /\ BranchInv /\ RunsTyped /\ \A p \in Procs : RunInv(p)
  /\ LateInv /\ ReceiptsInv

\* The branch keeps what it has.
Grows ==
  Len(chain) <= Len(chain') /\ \A i \in 1..Len(chain) : chain'[i] = chain[i]

-----------------------------------------------------------------------------
(* The branch                                                              *)

LEMMA BranchLength == BranchInv => Len(chain) \in Nat /\ DOMAIN chain = 1..Len(chain)
  BY LenProperties DEF BranchInv

LEMMA FoundedStays ==
  ASSUME NEW commit, BranchInv, BranchInv', Grows, Founded(commit)
  PROVE  Founded(commit)'
<1>1. Len(chain) \in Nat /\ Len(chain') \in Nat
  BY LenProperties DEF BranchInv
<1> QED
  BY <1>1 DEF Founded, Grows

LEMMA GrowsKeeps ==
  ASSUME BranchInv, BranchInv', Grows, LateInv, ReceiptsInv
  PROVE  /\ late' \subseteq late => LateInv'
         /\ UNCHANGED receipts => ReceiptsInv'
<1>1. Len(chain) \in Nat /\ Len(chain') \in Nat
  BY LenProperties DEF BranchInv
<1>2. ASSUME late' \subseteq late PROVE LateInv'
  BY <1>2, FoundedStays DEF LateInv
<1>3. ASSUME UNCHANGED receipts PROVE ReceiptsInv'
  BY <1>1, <1>3 DEF ReceiptsInv, Grows
<1> QED
  BY <1>2, <1>3

LEMMA ChainUnchanged ==
  ASSUME BranchInv, UNCHANGED chain
  PROVE  BranchInv' /\ Grows /\ UNCHANGED log
  BY BranchLength DEF BranchInv, Grows, log

\* A founded commit that lands on the head extends the log by a step of WorkLog.
LEMMA LandExtends ==
  ASSUME NEW commit, BranchInv, Founded(commit), FastForward(commit), Land(commit)
  PROVE  BranchInv' /\ Grows /\ Log!Next /\ chain'[Len(chain')] = commit
<1> DEFINE n == Len(chain)
<1>1. PICK S : chain \in Seq(S)
  BY DEF BranchInv
<1>2. chain \in Seq(S \union {commit}) /\ n \in Nat /\ DOMAIN chain = 1..n
  BY <1>1, BranchLength
<1>3. chain' = Append(chain, commit)
  <2>1. commit.below = n /\ chain' = Append(SubSeq(chain, 1, n), commit)
    BY DEF FastForward, Land
  <2>2. SubSeq(chain, 1, n) = chain
    BY <1>1, SubSeqFull
  <2> QED
    BY <2>1, <2>2
<1>4. /\ chain' \in Seq(S \union {commit}) /\ Len(chain') = n + 1
      /\ chain'[n + 1] = commit /\ \A i \in 1..n : chain'[i] = chain[i]
  BY <1>2, <1>3, AppendProperties
<1>5. DOMAIN chain' = 1..(n + 1)
  BY <1>4, LenProperties
<1>6. commit.below = n
  BY DEF FastForward
<1>7. BranchInv' /\ Grows
  BY <1>2, <1>4, <1>6 DEF BranchInv, Grows
<1>8. /\ log' = [i \in 1..(n + 1) |-> chain'[i].packet]
      /\ log = [i \in 1..n |-> chain[i].packet]
  BY <1>2, <1>5 DEF log
<1>9. CASE n = 0
  <2>1. Log!Genesis(commit.packet)
    BY <1>6, <1>9 DEF Founded
  <2>2. log' = <<commit.packet>>
    BY <1>4, <1>8, <1>9
  <2>3. log = << >>
    BY <1>8, <1>9
  <2> QED
    BY <1>4, <1>7, <2>1, <2>2, <2>3 DEF Log!Next, Log!Begin
<1>10. CASE n # 0
  <2>1. commit.packet \in Log!Transitions(log[n])
    BY <1>2, <1>6, <1>8, <1>10 DEF Founded
  <2>2. Len(log) = n /\ log # << >>
    BY <1>2, <1>8, <1>10
  <2>3. log' = Append(log, commit.packet)
    BY <1>2, <1>4, <1>8
  <2> QED
    BY <1>4, <1>7, <2>1, <2>2, <2>3 DEF Log!Next, Log!Advance
<1> QED
  BY <1>9, <1>10, <1>2

-----------------------------------------------------------------------------
(* The runs                                                                *)

LEMMA NewCommitFields ==
  ASSUME NEW packet, NEW below
  PROVE  NewCommit(packet, below).packet = packet /\ NewCommit(packet, below).below = below
  BY DEF NewCommit

\* A run keeps the commit it holds, goes on with it, or takes another.
LEMMA RunKeeps ==
  ASSUME NEW q \in Procs, BranchInv, BranchInv', Grows, RunInv(q),
         runs'[q].commit = runs[q].commit, runs'[q].expected = runs[q].expected,
         \/ runs'[q].pc = runs[q].pc
         \/ runs[q].pc \in Holding /\ runs'[q].pc \in Holding
  PROVE  RunInv(q)'
<1>1. PICK c : c = runs[q].commit
  OBVIOUS
<1>2. Founded(c) => Founded(c)'
  BY FoundedStays
<1>3. Len(chain) > 0 => Len(chain') > 0
  BY BranchLength, LenProperties DEF Grows, BranchInv
<1>4. CASE runs[q].pc \in Holding
  <2>1. runs'[q].pc # "RECONSTRUCT" /\ runs'[q].pc # "BOOTSTRAP"
    BY <1>4 DEF Holding
  <2>2. Founded(c)' /\ c = runs'[q].commit /\ c.below = runs'[q].expected
    BY <1>1, <1>2, <1>4 DEF RunInv
  <2> QED
    BY <2>1, <2>2 DEF RunInv
<1>5. CASE runs[q].pc \notin Holding
  BY <1>3, <1>5 DEF RunInv, Holding
<1> QED
  BY <1>4, <1>5

LEMMA GoRun ==
  ASSUME NEW p \in Procs, NEW pc \in Holding, BranchInv, BranchInv', Grows, RunsTyped,
         \A q \in Procs : RunInv(q), runs[p].pc \in Holding, Go(p, pc)
  PROVE  RunsTyped' /\ \A q \in Procs : RunInv(q)'
<1>1. PICK S : runs \in [Procs -> [pc : PCs, expected : Nat, commit : S]]
  BY DEF RunsTyped
<1>2. runs' \in [Procs -> [pc : PCs, expected : Nat, commit : S]]
  BY <1>1 DEF Go, PCs
<1>3. \A q \in Procs : /\ runs'[q].commit = runs[q].commit
                       /\ runs'[q].expected = runs[q].expected
                       /\ q # p => runs'[q].pc = runs[q].pc
                       /\ q = p => runs'[q].pc = pc
  BY <1>1 DEF Go
<1>4. \A q \in Procs : RunInv(q)'
  BY <1>3, RunKeeps DEF Holding
<1> QED
  BY <1>2, <1>4 DEF RunsTyped

LEMMA SetRun ==
  ASSUME NEW p \in Procs, NEW run, BranchInv, BranchInv', Grows, RunsTyped,
         \A q \in Procs : RunInv(q), runs' = [runs EXCEPT ![p] = run],
         run.pc \in PCs, run.expected \in Nat,
         run = [pc |-> run.pc, expected |-> run.expected, commit |-> run.commit],
         run.pc \in Holding => Founded(run.commit) /\ run.commit.below = run.expected,
         run.pc = "BOOTSTRAP" => run.expected = 0,
         run.pc = "RECONSTRUCT" => Len(chain) > 0
  PROVE  RunsTyped' /\ \A q \in Procs : RunInv(q)'
<1>1. PICK S : runs \in [Procs -> [pc : PCs, expected : Nat, commit : S]]
  BY DEF RunsTyped
<1>2. runs' \in [Procs -> [pc : PCs, expected : Nat, commit : S \union {run.commit}]]
  BY <1>1
<1>3. runs'[p] = run /\ \A q \in Procs : q # p => runs'[q] = runs[q]
  BY <1>1
<1>4. RunInv(p)'
  <2>1. Len(chain) > 0 => Len(chain') > 0
    BY BranchLength, LenProperties DEF Grows, BranchInv
  <2>2. PICK c : c = run.commit
    OBVIOUS
  <2>3. Founded(c) => Founded(c)'
    BY FoundedStays
  <2>4. c = runs'[p].commit
    BY <1>3, <2>2
  <2>5. runs'[p].pc \in Holding => Founded(c)' /\ c.below = runs'[p].expected
    BY <1>3, <2>2, <2>3
  <2> QED
    BY <1>3, <2>1, <2>4, <2>5 DEF RunInv
<1>5. \A q \in Procs : q # p => RunInv(q)'
  BY <1>3, RunKeeps
<1> QED
  BY <1>2, <1>4, <1>5 DEF RunsTyped

LEMMA FailRun ==
  ASSUME NEW p \in Procs, BranchInv, BranchInv', Grows, RunsTyped,
         \A q \in Procs : RunInv(q), Fail(p)
  PROVE  RunsTyped' /\ \A q \in Procs : RunInv(q)'
<1>1. PICK run : run = IdleRun
  OBVIOUS
<1>2. /\ run.pc \in PCs /\ run.pc \notin Holding /\ run.pc \notin {"RECONSTRUCT", "BOOTSTRAP"}
      /\ run.expected \in Nat
      /\ run = [pc |-> run.pc, expected |-> run.expected, commit |-> run.commit]
  BY <1>1 DEF IdleRun, PCs, Holding
<1>3. runs' = [runs EXCEPT ![p] = run]
  BY <1>1 DEF Fail
<1> QED
  BY <1>2, <1>3, SetRun

LEMMA RunsUnchanged ==
  ASSUME BranchInv, BranchInv', Grows, RunsTyped, \A q \in Procs : RunInv(q), UNCHANGED runs
  PROVE  RunsTyped' /\ \A q \in Procs : RunInv(q)'
<1>1. RunsTyped'
  BY DEF RunsTyped
<1>2. \A q \in Procs : RunInv(q)'
  BY RunKeeps
<1> QED
  BY <1>1, <1>2

-----------------------------------------------------------------------------
(* The invariant                                                           *)

\* What every step does to the history: nothing, or one step of WorkLog.
Extends == BranchInv' /\ Grows /\ [Log!Next]_log

\* An update that is sent either lands on the head or leaves the branch as it is.
LEMMA StepExtends == IInv /\ [Next]_vars => Extends
<1> SUFFICES ASSUME IInv, [Next]_vars PROVE Extends
  OBVIOUS
<1>1. CASE UNCHANGED chain
  BY <1>1, ChainUnchanged DEF IInv, Extends
<1>2. ASSUME NEW p \in Procs, CreateGenesisRef(p) \/ UpdateRef(p) PROVE Extends
  <2>1. PICK c : c = runs[p].commit
    OBVIOUS
  <2>2. Founded(c)
    BY <1>2, <2>1 DEF CreateGenesisRef, UpdateRef, At, IInv, RunInv, Holding
  <2>3. (FastForward(c) /\ Land(c)) \/ UNCHANGED chain
    BY <1>2, <2>1 DEF CreateGenesisRef, UpdateRef
  <2> QED
    BY <1>1, <2>2, <2>3, LandExtends DEF IInv, Extends
<1>3. CASE LateUpdate
  <2>1. PICK c \in late : (FastForward(c) /\ Land(c)) \/ UNCHANGED chain
    BY <1>3 DEF LateUpdate
  <2> QED
    BY <1>1, <2>1, LandExtends DEF IInv, LateInv, Extends
<1>4. ASSUME NEW p \in Procs,
             BuildGenesis(p) \/ RequestBootstrap(p) \/ CheckBootstrap(p) \/ StartRun(p)
               \/ MakeCommit(p) \/ Observe(p) \/ VerifyWritten(p) \/ CrashRun(p)
      PROVE  Extends
  BY <1>1, <1>4 DEF BuildGenesis, RequestBootstrap, CheckBootstrap, StartRun, MakeCommit,
                    Observe, VerifyWritten, CrashRun
<1> QED
  BY <1>1, <1>2, <1>3, <1>4 DEF Next, vars

LEMMA InitInv == Init => IInv
<1> SUFFICES ASSUME Init PROVE IInv
  OBVIOUS
<1>1. chain \in Seq({}) /\ Len(chain) = 0
  BY DEF Init
<1>2. BranchInv /\ LateInv /\ ReceiptsInv
  BY <1>1 DEF Init, BranchInv, LateInv, ReceiptsInv
<1>3. \A p \in Procs : RunInv(p)
  BY DEF Init, IdleRun, RunInv, Holding
<1>4. runs \in [Procs -> [pc : PCs, expected : Nat, commit : {NoCommit}]]
  BY DEF Init, IdleRun, PCs
<1>5. RunsTyped
  BY <1>4 DEF RunsTyped
<1> QED
  BY <1>2, <1>3, <1>5 DEF IInv

\* The packets and their validity are the same in the log.
LEMMA SamePacket == Log!Packet = Packet /\ \A p : Log!Valid(p) <=> Valid(p)
<1>1. \A p, id : Log!Earned(p, id) <=> Earned(p, id)
  BY DEF Log!Earned, Earned
<1>2. \A p : Log!Valid(p) <=> Valid(p)
  BY <1>1 DEF Log!Valid, Valid
<1>3. Log!Packet = Packet
  BY DEF Log!Packet, Packet, Log!Candidate, Candidate, Log!Receipt, Receipt,
         Log!Standings, Standings
<1> QED
  BY <1>2, <1>3

RunsInv == RunsTyped /\ \A p \in Procs : RunInv(p)

LEMMA StepRuns ==
  ASSUME IInv, BranchInv', Grows, [Next]_vars
  PROVE  RunsInv'
<1> USE DEF IInv, RunsInv
<1>1. CASE UNCHANGED runs
  BY <1>1, RunsUnchanged
<1>2. ASSUME NEW p \in Procs, Fail(p) PROVE RunsInv'
  BY <1>2, FailRun
<1>3. ASSUME NEW p \in Procs, NEW pc \in Holding, runs[p].pc \in Holding, Go(p, pc)
      PROVE  RunsInv'
  BY <1>3, GoRun
<1>4. ASSUME NEW p \in Procs, NEW commit, Bootstrap(p, commit) PROVE RunsInv'
  <2>1. PICK run : run = [pc |-> "BOOTSTRAP", expected |-> 0, commit |-> commit]
    OBVIOUS
  <2>2. /\ run = [pc |-> run.pc, expected |-> run.expected, commit |-> run.commit]
        /\ run.pc \in PCs /\ run.expected \in Nat /\ run.expected = 0
        /\ run.pc # "RECONSTRUCT" /\ run.pc \notin Holding
    BY <2>1 DEF PCs, Holding
  <2>3. runs' = [runs EXCEPT ![p] = run]
    BY <1>4, <2>1 DEF Bootstrap
  <2> QED
    BY <2>2, <2>3, SetRun
<1>5. ASSUME NEW p \in Procs, StartRun(p) PROVE RunsInv'
  <2>1. PICK run : run = [pc |-> "RECONSTRUCT", expected |-> Len(chain), commit |-> NoCommit]
    OBVIOUS
  <2>2. runs' = [runs EXCEPT ![p] = run]
    BY <1>5, <2>1 DEF StartRun
  <2>3. /\ run = [pc |-> run.pc, expected |-> run.expected, commit |-> run.commit]
        /\ run.pc \in PCs /\ run.pc \notin Holding /\ run.pc # "BOOTSTRAP"
        /\ run.expected \in Nat
    BY <2>1, BranchLength DEF PCs, Holding
  <2>4. Len(chain) > 0
    BY <1>5, BranchLength, EmptySeq DEF StartRun, BranchInv
  <2> QED
    BY <2>2, <2>3, <2>4, SetRun
<1>6. ASSUME NEW p \in Procs, MakeCommit(p) PROVE RunsInv'
  <2>1. CASE Fail(p)
    BY <1>2, <2>1
  <2>2. ASSUME NEW q \in Log!Transitions(Tip.packet), Expected(p),
               runs' = [runs EXCEPT ![p] =
                 [pc |-> "UPDATE", expected |-> runs[p].expected,
                  commit |-> NewCommit(q, Len(chain))]]
        PROVE  RunsInv'
    <3>1. PICK run : run = [pc |-> "UPDATE", expected |-> runs[p].expected,
                            commit |-> NewCommit(q, Len(chain))]
      OBVIOUS
    <3>2. PICK S : runs \in [Procs -> [pc : PCs, expected : Nat, commit : S]]
      BY DEF RunsTyped
    <3>3. runs' = [runs EXCEPT ![p] = run]
      BY <2>2, <3>1
    <3>4. run.commit.packet = q /\ run.commit.below = Len(chain)
      BY <3>1, NewCommitFields
    <3>5. run.expected = Len(chain) /\ run.expected \in Nat
      BY <2>2, <3>1, <3>2 DEF Expected
    <3>6. Len(chain) > 0
      BY <1>6 DEF MakeCommit, At, RunInv
    <3>7. Founded(run.commit)
      BY <3>4, <3>5, <3>6 DEF Founded, Tip
    <3>8. /\ run = [pc |-> run.pc, expected |-> run.expected, commit |-> run.commit]
          /\ run.pc \in PCs /\ run.pc \notin {"BOOTSTRAP", "RECONSTRUCT"}
      BY <3>1 DEF PCs, Holding
    <3> QED
      BY <3>3, <3>4, <3>5, <3>7, <3>8, SetRun
  <2> QED
    BY <1>6, <2>1, <2>2 DEF MakeCommit
<1>7. ASSUME NEW p \in Procs, CheckBootstrap(p) PROVE RunsInv'
  <2>1. CASE Fail(p)
    BY <1>2, <2>1
  <2>2. CASE FirstRevision(runs[p].commit) /\ Go(p, "CREATE")
    <3>1. PICK run : run = [runs[p] EXCEPT !.pc = "CREATE"]
      OBVIOUS
    <3>2. PICK S : runs \in [Procs -> [pc : PCs, expected : Nat, commit : S]]
      BY DEF RunsTyped
    <3>3. runs' = [runs EXCEPT ![p] = run]
      BY <2>2, <3>1 DEF Go
    <3>4. /\ run = [pc |-> run.pc, expected |-> run.expected, commit |-> run.commit]
          /\ run.pc = "CREATE" /\ run.expected = runs[p].expected /\ run.commit = runs[p].commit
      BY <3>1, <3>2
    <3>5. run.expected = 0
      BY <1>7, <3>4 DEF CheckBootstrap, At, RunInv
    <3>6. run.commit.below = 0 /\ Founded(run.commit)
      BY <2>2, <3>4, SamePacket DEF FirstRevision, Founded, Log!Genesis
    <3>7. run.pc \in PCs /\ run.pc \notin {"BOOTSTRAP", "RECONSTRUCT"}
      BY <3>4 DEF PCs, Holding
    <3>8. run.expected \in Nat /\ run.commit.below = run.expected
      BY <3>5, <3>6
    <3> QED
      BY <3>3, <3>4, <3>6, <3>7, <3>8, SetRun
  <2> QED
    BY <1>7, <2>1, <2>2 DEF CheckBootstrap
<1>8. ASSUME NEW p \in Procs, CreateGenesisRef(p) PROVE RunsInv'
  BY <1>2, <1>3, <1>8 DEF CreateGenesisRef, At, Holding, PCs
<1>9. ASSUME NEW p \in Procs, UpdateRef(p) PROVE RunsInv'
  BY <1>2, <1>3, <1>9 DEF UpdateRef, At, Holding, PCs
<1>10. ASSUME NEW p \in Procs, Observe(p) PROVE RunsInv'
  BY <1>2, <1>3, <1>10 DEF Observe, At, Holding, PCs
<1>11. ASSUME NEW p \in Procs, VerifyWritten(p) \/ CrashRun(p) PROVE RunsInv'
  BY <1>2, <1>11 DEF VerifyWritten, CrashRun
<1>12. CASE LateUpdate
  BY <1>1, <1>12 DEF LateUpdate
<1>13. ASSUME NEW p \in Procs, BuildGenesis(p) \/ RequestBootstrap(p) PROVE RunsInv'
  BY <1>4, <1>13 DEF BuildGenesis, RequestBootstrap
<1> QED
  BY <1>1, <1>5, <1>6, <1>7, <1>8, <1>9, <1>10, <1>11, <1>12, <1>13 DEF Next, vars

LEMMA StepLate ==
  ASSUME IInv, BranchInv', Grows, [Next]_vars
  PROVE  LateInv'
<1> USE DEF IInv
<1>1. CASE late' \subseteq late
  BY <1>1, GrowsKeeps
<1>2. ASSUME NEW p \in Procs, Sent(runs[p].commit), runs[p].pc \in Holding PROVE LateInv'
  <2>1. PICK c : c = runs[p].commit
    OBVIOUS
  <2>2. Founded(c) /\ late' = late \union {c}
    BY <1>2, <2>1 DEF Sent, RunInv
  <2> QED
    BY <2>2, FoundedStays DEF LateInv
<1>3. ASSUME NEW p \in Procs, CreateGenesisRef(p) \/ UpdateRef(p) PROVE LateInv'
  BY <1>1, <1>2, <1>3 DEF CreateGenesisRef, UpdateRef, At, Holding
<1>4. ASSUME NEW p \in Procs,
             BuildGenesis(p) \/ RequestBootstrap(p) \/ CheckBootstrap(p) \/ StartRun(p)
               \/ MakeCommit(p) \/ Observe(p) \/ VerifyWritten(p) \/ CrashRun(p)
      PROVE  LateInv'
  BY <1>1, <1>4 DEF BuildGenesis, RequestBootstrap, CheckBootstrap, StartRun, MakeCommit,
                    Observe, VerifyWritten, CrashRun
<1>5. CASE LateUpdate
  BY <1>1, <1>5 DEF LateUpdate
<1> QED
  BY <1>1, <1>3, <1>4, <1>5 DEF Next, vars

\* A receipt is given only for the commit that the branch shows.
LEMMA StepReceipts ==
  ASSUME IInv, BranchInv', Grows, [Next]_vars
  PROVE  ReceiptsInv'
<1> USE DEF IInv
<1>1. CASE UNCHANGED receipts
  BY <1>1, GrowsKeeps
<1>2. ASSUME NEW p \in Procs, VerifyWritten(p), Shows(p) PROVE ReceiptsInv'
  <2>1. /\ receipts' = receipts \union
             {[revision |-> runs[p].expected + 1, commit |-> runs[p].commit]}
        /\ UNCHANGED chain
    BY <1>2 DEF VerifyWritten
  <2>2. Len(chain) \in Nat /\ Len(chain) > 0 /\ chain[Len(chain)] = runs[p].commit
    BY <1>2, BranchLength, EmptySeq DEF Shows, Tip, BranchInv
  <2>3. runs[p].commit.below = runs[p].expected
    BY <1>2 DEF VerifyWritten, At, RunInv, Holding
  <2>4. runs[p].expected + 1 = Len(chain)
    BY <2>2, <2>3 DEF BranchInv
  <2> QED
    BY <2>1, <2>2, <2>4 DEF ReceiptsInv
<1>3. ASSUME NEW p \in Procs, VerifyWritten(p) PROVE ReceiptsInv'
  BY <1>1, <1>2, <1>3 DEF VerifyWritten
<1>4. ASSUME NEW p \in Procs,
             BuildGenesis(p) \/ RequestBootstrap(p) \/ CheckBootstrap(p)
               \/ CreateGenesisRef(p) \/ StartRun(p) \/ MakeCommit(p) \/ UpdateRef(p) \/ Observe(p) \/ CrashRun(p)
      PROVE  ReceiptsInv'
  BY <1>1, <1>4 DEF BuildGenesis, RequestBootstrap, CheckBootstrap, CreateGenesisRef,
                    StartRun, MakeCommit, UpdateRef, Observe, CrashRun
<1>5. CASE LateUpdate
  BY <1>1, <1>5 DEF LateUpdate
<1> QED
  BY <1>1, <1>3, <1>4, <1>5 DEF Next, vars

LEMMA StepInv == IInv /\ [Next]_vars => IInv'
<1> SUFFICES ASSUME IInv, [Next]_vars PROVE IInv'
  OBVIOUS
<1>1. BranchInv' /\ Grows
  BY StepExtends DEF Extends
<1>2. RunsInv' /\ LateInv' /\ ReceiptsInv'
  BY <1>1, StepRuns, StepLate, StepReceipts
<1> QED
  BY <1>1, <1>2 DEF IInv, RunsInv

-----------------------------------------------------------------------------
(* The theorems                                                            *)

THEOREM Invariance == Spec => []IInv
  BY InitInv, StepInv, PTL DEF Spec

\* Whatever runs, losses and late answers do to the branch, its history is a log.
THEOREM Publishes == Spec => PublishesALog
<1>1. Init => Log!Init
  BY DEF Init, Log!Init, log
<1>2. IInv /\ [Next]_vars => [Log!Next]_log
  BY StepExtends DEF Extends
<1> QED
  BY <1>1, <1>2, Invariance, PTL DEF Spec, PublishesALog, Log!Spec

\* A run that reports success names a commit that the branch keeps.
THEOREM Receipts == Spec => []ReceiptsAreTrue
<1>1. IInv => ReceiptsAreTrue
  BY BranchLength DEF IInv, ReceiptsInv, ReceiptsAreTrue
<1> QED
  BY <1>1, Invariance, PTL

LEMMA HistoryIsKept == Log!Spec => []Logged!Kept
<1>1. Logged!PacketAssumption
  BY PacketAssumption
     DEF Logged!PacketAssumption, Logged!Packet, Packet,
         Logged!Candidate, Candidate, Logged!Receipt, Receipt, Logged!Standings, Standings
<1>2. Logged!Spec => []Logged!Kept
  BY <1>1, Logged!LogIsKept
<1>3. Log!Begin <=> Logged!Begin
  BY DEF
     Log!Begin, Logged!Begin, Log!Genesis, Logged!Genesis, Log!Packet,
     Logged!Packet, Log!Valid, Logged!Valid, Log!Candidate, Logged!Candidate,
     Log!Receipt, Logged!Receipt, Log!Standings, Logged!Standings, Log!Earned,
     Logged!Earned, Log!Known, Logged!Known
<1>4. \A p, q : q \in Log!Transitions(p) <=> q \in Logged!Transitions(p)
  <2>1. \A q : Log!Valid(q) <=> Logged!Valid(q)
    BY DEF Log!Valid, Logged!Valid, Log!Earned, Logged!Earned
  <2>2. \A p, q : q \in Log!Terminate(p) <=> q \in Logged!Terminate(p)
    <3>1. \A p, q : q \in Log!Terminate(p) <=>
            /\ Log!Valid(q)
            /\ \E r \in Log!Receipt, offer \in Offers :
                 /\ p.state # "TERMINAL" /\ r.op = p.op /\ ~Log!Known(p, r.id)
                 /\ q = Log!Terminated(p, r, offer)
      BY DEF Log!Terminate, Log!Finalized
    <3>2. \A p, q : q \in Logged!Terminate(p) <=>
            /\ Logged!Valid(q)
            /\ \E r \in Logged!Receipt, offer \in Offers :
                 /\ p.state # "TERMINAL" /\ r.op = p.op /\ ~Logged!Known(p, r.id)
                 /\ q = Logged!Terminated(p, r, offer)
      BY DEF Logged!Terminate, Logged!Finalized
    <3>3. \A p, r, offer : Log!Terminated(p, r, offer) = Logged!Terminated(p, r, offer)
      BY DEF Log!Terminated, Logged!Terminated
    <3>4. \A p, id : Log!Known(p, id) <=> Logged!Known(p, id)
      BY DEF Log!Known, Logged!Known
    <3>5. Log!Receipt = Logged!Receipt
      BY DEF Log!Receipt, Logged!Receipt
    <3> QED
      BY <2>1, <3>1, <3>2, <3>3, <3>4, <3>5
  <2>3. \A p, q : q \in Log!Rebind(p) <=> q \in Logged!Rebind(p)
    <3>1. \A p, id, s : Log!Bound(p, id, s) = Logged!Bound(p, id, s)
      BY DEF Log!Bound, Logged!Bound
    <3>2. \A p, id : Log!Earned(p, id) <=> Logged!Earned(p, id)
      BY DEF Log!Earned, Logged!Earned
    <3> QED
      BY <2>1, <3>1, <3>2 DEF Log!Rebind, Logged!Rebind, Log!Finalized, Logged!Finalized
  <2>4. \A p, q : q \in Log!RecordPass(p) <=> q \in Logged!RecordPass(p)
    BY <2>1 DEF Log!RecordPass, Logged!RecordPass, Log!UpdateStanding,
                Logged!UpdateStanding, Log!Finalized, Logged!Finalized
  <2>5. \A p, q : q \in Log!Start(p) <=> q \in Logged!Start(p)
    <3>1. \A p : Log!Eligible(p) = Logged!Eligible(p)
      BY DEF Log!Eligible, Logged!Eligible, Log!Satisfied, Logged!Satisfied
    <3>2. \A p : Log!NextLegal(p) = Logged!NextLegal(p)
      BY <3>1 DEF Log!NextLegal, Logged!NextLegal
    <3>3. \A p, c, offer : Log!Started(p, c, offer) = Logged!Started(p, c, offer)
      BY DEF Log!Started, Logged!Started
    <3> QED
      BY <2>1, <3>1, <3>2, <3>3 DEF Log!Start, Logged!Start, Log!Finalized, Logged!Finalized
  <2>6. \A p, q : q \in Log!AuthorizeAndStart(p) <=> q \in Logged!AuthorizeAndStart(p)
    <3>1. \A p, q : q \in Log!AuthorizeAndStart(p) <=>
            /\ q.candidates = {}
            /\ \E b \in Log!Rebind(p), c \in UNION Offers :
                 Log!Valid(Log!OfferedAlone(b, c)) /\ q \in Log!Start(Log!OfferedAlone(b, c))
      BY DEF Log!AuthorizeAndStart, Log!Finalized
    <3>2. \A p, q : q \in Logged!AuthorizeAndStart(p) <=>
            /\ q.candidates = {}
            /\ \E b \in Logged!Rebind(p), c \in UNION Offers :
                 /\ Logged!Valid(Logged!OfferedAlone(b, c))
                 /\ q \in Logged!Start(Logged!OfferedAlone(b, c))
      BY DEF Logged!AuthorizeAndStart, Logged!Finalized
    <3>3. \A b, c : Log!OfferedAlone(b, c) = Logged!OfferedAlone(b, c)
      BY DEF Log!OfferedAlone, Logged!OfferedAlone
    <3> QED
      BY <2>1, <2>3, <2>5, <3>1, <3>2, <3>3
  <2> QED
    BY <2>2, <2>3, <2>4, <2>6 DEF Log!Transitions, Logged!Transitions
<1>5. Log!Advance <=> Logged!Advance
  BY <1>4 DEF Log!Advance, Logged!Advance
<1>6. Log!Next <=> Logged!Next
  BY <1>3, <1>5 DEF Log!Next, Logged!Next
<1>7. Log!Init <=> Logged!Init
  BY DEF Log!Init, Logged!Init
<1> QED
  BY <1>2, <1>6, <1>7, PTL DEF Log!Spec, Logged!Spec

\* No operation is left without its receipt and no receipt is lost, in any history of
\* the branch.
THEOREM KeepsWork == Spec => []WorkIsKept
<1>1. Logged!Kept => WorkIsKept
  BY DEF Logged!Kept, WorkIsKept, Logged!NothingIsDropped, NothingIsDropped,
         Logged!ReceiptsStay, ReceiptsStay
<1> QED
  BY <1>1, Publishes, HistoryIsKept, PTL DEF PublishesALog

\* The authority of the branch is known by its epoch and was earned.
THEOREM KeepsAuthority == Spec => []AuthorityIsKept
<1>1. Logged!Kept => AuthorityIsKept
  BY DEF Logged!Kept, AuthorityIsKept, Logged!EpochNamesAuthority, EpochNamesAuthority,
         Logged!AuthorityIsEarned, AuthorityIsEarned, Logged!Earned, Earned
<1> QED
  BY <1>1, Publishes, HistoryIsKept, PTL DEF PublishesALog

\* The branch tells the truth of what runs reported, of the work and of the authority.
THEOREM TellsTheTruth == Spec => []BranchIsTrue
BY Receipts, KeepsWork, KeepsAuthority, PTL DEF BranchIsTrue

=============================================================================
