----------------------------- MODULE MCWorkflows -----------------------------
(***************************************************************************)
(* Instances for TLC of what GitHub's workflows run.  As in MCLibraries a  *)
(* behaviour is one of one part, and the variables of the others keep      *)
(* their first values.                                                     *)
(***************************************************************************)
EXTENDS ActivePublication, ActiveWorkStore, SingleWriter, ProductionMutation, ChatSessions,
        ChatRecovery, RepairLedger, ShiftLedger, TLC

CONSTANTS
  Parts,   \* the parts that are run
  o1, o2, r1, s1

-----------------------------------------------------------------------------
\* Publication: two operations, of which the second one needs the receipt of the first.
\* "publication": one run after the other, updates may land late; "race": two at a time;
\* "long": operations that follow each other to and fro.
MCEdges == (o1 :> {}) @@ (o2 :> {r1})

Once == {{}, {[op |-> o2, pred |-> r1, needs |-> {r1}, standing |-> "PENDING"]}}

\* The first one may come again.
MCOffers == Once \union {{[op |-> o1, pred |-> r1, needs |-> {}, standing |-> "PASSED"]}}

PlainPacket ==
  [op |-> o1, state |-> "ACTIVE", pred |-> None, last |-> None, receipts |-> {},
   candidates |-> {}, standing |-> "PASSED", epoch |-> 1, rebind |-> None, subject |-> s1]

\* One that comes with a history of its own: its operation ended, its authority was
\* changed, and A-01 has blocked it since it was qualified.
EarlierReceipt == [id |-> r1, op |-> o1, outcome |-> "SUCCEEDED", satisfies |-> TRUE]

EndedPacket ==
  [PlainPacket EXCEPT !.state = "TERMINAL", !.last = EarlierReceipt,
                      !.receipts = {EarlierReceipt}, !.standing = "RECONCILE",
                      !.epoch = 2, !.rebind = r1]

MCFirst == {PlainPacket, EndedPacket, [PlainPacket EXCEPT !.standing = "PENDING"]}

Publication == INSTANCE ActivePublication WITH Offers <- Once, MaxLength <- 3

Racing == INSTANCE ActivePublication WITH
  First <- {PlainPacket}, Offers <- Once, Procs <- Jobs, MaxEpoch <- 2, MaxLength <- 3,
  MaxLate <- 0

Long == INSTANCE ActivePublication WITH First <- {PlainPacket}, Subjects <- {s1}, MaxLate <- 0

publicationVars == <<chain, late, runs, receipts>>

\* Work store, "swaps": two writers; "edits": one that works longer on its copy.
Swaps == INSTANCE ActiveWorkStore WITH First <- {PlainPacket}, Offers <- Once, MaxLength <- 3

Edits == INSTANCE ActiveWorkStore WITH
  First <- {PlainPacket}, Offers <- Once, MaxLength <- 3, Writers <- {"w1"}, MaxEdits <- 2

-----------------------------------------------------------------------------
\* Recovery, "moments": one run while authority and branch move; "create": two runs
\* that create the branch of one successor.
Authority(mode, op, standing, subject) ==
  [mode |-> mode, op |-> op, standing |-> standing, subject |-> subject]

\* Work goes on, then the next operation may start; or it may not.
MCPublishable ==
  {Authority("CONTINUE_CURRENT", "o1", "PASSED", 1),
   Authority("START_SUCCESSOR", "o2", "PASSED", 1),
   Authority("START_SUCCESSOR", "o2", "PENDING", 2)}

Starting == Authority("START_SUCCESSOR", "o2", "PASSED", 1)

Moments == INSTANCE ChatRecovery WITH Recoveries <- {"r1"}, MaxPubs <- 2, MaxCommits <- 2

Create == INSTANCE ChatRecovery WITH Publishable <- {Starting}

-----------------------------------------------------------------------------
\* Sessions: owners of a workstream whose operation goes on from "op1" to its
\* successor, or is put under another authority, which allows less.
Dir == <<"src">>
PathA == <<"src", "a">>
PathB == <<"src", "b">>
BelowA == <<"src", "a", "x">>

MCCovered == {BelowA, PathB, <<"docs">>}

Wide(op) == [op |-> op, epoch |-> 1, paths |-> {}, trees |-> {Dir}, effects |-> {"mutate"}]
Narrow == [op |-> "op1", epoch |-> 2, paths |-> {PathA}, trees |-> {}, effects |-> {}]

By(session, owner, epoch, paths, effects) ==
  [session |-> session, owner |-> owner, op |-> "op1", epoch |-> epoch,
   paths |-> paths, effects |-> effects]

MCSessionClaims ==
  {By("s1", "core", 1, {Dir}, {}), By("s1", "core", 1, {PathB}, {"mutate"}),
   By("s1", "chat", 1, {PathA}, {}), By("s1", "core", 2, {PathA}, {}),
   By("s2", "chat", 1, {PathA}, {"mutate"}), By("s2", "chat", 2, {BelowA}, {}),
   By("s3", "tools", 1, {PathB}, {}), By("s3", "tools", 2, {PathA}, {})}

MCAuthorities == {Wide("op1"), Wide("op2"), Narrow}

MCFirstAuthority == Wide("op1")

-----------------------------------------------------------------------------
\* Audited pull requests, "writers": titles stay as they are; "retitled": they change.
VARIABLES titledPr, titledCheck

Retitled == INSTANCE SingleWriter WITH
  Paths <- Fenced, Governed <- {}, Retitling <- TRUE, pr <- titledPr, check <- titledCheck

titledVars == <<titledPr, titledCheck>>

-----------------------------------------------------------------------------
\* Mutations: one changes two files, the other one of them.  "timely": their leases
\* outlast them; "again": one mutation, and the register is tried twice; "expiring": leases
\* may run out, and the authority changes.
VARIABLES
  lapsedTarget, lapsedAuthority, lapsedRequests, lapsedLeases, lapsedEvents, lapsedJobs,
  lapsedClock

MCPathsOf == ("m1" :> {"f1", "f2"}) @@ ("m2" :> {"f2"})

MCScope == 0 :> {"f1", "f2"}

Again == INSTANCE ProductionMutation WITH Mutations <- {"m1"}, MaxAttempts <- 2

Expiring == INSTANCE ProductionMutation WITH
  Scope <- MCScope @@ (1 :> {"f2"}), Timely <- FALSE, TTL <- 1, MaxClock <- 1,
  target <- lapsedTarget, authority <- lapsedAuthority, requests <- lapsedRequests,
  leases <- lapsedLeases, events <- lapsedEvents, jobs <- lapsedJobs, clock <- lapsedClock

lapsedVars ==
  <<lapsedTarget, lapsedAuthority, lapsedRequests, lapsedLeases, lapsedEvents, lapsedJobs,
    lapsedClock>>

-----------------------------------------------------------------------------
\* Repair ledger: one transaction, three subjects, results that may come twice.
MCOpenings ==
  {"REPAIRABLE_SUBJECT", "RETRYABLE_INFRA", "CONTROL_PLANE_OWNER_ROUTE", "NON_AUTOMATABLE"}

MCOutcomes == {"PASS", "REPAIRABLE_SUBJECT", "RETRYABLE_INFRA", "CONTROL_PLANE_OWNER_ROUTE"}

-----------------------------------------------------------------------------
\* Ledger of the shift, "claims": a lane that claims work and does it; "late": one whose
\* leases run out; "circuits": one whose dependencies fail; "idle": one that runs out of work.
Claiming == INSTANCE ShiftLedger WITH
  Kinds <- {"SHIFT_OPEN", "CLAIMED", "RUNNING", "COMPLETED", "STALE"},
  Heads <- {"h1"}, LastTime <- 2, MaxEvents <- 5

Lagging == INSTANCE ShiftLedger WITH
  Kinds <- {"SHIFT_OPEN", "CLAIMED", "RUNNING", "COMPLETED", "STALE"},
  Heads <- {"h1"}, Keys <- {"k1"}, Leases <- {"l1"}, MaxEvents <- 4

Failing == INSTANCE ShiftLedger WITH
  Kinds <- {"SHIFT_OPEN", "RETRY", "CIRCUIT_OPEN", "CIRCUIT_HALF_OPEN", "CIRCUIT_CLOSED"},
  Heads <- {"h1"}, LastTime <- 1, MaxEvents <- 5

Idling == INSTANCE ShiftLedger WITH
  Kinds <- {"SHIFT_OPEN", "READY", "CLAIMED", "HEARTBEAT", "PROGRESS", "COMPLETED", "BLOCKED",
            "SUCCESSOR_BOUND", "ALL_RUNGS_EXHAUSTED", "IDLE_VALID", "SHIFT_CLOSE"},
  Keys <- {"k1"}, Leases <- {"l1"}, LastTime <- 1

-----------------------------------------------------------------------------
\* Runs are alike.
Symmetry == Permutations(Jobs)

VARIABLE part

WorkflowInit ==
  /\ part \in Parts
  /\ IF part = "race" THEN Racing!Init ELSE Init
  /\ IF part = "edits" THEN Edits!StoreInit ELSE StoreInit
  /\ WriterInit /\ Retitled!WriterInit
  /\ IF part = "again" THEN Again!MutationInit ELSE MutationInit
  /\ Expiring!MutationInit
  /\ RepairInit
  /\ RecoveryInit /\ (part = "moments" \/ pubs = <<Starting>>)
  /\ SessionInit
  /\ LedgerInit

Publishing ==
  /\ \/ part = "publication" /\ Publication!Next
     \/ part = "race" /\ Racing!Next
     \/ part = "long" /\ Long!Next
  /\ UNCHANGED <<part, workVars, recoveryVars, sessionVars,
                 writerVars, titledVars, mutationVars, lapsedVars, repairVars, ledgerVars>>

Swapping ==
  /\ \/ part = "swaps" /\ Swaps!StoreNext
     \/ part = "edits" /\ Edits!StoreNext
  /\ UNCHANGED <<part, publicationVars, recoveryVars, sessionVars,
                 writerVars, titledVars, mutationVars, lapsedVars, repairVars, ledgerVars>>

Recovering ==
  /\ \/ part = "moments" /\ Moments!RecoveryNext
     \/ part = "create" /\ Create!RecoveryNext
  /\ UNCHANGED <<part, publicationVars, workVars, sessionVars, writerVars, titledVars,
                 mutationVars, lapsedVars, repairVars, ledgerVars>>

Admitting ==
  /\ part = "sessions" /\ SessionNext
  /\ UNCHANGED <<part, publicationVars, workVars, recoveryVars, writerVars, titledVars,
                 mutationVars, lapsedVars, repairVars, ledgerVars>>

Auditing ==
  /\ \/ part = "writers" /\ WriterNext /\ UNCHANGED titledVars
     \/ part = "retitled" /\ Retitled!WriterNext /\ UNCHANGED writerVars
  /\ UNCHANGED <<part, publicationVars, workVars, recoveryVars, sessionVars,
                 mutationVars, lapsedVars, repairVars, ledgerVars>>

Mutating ==
  /\ \/ part = "timely" /\ MutationNext /\ UNCHANGED lapsedVars
     \/ part = "again" /\ Again!MutationNext /\ UNCHANGED lapsedVars
     \/ part = "expiring" /\ Expiring!MutationNext /\ UNCHANGED mutationVars
  /\ UNCHANGED <<part, publicationVars, workVars, recoveryVars, sessionVars,
                 writerVars, titledVars, repairVars, ledgerVars>>

Repairing ==
  /\ part = "repairs" /\ RepairNext
  /\ UNCHANGED <<part, publicationVars, workVars, recoveryVars, sessionVars,
                 writerVars, titledVars, mutationVars, lapsedVars, ledgerVars>>

Recording ==
  /\ \/ part = "claims" /\ Claiming!LedgerNext
     \/ part = "late" /\ Lagging!LedgerNext
     \/ part = "circuits" /\ Failing!LedgerNext
     \/ part = "idle" /\ Idling!LedgerNext
  /\ UNCHANGED <<part, publicationVars, workVars, recoveryVars, sessionVars,
                 writerVars, titledVars, mutationVars, lapsedVars, repairVars>>

WorkflowNext ==
  \/ Publishing \/ Swapping \/ Recovering \/ Admitting \/ Auditing \/ Mutating \/ Repairing \/ Recording

workflowVars ==
  <<part, publicationVars, workVars, recoveryVars, sessionVars, writerVars, titledVars,
    mutationVars, lapsedVars, repairVars, ledgerVars>>

WorkflowSpec == WorkflowInit /\ [][WorkflowNext]_workflowVars

-----------------------------------------------------------------------------
(* What is checked beside the properties of the modules above: those of    *)
(* other instances.                                                        *)

\* The two where time is against them: of pull requests whose titles change, no two that
\* may be merged change one protected file; of mutations whose leases run out, each is on
\* the branch once, their events are true and their leases whole.
SingleWhateverChanges ==
  /\ part = "retitled" => Retitled!OneWriter
  /\ part = "expiring" => Expiring!MutationsAreSingle
=============================================================================
