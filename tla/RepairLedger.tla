------------------------------ MODULE RepairLedger ------------------------------
(***************************************************************************)
(* The repair of what an A-01 run found wanting                            *)
(* (.github/scripts/a01-repair-ledger.js, a01-repair-broker.js,            *)
(* a01-closed-loop-repair.js, a01-repair-ledger-reconcile.js).  A failed   *)
(* receipt opens a transaction in the inbox of its owner; a worker hands   *)
(* in a changed subject, which is run again, and the result of the run is  *)
(* adjudicated into the same transaction, until it passes or its budget is *)
(* gone.  Each operation is one job of a workflow, one job at a time, that *)
(* commits its files together; an adjudication is committed only if the    *)
(* ledger reconciles after it.  The runs themselves are started by hand,   *)
(* as often as one likes, and end in any order; a job that is run again    *)
(* hands in the same result again.                                         *)
(*                                                                         *)
(* A subject is a commit.  An event is its type, the subject it speaks of, *)
(* and for a run what it was classified as.  Files are tickets and         *)
(* dispatch packets, each with the subject that it names.                  *)
(***************************************************************************)
EXTENDS Naturals, Sequences, FiniteSets

CONSTANTS
  Ids,          \* transactions
  RepairSubjects,
  Root,         \* the subject whose run failed first
  Openings,     \* classifications of first failures
  Outcomes,     \* classifications of the runs after it
  Budgets,      \* the budgets of attempts there are
  MaxRuns,      \* bound on the runs of a transaction that are there together
  Redelivered,  \* whether a result may be handed in more than once
  Nil           \* null

Classes ==
  {"PASS", "REPAIRABLE_SUBJECT", "RETRYABLE_INFRA", "CONTROL_PLANE_OWNER_ROUTE",
   "NON_AUTOMATABLE", "ADMISSION_ONLY", "DEPENDENCY_ONLY", "UNKNOWN"}

\* What a run is classified as that left no receipt: the infrastructure or the control
\* plane failed it, or it was not admitted, by the reason that it left.
Receiptless == {"RETRYABLE_INFRA", "CONTROL_PLANE_OWNER_ROUTE", "ADMISSION_ONLY"}

MaxSameShaRetries == 1

\* Where a failure leads that is not the subject's: the state, and who owns it then.
Waiting ==
  [CONTROL_PLANE_OWNER_ROUTE |-> <<"OWNER_ACTION_REQUIRED", "CORE">>,
   NON_AUTOMATABLE           |-> <<"OWNER_AUTHORITY_REQUIRED", "PRODUCT">>,
   ADMISSION_ONLY            |-> <<"REPLAN_ADMISSION", "SHARED">>,
   DEPENDENCY_ONLY           |-> <<"WAIT_FOR_PREDECESSOR", "PRODUCT">>]

\* What a transaction is: its candidate under way (cand), commit that was handed in (repl),
\* commit that failed last (base), attempts used up and retries of the candidate, and the
\* files that it names.
RepairCommits == RepairSubjects \union {Root}

Names == ({"REPLACEMENT", "DISPATCH"} \X Nat) \union ({"RETRY"} \X Nat \X Nat)

Transactions ==
  [place : {"ACTIVE", "HISTORY"},
   state : {"REPAIR_REQUEST_READY", "A01_REQUEUE_READY", "RETRY_REQUEST_READY", "CLOSED",
            "DEAD_LETTER", "OWNER_ACTION_REQUIRED", "OWNER_AUTHORITY_REQUIRED",
            "REPLAN_ADMISSION", "WAIT_FOR_PREDECESSOR"},
   owner : {"PRODUCT", "CORE", "SHARED"}, class : Classes,
   root : RepairCommits, base : RepairCommits \union {Nil}, repl : RepairCommits \union {Nil},
   attempt : Nat, cand : Nat, max : Nat, retries : Nat,
   ticket : Names \union {Nil}, retryTicket : Names \union {Nil}]

\* Receipts are classified, budgets are numbers, and null is no commit.
ASSUME RepairAssumption ==
  /\ Openings \subseteq Classes /\ Outcomes \subseteq Classes /\ Budgets \subseteq Nat
  /\ Nil \notin RepairCommits /\ Nil \notin Transactions

VARIABLES
  led,           \* the transaction of each id, in an inbox or its history
  repairEvents,  \* its events, in order
  repairFiles,   \* its files: their names, and the subject that each names
  reruns         \* runs under way, and results not yet handed in

repairVars == <<led, repairEvents, repairFiles, reruns>>

RepairInit ==
  /\ led = [id \in Ids |-> Nil]
  /\ repairEvents = [id \in Ids |-> << >>]
  /\ repairFiles = [id \in Ids |-> [name \in {} |-> Nil]]
  /\ reruns = {}

Active(t) == t # Nil /\ t.place = "ACTIVE"

Either(s, t) == IF s # Nil THEN s ELSE t

\* currentRepairSubject, currentRerunSubject
RepairBase(t) == Either(t.base, t.root)
Subject(t) == Either(t.repl, RepairBase(t))

\* The candidate under way, or the next one.
CandidateOf(t) == IF t.cand # 0 THEN t.cand ELSE t.attempt + 1

ReplacementName(t) == <<"REPLACEMENT", CandidateOf(t)>>
RetryName(t) == <<"RETRY", CandidateOf(t), t.retries>>
DispatchName(t) == <<"DISPATCH", t.attempt + 1>>

\* A file is written; one of that name is written over.
Written(own, name, s) ==
  [n \in DOMAIN own \union {name} |-> IF n = name THEN s ELSE own[n]]

\* openTransaction and planRepair, of a first failure
Opened(class, max) ==
  CASE class = "REPAIRABLE_SUBJECT" /\ max > 0 -> <<"REPAIR_REQUEST_READY", "PRODUCT">>
    [] class = "RETRYABLE_INFRA" /\ max > 0 -> <<"RETRY_REQUEST_READY", "SHARED">>
    [] class \in DOMAIN Waiting -> Waiting[class]
    [] OTHER -> <<"DEAD_LETTER", "SHARED">>

Event(type, subject, class) == [type |-> type, subject |-> subject, class |-> class]

-----------------------------------------------------------------------------
(* What the ledger is held against                                         *)

Happened(log, type) == \E i \in DOMAIN log : log[i].type = type

FileNames(name, subject, own) == name \in DOMAIN own /\ own[name] = subject

\* a01-repair-ledger-reconcile.js, for one transaction with its events and its files.
Reconciles(t, log, own) ==
  t # Nil =>
    /\ Happened(log, "OPENED")
    /\ Active(t) /\ t.state = "REPAIR_REQUEST_READY" /\ t.class = "REPAIRABLE_SUBJECT" =>
         DispatchName(t) \in DOMAIN own /\ Happened(log, "DISPATCH_READY")
    /\ Active(t) /\ t.state = "A01_REQUEUE_READY" =>
         /\ FileNames(t.ticket, t.repl, own)
         /\ Happened(log, "PREQUALIFIED") /\ Happened(log, "REPLACEMENT_TICKET")
    /\ Active(t) /\ t.state = "RETRY_REQUEST_READY" =>
         FileNames(t.retryTicket, Subject(t), own) /\ Happened(log, "RETRY_TICKET")
    /\ ~Active(t) => Happened(log, "CLOSED") \/ Happened(log, "DEAD_LETTERED")
    /\ ~Active(t) /\ t.state = "CLOSED" => Happened(log, "RERUN")

-----------------------------------------------------------------------------
(* The operations                                                          *)

\* ingest; an envelope of an id that is there already changes nothing.
Ingest(id, class, max) ==
  LET opened == Opened(class, max)
      t == [place |-> IF opened[1] = "DEAD_LETTER" THEN "HISTORY" ELSE "ACTIVE",
            state |-> opened[1], owner |-> opened[2], class |-> class, root |-> Root,
            base |-> Nil, repl |-> Nil, attempt |-> 0, cand |-> 0, max |-> max,
            retries |-> 0, ticket |-> Nil, retryTicket |-> Nil]
  IN
  /\ led[id] = Nil
  /\ led' = [led EXCEPT ![id] =
               IF opened[1] = "RETRY_REQUEST_READY"
               THEN [t EXCEPT !.retryTicket = RetryName(t)] ELSE t]
  /\ repairEvents' = [repairEvents EXCEPT ![id] =
       <<Event("OPENED", Root, class)>> \o
       CASE opened[1] = "REPAIR_REQUEST_READY" -> <<Event("DISPATCH_READY", Root, class)>>
         [] opened[1] = "RETRY_REQUEST_READY" -> <<Event("RETRY_TICKET", Root, class)>>
         [] OTHER -> << >>]
  /\ repairFiles' = [repairFiles EXCEPT ![id] =
       CASE opened[1] = "REPAIR_REQUEST_READY" -> Written(@, DispatchName(t), Root)
         [] opened[1] = "RETRY_REQUEST_READY" -> Written(@, RetryName(t), Root)
         [] OTHER -> @]
  /\ UNCHANGED reruns

\* What the worker hands in: another commit than the one that failed last, from the
\* owner of the product, within the budget.
Finalizable(t, s) ==
  /\ Active(t) /\ t.state = "REPAIR_REQUEST_READY" /\ t.class = "REPAIRABLE_SUBJECT"
  /\ t.owner = "PRODUCT"
  /\ t.attempt < t.max
  /\ s # RepairBase(t)

Finalize(id, s) ==
  LET t == [led[id] EXCEPT !.state = "A01_REQUEUE_READY", !.base = RepairBase(led[id]),
                           !.repl = s, !.cand = led[id].attempt + 1, !.retries = 0,
                           !.retryTicket = Nil]
  IN
  /\ Finalizable(led[id], s)
  /\ led' = [led EXCEPT ![id] = [t EXCEPT !.ticket = ReplacementName(t)]]
  /\ repairEvents' = [repairEvents EXCEPT ![id] = @ \o
       <<Event("PREQUALIFIED", s, t.class), Event("REPLACEMENT_TICKET", s, t.class)>>]
  /\ repairFiles' = [repairFiles EXCEPT ![id] = Written(@, ReplacementName(t), s)]
  /\ UNCHANGED reruns

Rerunnable(t) == Active(t) /\ t.state \in {"A01_REQUEUE_READY", "RETRY_REQUEST_READY"}

Ticket(t) == IF t.state = "RETRY_REQUEST_READY" THEN t.retryTicket ELSE t.ticket

\* prepareRerun, and a run of the subject that the ticket names
PrepareRerun(id, n) ==
  /\ Rerunnable(led[id])
  /\ FileNames(Ticket(led[id]), Subject(led[id]), repairFiles[id])
  /\ \A m \in 1 .. n : (m = n) # (\E r \in reruns : r.id = id /\ r.n = m)
  /\ reruns' = reruns \union
       {[id |-> id, n |-> n, subject |-> Subject(led[id]), class |-> Nil, receipt |-> FALSE]}
  /\ UNCHANGED <<led, repairEvents, repairFiles>>

\* A run ends, with a receipt that names its subject or without one.
Complete(r, class, receipt) ==
  /\ r \in reruns /\ r.class = Nil
  /\ receipt \/ class \in Receiptless
  /\ reruns' = (reruns \ {r}) \union {[r EXCEPT !.class = class, !.receipt = receipt]}
  /\ UNCHANGED <<led, repairEvents, repairFiles>>

\* Faulty: the attempt is not counted when the subject fails again.
FaultyConsumed(t) == t.attempt

\* The attempt that a failure of the subject uses up.
Consumed(t) == IF t.attempt > CandidateOf(t) THEN t.attempt ELSE CandidateOf(t)

RetriesSpent(retries) == retries > MaxSameShaRetries

Archived(t, state) == [t EXCEPT !.place = "HISTORY", !.state = state]

\* The subject itself failed: back to repair, or out of budget.
SubjectFailed(t) ==
  LET u == [t EXCEPT !.attempt = Consumed(t), !.base = Subject(t), !.repl = Nil,
                     !.cand = 0, !.retries = 0, !.ticket = Nil, !.retryTicket = Nil,
                     !.class = "REPAIRABLE_SUBJECT"]
  IN IF u.attempt >= u.max THEN Archived(u, "DEAD_LETTER")
     ELSE [u EXCEPT !.state = "REPAIR_REQUEST_READY"]

InfraFailed(t) ==
  LET u == [t EXCEPT !.retries = @ + 1, !.class = "RETRYABLE_INFRA"]
  IN IF RetriesSpent(u.retries) THEN Archived(u, "DEAD_LETTER")
     ELSE [u EXCEPT !.state = "RETRY_REQUEST_READY", !.retryTicket = RetryName(u)]

\* The state after a result; the owner stays whoever it was.
After(t, class) ==
  CASE class = "PASS" -> [Archived(t, "CLOSED") EXCEPT !.class = class]
    [] class = "REPAIRABLE_SUBJECT" -> SubjectFailed(t)
    [] class = "RETRYABLE_INFRA" -> InfraFailed(t)
    [] class \in DOMAIN Waiting -> [t EXCEPT !.state = Waiting[class][1], !.class = class]
    [] OTHER -> [Archived(t, "DEAD_LETTER") EXCEPT !.class = "UNKNOWN"]

\* A receipt must be of the subject that is asked for.  Where there is none nothing says
\* which subject was run: the result counts for the one that is asked for.
Adjudicable(t, r) == Rerunnable(t) /\ (r.receipt => r.subject = Subject(t))

\* adjudicateRerun, reconciliation and commit
Adjudicate(r) ==
  LET t == led[r.id]
      u == After(t, r.class)
      asked == Subject(t)
      log == repairEvents[r.id] \o
        <<Event("RERUN", IF r.receipt THEN r.subject ELSE asked, r.class)>> \o
        CASE u.state = "CLOSED" -> <<Event("CLOSED", asked, r.class)>>
          [] u.state = "DEAD_LETTER" -> <<Event("DEAD_LETTERED", asked, r.class)>>
          [] u.state = "REPAIR_REQUEST_READY" -> <<Event("DISPATCH_READY", asked, r.class)>>
          [] u.state = "RETRY_REQUEST_READY" -> <<Event("RETRY_TICKET", asked, r.class)>>
          [] OTHER -> << >>
      own ==
        CASE u.state = "REPAIR_REQUEST_READY" -> Written(repairFiles[r.id], DispatchName(u), asked)
          [] u.state = "RETRY_REQUEST_READY" -> Written(repairFiles[r.id], RetryName(u), asked)
          [] OTHER -> repairFiles[r.id]
  IN
  /\ r \in reruns /\ r.class # Nil /\ Adjudicable(t, r)
  /\ Reconciles(u, log, own)
  /\ \A id \in Ids \ {r.id} : Reconciles(led[id], repairEvents[id], repairFiles[id])
  /\ led' = [led EXCEPT ![r.id] = u]
  /\ repairEvents' = [repairEvents EXCEPT ![r.id] = log]
  /\ repairFiles' = [repairFiles EXCEPT ![r.id] = own]
  /\ reruns' = IF Redelivered THEN reruns ELSE reruns \ {r}

RepairNext ==
  \/ \E id \in Ids :
       \/ \E class \in Openings, max \in Budgets : Ingest(id, class, max)
       \/ \E s \in RepairSubjects : Finalize(id, s)
       \/ \E n \in 1 .. MaxRuns : PrepareRerun(id, n)
  \/ \E r \in reruns :
       \/ Adjudicate(r)
       \/ \E class \in Outcomes, receipt \in BOOLEAN : Complete(r, class, receipt)

RepairSpec == RepairInit /\ [][RepairNext]_repairVars

-----------------------------------------------------------------------------
(* Properties                                                              *)

\* The numbers of events of a type in a log.
EventsOf(log, type) == {i \in DOMAIN log : log[i].type = type}

\* What is closed passed as it was handed in last: the run that closed it is of the
\* subject of the last ticket, and no later ticket was given out.
ClosedWorkPassed ==
  \A id \in Ids :
    led[id] # Nil /\ led[id].state = "CLOSED" =>
      \E i \in EventsOf(repairEvents[id], "RERUN") :
        /\ repairEvents[id][i].class = "PASS"
        /\ \A j \in EventsOf(repairEvents[id], "REPLACEMENT_TICKET") :
             (\A k \in EventsOf(repairEvents[id], "REPLACEMENT_TICKET") : k <= j) =>
               j < i /\ repairEvents[id][j].subject = repairEvents[id][i].subject

\* However runs overlap, no more candidates are taken than there is budget for.
BudgetIsKept ==
  \A id \in Ids :
    led[id] # Nil => Cardinality(EventsOf(repairEvents[id], "PREQUALIFIED")) <= led[id].max

\* A candidate is run again on account of the infrastructure once at most: also where what
\* failed was a run of an earlier one, which left no receipt that would tell.
CandidatesRetryOnce ==
  \A id \in Ids : \A i \in EventsOf(repairEvents[id], "PREQUALIFIED") :
    Cardinality({j \in EventsOf(repairEvents[id], "RETRY_TICKET") :
                   i < j /\ ~\E k \in EventsOf(repairEvents[id], "PREQUALIFIED") : i < k /\ k < j}) <= 1

\* The auditor finds nothing wrong with any state of the ledger.
LedgerReconciles == \A id \in Ids : Reconciles(led[id], repairEvents[id], repairFiles[id])

\* What a file names stays.
FilesAreAppendOnly ==
  [][\A id \in Ids : \A name \in DOMAIN repairFiles[id] : FileNames(name, repairFiles[id][name], repairFiles'[id])]_repairVars

\* Repair ledger: what is closed passed as it was handed in last; however runs overlap, no
\* more candidates are taken than there is budget for, and each is run again on account of
\* the infrastructure once at most, whichever runs the failures without a receipt were of;
\* the auditor finds nothing wrong; what a file names stays.
RepairsAreBounded ==
  /\ [](ClosedWorkPassed /\ BudgetIsKept /\ CandidatesRetryOnce /\ LedgerReconciles)
  /\ FilesAreAppendOnly

=============================================================================
