------------------------------ MODULE SingleWriter ------------------------------
(***************************************************************************)
(* The audit that keeps two open pull requests from writing the same thing *)
(* (auditPrSingleWriter of .github/scripts/system-file-lease-enforce.js,   *)
(* run by .github/workflows/system-file-lease-enforcement.yml).            *)
(*                                                                         *)
(* GitHub starts an audit when a pull request is opened, reopened or       *)
(* pushed to; it hands the audit the title and body of that moment.  The   *)
(* audit asks for the open pull requests, then for the files of each, one  *)
(* request after the other, while their authors go on.  A pull request is  *)
(* merged only with a verdict that is good for its present head.           *)
(***************************************************************************)
EXTENDS FiniteSets

CONSTANTS
  PullRequests,
  OperationIds,
  Paths,
  Governed,      \* GOVERNED
  Fenced,        \* OPERATION_ID_REQUIRED
  Retitling,     \* whether a title or body changes while the pull request is open
  NoOperation

ASSUME SingleWriterAssumption ==
  /\ Governed \subseteq Paths /\ Fenced \subseteq Paths
  /\ Retitling \in BOOLEAN
  /\ NoOperation \notin OperationIds

Claims == OperationIds \union {NoOperation}

VARIABLES
  pr,       \* each pull request: its state, the operation it names, the files it changes
  check     \* its audit: what it was handed, what it has read, and the verdict

writerVars == <<pr, check>>

Unaudited == [at |-> "NONE", op |-> NoOperation, files |-> {}, listed |-> <<>>, read |-> <<>>]

WriterInit ==
  /\ pr = [p \in PullRequests |-> [state |-> "ABSENT", op |-> NoOperation, files |-> {}]]
  /\ check = [p \in PullRequests |-> Unaudited]

Open == {p \in PullRequests : pr[p].state = "OPEN"}

\* An audit starts afresh, with the pull request as it is now.
Due(rec) == [Unaudited EXCEPT !.at = "DUE", !.op = rec.op, !.files = rec.files]

OpenPr(p) ==
  /\ pr[p].state = "ABSENT"
  /\ \E op \in Claims, files \in SUBSET Paths :
       LET rec == [state |-> "OPEN", op |-> op, files |-> files] IN
         /\ pr' = [pr EXCEPT ![p] = rec]
         /\ check' = [check EXCEPT ![p] = Due(rec)]

\* Faulty: a push leaves the verdict of the head before it.
FaultyPush(p) ==
  /\ p \in Open
  /\ \E files \in SUBSET Paths : pr' = [pr EXCEPT ![p].files = files]
  /\ UNCHANGED check

Push(p) ==
  /\ p \in Open
  /\ \E files \in SUBSET Paths :
       /\ pr' = [pr EXCEPT ![p].files = files]
       /\ check' = [check EXCEPT ![p] = Due([pr[p] EXCEPT !.files = files])]

\* A new title or body: GitHub does not start the workflow for it.
Retitle(p) ==
  /\ Retitling /\ p \in Open
  /\ \E op \in Claims \ {pr[p].op} : pr' = [pr EXCEPT ![p].op = op]
  /\ UNCHANGED check

Close(p) ==
  /\ p \in Open
  /\ pr' = [pr EXCEPT ![p].state = "CLOSED"]
  /\ UNCHANGED check

Reopen(p) ==
  /\ pr[p].state = "CLOSED"
  /\ pr' = [pr EXCEPT ![p].state = "OPEN"]
  /\ check' = [check EXCEPT ![p] = Due(pr[p])]

\* A run that is started again is handed what it was handed the first time.
Rerun(p) ==
  /\ p \in Open /\ check[p].at \in {"PASS", "FAIL"}
  /\ check' = [check EXCEPT ![p] = Due(check[p])]
  /\ UNCHANGED pr

Merge(p) ==
  /\ p \in Open /\ check[p].at = "PASS"
  /\ pr' = [pr EXCEPT ![p].state = "MERGED"]
  /\ UNCHANGED check

SingleWriterPath == Governed \union Fenced

\* listOpenPrs
ListOpen(p) ==
  /\ check[p].at = "DUE"
  /\ check' = [check EXCEPT ![p].at = "READING",
                            ![p].listed = [q \in Open \ {p} |-> pr[q].op]]
  /\ UNCHANGED pr

Unread(p) ==
  IF check[p].files \intersect SingleWriterPath = {} THEN {}
  ELSE DOMAIN check[p].listed \ DOMAIN check[p].read

\* listPrFiles, of one that is listed
ReadFiles(p) ==
  /\ check[p].at = "READING"
  /\ \E q \in Unread(p) :
       check' = [check EXCEPT ![p].read =
                   [r \in DOMAIN @ \union {q} |-> IF r = q THEN pr[q].files ELSE @[r]]]
  /\ UNCHANGED pr

\* buildPrViolations
Violations(c) ==
  \/ c.op = NoOperation /\ c.files \intersect Fenced # {}
  \/ c.op # NoOperation /\ \E q \in DOMAIN c.listed : c.listed[q] = c.op
  \/ \E q \in DOMAIN c.read : c.files \intersect c.read[q] \intersect SingleWriterPath # {}

Conclude(p) ==
  /\ check[p].at = "READING" /\ Unread(p) = {}
  /\ check' = [check EXCEPT ![p].at = IF Violations(check[p]) THEN "FAIL" ELSE "PASS",
                            ![p].listed = <<>>, ![p].read = <<>>]
  /\ UNCHANGED pr

\* A request to GitHub fails.
Unavailable(p) ==
  /\ check[p].at \in {"DUE", "READING"}
  /\ check' = [check EXCEPT ![p].at = "FAIL", ![p].listed = <<>>, ![p].read = <<>>]
  /\ UNCHANGED pr

Audit(p) == ListOpen(p) \/ ReadFiles(p) \/ Conclude(p) \/ Unavailable(p)

WriterNext ==
  \E p \in PullRequests :
    \/ OpenPr(p) \/ Push(p) \/ Retitle(p) \/ Close(p) \/ Reopen(p) \/ Rerun(p) \/ Merge(p)
    \/ Audit(p)

WriterSpec == WriterInit /\ [][WriterNext]_writerVars

-----------------------------------------------------------------------------
(* Properties                                                              *)

Admitted == {p \in Open : check[p].at = "PASS"}

WriterTypeOK ==
  /\ pr \in [PullRequests -> [state : {"ABSENT", "OPEN", "CLOSED", "MERGED"},
                              op : Claims, files : SUBSET Paths]]
  /\ DOMAIN check = PullRequests
  /\ \A p \in PullRequests :
       /\ check[p].at \in {"NONE", "DUE", "READING", "PASS", "FAIL"}
       /\ check[p].op \in Claims /\ check[p].files \subseteq Paths
       /\ DOMAIN check[p].listed \subseteq PullRequests \ {p}
       /\ DOMAIN check[p].read \subseteq DOMAIN check[p].listed

\* Whatever the order of their pushes and of the requests of their audits, no two pull
\* requests that may be merged change the same protected file.
PathHasOneWriter ==
  \A p, q \in Admitted :
    p # q => pr[p].files \intersect pr[q].files \intersect SingleWriterPath = {}

\* No two pull requests that may be merged name the same operation.
OperationHasOneWriter ==
  \A p, q \in Admitted : p # q /\ pr[p].op # NoOperation => pr[p].op # pr[q].op

\* Pull requests that may be merged share no protected file and, as long as titles stay
\* what they are, no operation.
OneWriter == PathHasOneWriter /\ (~Retitling => OperationHasOneWriter)
=============================================================================
