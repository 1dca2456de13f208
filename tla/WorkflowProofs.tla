---------------------------- MODULE WorkflowProofs ----------------------------
(***************************************************************************)
(* Theorems about what GitHub's workflows run, a part for each module: the *)
(* audit of pull requests for any number of them, the dispatch of runs for *)
(* any number of callers, the qualification run for any registry, the      *)
(* repair ledger for any transactions, budgets and results, and the        *)
(* validators of the shift's ledger for any events.                        *)
(***************************************************************************)
EXTENDS SingleWriter, WorkflowDispatch, QualificationRun, RepairLedger, ShiftLedger,
        SequenceTheorems, FiniteSetTheorems, TLAPS

-----------------------------------------------------------------------------
(* Audit. Every change of a pull request's files starts its audit afresh,  *)
(* so that of two open ones that change the same protected file one is     *)
(* always Caught: its audit has failed, has not listed yet, or has listed  *)
(* the other one and, if it has read it, has seen the file.                *)

Partial(S) == UNION {[D -> S] : D \in SUBSET PullRequests}

PrRecord == [state : {"ABSENT", "OPEN", "CLOSED", "MERGED"}, op : Claims, files : SUBSET Paths]

AuditRecord ==
  [at : {"NONE", "DUE", "READING", "PASS", "FAIL"}, op : Claims, files : SUBSET Paths,
   listed : Partial(Claims), read : Partial(SUBSET Paths)]

TypeInv ==
  /\ pr \in [PullRequests -> PrRecord]
  /\ check \in [PullRequests -> AuditRecord]

\* An audit looks at the files that its pull request has now.
Current ==
  \A p \in PullRequests :
    IF pr[p].state = "ABSENT" THEN check[p].at = "NONE"
    ELSE check[p].at # "NONE" /\ check[p].files = pr[p].files

\* What an audit reads, it has listed, and it does not list its own pull request.
ReadsListed ==
  \A p \in PullRequests :
    /\ DOMAIN check[p].listed \subseteq PullRequests \ {p}
    /\ DOMAIN check[p].read \subseteq DOMAIN check[p].listed
    /\ check[p].at # "READING" => DOMAIN check[p].listed = {}

Overlap(p, q) == pr[p].files \intersect pr[q].files \intersect SingleWriterPath # {}

\* The audit of p will not pass because of q.
Caught(p, q) ==
  \/ check[p].at \in {"DUE", "FAIL"}
  \/ /\ check[p].at = "READING" /\ q \in DOMAIN check[p].listed
     /\ q \in DOMAIN check[p].read =>
          check[p].files \intersect check[p].read[q] \intersect SingleWriterPath # {}

OneIsCaught ==
  \A p, q \in Open : p # q /\ Overlap(p, q) => Caught(p, q) \/ Caught(q, p)

Inv == TypeInv /\ Current /\ ReadsListed /\ OneIsCaught

-----------------------------------------------------------------------------

LEMMA EmptyPartial ==
  ASSUME NEW S
  PROVE  << >> \in Partial(S) /\ DOMAIN << >> = {}
<1>1. << >> \in [{} -> S] /\ DOMAIN << >> = {}
  OBVIOUS
<1> QED
  BY <1>1 DEF Partial

LEMMA DueType ==
  ASSUME NEW op \in Claims, NEW files \in SUBSET Paths, NEW rec, rec.op = op, rec.files = files
  PROVE  /\ Due(rec) \in AuditRecord
         /\ Due(rec).at = "DUE" /\ Due(rec).files = files /\ Due(rec).op = op
         /\ DOMAIN Due(rec).listed = {} /\ DOMAIN Due(rec).read = {}
<1>1. NoOperation \in Claims
  BY DEF Claims
<1>2. << >> \in Partial(Claims) /\ << >> \in Partial(SUBSET Paths) /\ DOMAIN << >> = {}
  BY EmptyPartial
<1> QED
  BY <1>1, <1>2 DEF Due, Unaudited, AuditRecord

LEMMA InitInv == WriterInit => Inv
<1> SUFFICES ASSUME WriterInit PROVE Inv
  OBVIOUS
<1>1. NoOperation \in Claims
  BY DEF Claims
<1>2. << >> \in Partial(Claims) /\ << >> \in Partial(SUBSET Paths) /\ DOMAIN << >> = {}
  BY EmptyPartial
<1>3. Unaudited \in AuditRecord
  BY <1>1, <1>2 DEF Unaudited, AuditRecord
<1>4. TypeInv
  BY <1>1, <1>3 DEF WriterInit, TypeInv, PrRecord
<1>5. Current
  BY DEF WriterInit, Current, Unaudited
<1>6. ReadsListed
  BY <1>2 DEF WriterInit, ReadsListed, Unaudited
<1>7. OneIsCaught
  BY DEF WriterInit, OneIsCaught, Open
<1> QED
  BY <1>4, <1>5, <1>6, <1>7 DEF Inv

\* A pull request that is opened, reopened, pushed to or looked at again is due.
LEMMA DueStep ==
  ASSUME Inv, NEW p \in PullRequests, NEW rec \in PrRecord, NEW was,
         rec.state = "OPEN", was.op \in Claims, was.files = rec.files,
         pr' = [pr EXCEPT ![p] = rec], check' = [check EXCEPT ![p] = Due(was)]
  PROVE  Inv'
<1> USE DEF Inv
<1>1. /\ Due(was) \in AuditRecord /\ Due(was).at = "DUE" /\ Due(was).files = rec.files
      /\ DOMAIN Due(was).listed = {} /\ DOMAIN Due(was).read = {}
  BY DueType DEF PrRecord
<1>2. TypeInv'
  BY <1>1 DEF TypeInv
<1>3. \A q \in PullRequests : /\ q # p => pr'[q] = pr[q] /\ check'[q] = check[q]
                              /\ q = p => pr'[q] = rec /\ check'[q] = Due(was)
  BY DEF TypeInv
<1>4. Current'
  BY <1>1, <1>3 DEF Current
<1>5. ReadsListed'
  BY <1>1, <1>3 DEF ReadsListed
<1>6. OneIsCaught'
  <2> SUFFICES ASSUME NEW a \in Open', NEW b \in Open', a # b, Overlap(a, b)'
               PROVE  Caught(a, b)' \/ Caught(b, a)'
    BY DEF OneIsCaught
  <2>1. a \in PullRequests /\ b \in PullRequests
    BY DEF Open
  <2>2. CASE a = p \/ b = p
    BY <1>1, <1>3, <2>1, <2>2 DEF Caught
  <2>3. CASE a # p /\ b # p
    <3>1. /\ pr'[a] = pr[a] /\ check'[a] = check[a]
          /\ pr'[b] = pr[b] /\ check'[b] = check[b]
      BY <1>3, <2>1, <2>3
    <3>2. a \in Open /\ b \in Open /\ Overlap(a, b)
      BY <2>1, <3>1 DEF Open, Overlap
    <3>3. Caught(a, b) \/ Caught(b, a)
      BY <3>2 DEF OneIsCaught
    <3> QED
      BY <3>1, <3>3 DEF Caught
  <2> QED
    BY <2>2, <2>3
<1> QED
  BY <1>2, <1>4, <1>5, <1>6

\* A pull request that is closed, merged or retitled keeps its files and its verdict.
LEMMA QuietStep ==
  ASSUME Inv, NEW p \in PullRequests, NEW rec \in PrRecord,
         rec.state # "ABSENT", rec.state = "OPEN" => pr[p].state = "OPEN",
         pr[p].state # "ABSENT", rec.files = pr[p].files,
         pr' = [pr EXCEPT ![p] = rec], check' = check
  PROVE  Inv'
<1> USE DEF Inv
<1>1. TypeInv'
  BY DEF TypeInv
<1>2. \A q \in PullRequests : /\ q # p => pr'[q] = pr[q]
                              /\ q = p => pr'[q] = rec
  BY DEF TypeInv
<1>3. Current'
  BY <1>2 DEF Current
<1>4. ReadsListed'
  BY DEF ReadsListed
<1>5. \A q \in PullRequests : pr'[q].files = pr[q].files /\ (q \in Open' => q \in Open)
  BY <1>2 DEF Open
<1>6. OneIsCaught'
  <2> SUFFICES ASSUME NEW a \in Open', NEW b \in Open', a # b, Overlap(a, b)'
               PROVE  Caught(a, b)' \/ Caught(b, a)'
    BY DEF OneIsCaught
  <2>1. a \in PullRequests /\ b \in PullRequests
    BY DEF Open
  <2>2. a \in Open /\ b \in Open /\ Overlap(a, b)
    BY <1>5, <2>1 DEF Overlap
  <2> QED
    BY <2>2 DEF OneIsCaught, Caught
<1> QED
  BY <1>1, <1>3, <1>4, <1>6

\* A step of an audit that stays caught by whatever caught it.
LEMMA AuditStep ==
  ASSUME Inv, NEW p \in PullRequests, NEW c \in AuditRecord,
         pr' = pr, check' = [check EXCEPT ![p] = c],
         check[p].at # "NONE", c.at # "NONE", c.files = check[p].files,
         DOMAIN c.listed \subseteq PullRequests \ {p}, DOMAIN c.read \subseteq DOMAIN c.listed,
         c.at # "READING" => DOMAIN c.listed = {},
         ASSUME NEW q \in Open, p \in Open, q # p, Overlap(p, q), Caught(p, q)
         PROVE  Caught(p, q)'
  PROVE  Inv'
<1> USE DEF Inv
<1>1. TypeInv'
  BY DEF TypeInv
<1>2. \A q \in PullRequests : /\ q # p => check'[q] = check[q]
                              /\ q = p => check'[q] = c
  BY DEF TypeInv
<1>3. Current'
  BY <1>2 DEF Current
<1>4. ReadsListed'
  BY <1>2 DEF ReadsListed
<1>5. OneIsCaught'
  <2>1. \A a, b \in Open : a # b /\ Overlap(a, b) /\ Caught(a, b) => Caught(a, b)'
    <3> SUFFICES ASSUME NEW a \in Open, NEW b \in Open, a # b, Overlap(a, b), Caught(a, b)
                 PROVE  Caught(a, b)'
      OBVIOUS
    <3>1. CASE a = p
      BY <3>1
    <3>2. CASE a # p
      <4>1. check'[a] = check[a]
        BY <1>2, <3>2 DEF Open
      <4> QED
        BY <4>1 DEF Caught
    <3> QED
      BY <3>1, <3>2
  <2>2. \A a, b \in Open : Overlap(a, b) => Overlap(b, a)
    BY DEF Overlap
  <2>3. Open' = Open /\ \A a, b : Overlap(a, b)' <=> Overlap(a, b)
    BY DEF Open, Overlap
  <2> QED
    BY <2>1, <2>2, <2>3 DEF OneIsCaught
<1> QED
  BY <1>1, <1>3, <1>4, <1>5

-----------------------------------------------------------------------------

LEMMA RecordTypes ==
  ASSUME Inv, NEW p \in PullRequests
  PROVE  pr[p] \in PrRecord /\ check[p] \in AuditRecord
  BY DEF Inv, TypeInv

LEMMA DueSteps ==
  ASSUME Inv, NEW p \in PullRequests, OpenPr(p) \/ Push(p) \/ Reopen(p) \/ Rerun(p)
  PROVE  Inv'
<1>1. pr[p] \in PrRecord /\ check[p] \in AuditRecord
  BY RecordTypes
<1>2. pr \in [PullRequests -> PrRecord] /\ check \in [PullRequests -> AuditRecord]
  BY DEF Inv, TypeInv
<1>3. ASSUME OpenPr(p) PROVE Inv'
  <2>1. PICK op \in Claims, files \in SUBSET Paths :
          LET rec == [state |-> "OPEN", op |-> op, files |-> files] IN
            pr' = [pr EXCEPT ![p] = rec] /\ check' = [check EXCEPT ![p] = Due(rec)]
    BY <1>3 DEF OpenPr
  <2> DEFINE rec == [state |-> "OPEN", op |-> op, files |-> files]
  <2>2. rec \in PrRecord /\ rec.state = "OPEN" /\ rec.op \in Claims
    BY DEF PrRecord
  <2> QED
    BY <2>1, <2>2, DueStep
<1>4. ASSUME Push(p) PROVE Inv'
  <2>1. PICK files \in SUBSET Paths :
          /\ pr' = [pr EXCEPT ![p].files = files]
          /\ check' = [check EXCEPT ![p] = Due([pr[p] EXCEPT !.files = files])]
    BY <1>4 DEF Push
  <2> DEFINE rec == [pr[p] EXCEPT !.files = files]
  <2>2. pr[p].state = "OPEN"
    BY <1>4 DEF Push, Open
  <2>3. rec \in PrRecord /\ rec.state = "OPEN" /\ rec.op \in Claims
    BY <1>1, <2>2 DEF PrRecord
  <2>4. pr' = [pr EXCEPT ![p] = rec]
    BY <2>1
  <2> QED
    BY <2>1, <2>3, <2>4, DueStep
<1>5. ASSUME Reopen(p) PROVE Inv'
  <2> DEFINE rec == [pr[p] EXCEPT !.state = "OPEN"]
  <2>1. rec \in PrRecord /\ rec.state = "OPEN" /\ pr[p].op \in Claims /\ rec.files = pr[p].files
    BY <1>1 DEF PrRecord
  <2>2. pr' = [pr EXCEPT ![p] = rec] /\ check' = [check EXCEPT ![p] = Due(pr[p])]
    BY <1>5 DEF Reopen
  <2> QED
    BY <2>1, <2>2, DueStep
<1>6. ASSUME Rerun(p) PROVE Inv'
  <2>1. pr[p].state = "OPEN" /\ check[p].op \in Claims /\ check[p].files = pr[p].files
    BY <1>1, <1>6 DEF Rerun, Open, Inv, Current, AuditRecord
  <2>2. pr' = [pr EXCEPT ![p] = pr[p]] /\ check' = [check EXCEPT ![p] = Due(check[p])]
    BY <1>2, <1>6 DEF Rerun
  <2> QED
    BY <1>1, <2>1, <2>2, DueStep
<1> QED
  BY <1>3, <1>4, <1>5, <1>6

LEMMA QuietSteps ==
  ASSUME Inv, NEW p \in PullRequests, Close(p) \/ Merge(p) \/ Retitle(p)
  PROVE  Inv'
<1>1. pr[p] \in PrRecord
  BY RecordTypes
<1>2. pr[p].state = "OPEN" /\ check' = check
  BY DEF Close, Merge, Retitle, Open
<1>3. ASSUME NEW state \in {"CLOSED", "MERGED"}, pr' = [pr EXCEPT ![p].state = state]
      PROVE  Inv'
  <2> DEFINE rec == [pr[p] EXCEPT !.state = state]
  <2>1. rec \in PrRecord /\ rec.state = state /\ rec.files = pr[p].files
    BY <1>1 DEF PrRecord
  <2>2. pr' = [pr EXCEPT ![p] = rec]
    BY <1>3
  <2> QED
    BY <1>2, <2>1, <2>2, QuietStep
<1>4. ASSUME NEW op \in Claims, pr' = [pr EXCEPT ![p].op = op]
      PROVE  Inv'
  <2> DEFINE rec == [pr[p] EXCEPT !.op = op]
  <2>1. rec \in PrRecord /\ rec.state = "OPEN" /\ rec.files = pr[p].files
    BY <1>1, <1>2 DEF PrRecord
  <2>2. pr' = [pr EXCEPT ![p] = rec]
    BY <1>4
  <2> QED
    BY <1>2, <2>1, <2>2, QuietStep
<1> QED
  BY <1>3, <1>4 DEF Close, Merge, Retitle

LEMMA ListOpenStep ==
  ASSUME Inv, NEW p \in PullRequests, ListOpen(p)
  PROVE  Inv'
<1> DEFINE listed == [q \in Open \ {p} |-> pr[q].op]
           c == [check[p] EXCEPT !.at = "READING", !.listed = listed]
<1>1. pr[p] \in PrRecord /\ check[p] \in AuditRecord
  BY RecordTypes
<1>2. Open \ {p} \subseteq PullRequests \ {p} /\ \A q \in Open : pr[q].op \in Claims
  BY RecordTypes DEF Open, PrRecord
<1>3. listed \in [Open \ {p} -> Claims] /\ DOMAIN listed = Open \ {p}
  BY <1>2
<1>4. listed \in Partial(Claims)
  BY <1>2, <1>3 DEF Partial
<1>5. /\ c \in AuditRecord /\ c.at = "READING" /\ c.listed = listed
      /\ c.read = check[p].read /\ c.files = check[p].files
  BY <1>1, <1>4 DEF AuditRecord
<1>6. pr' = pr /\ check' = [check EXCEPT ![p] = c] /\ check[p].at = "DUE"
  BY DEF ListOpen
<1>7. DOMAIN c.read = {}
  BY <1>5, <1>6 DEF Inv, ReadsListed
<1>8. check'[p] = c
  BY <1>6 DEF Inv, TypeInv
<1>9. ASSUME NEW q \in Open, q # p PROVE Caught(p, q)'
  BY <1>3, <1>5, <1>7, <1>8, <1>9 DEF Caught
<1> QED
  BY <1>2, <1>3, <1>5, <1>6, <1>7, <1>9, AuditStep

LEMMA ReadFilesStep ==
  ASSUME Inv, NEW p \in PullRequests, ReadFiles(p)
  PROVE  Inv'
<1>1. PICK q \in Unread(p) :
        check' = [check EXCEPT ![p].read =
                    [r \in DOMAIN @ \union {q} |-> IF r = q THEN pr[q].files ELSE @[r]]]
  BY DEF ReadFiles
<1> DEFINE old == check[p].read
           read == [r \in DOMAIN old \union {q} |-> IF r = q THEN pr[q].files ELSE old[r]]
           c == [check[p] EXCEPT !.read = read]
<1>2. check[p] \in AuditRecord
  BY RecordTypes
<1>3. q \in DOMAIN check[p].listed /\ q \in PullRequests
  BY <1>1 DEF Unread, Inv, ReadsListed
<1>4. old \in Partial(SUBSET Paths) /\ DOMAIN old \subseteq PullRequests
  BY <1>2 DEF AuditRecord, Inv, ReadsListed
<1>5. \A r \in DOMAIN old : old[r] \in SUBSET Paths
  BY <1>4 DEF Partial
<1>6. pr[q].files \in SUBSET Paths
  BY <1>3, RecordTypes DEF PrRecord
<1>7. read \in [DOMAIN old \union {q} -> SUBSET Paths] /\ DOMAIN read = DOMAIN old \union {q}
  BY <1>5, <1>6
<1>8. read \in Partial(SUBSET Paths)
  <2>1. DOMAIN old \union {q} \in SUBSET PullRequests
    BY <1>3, <1>4
  <2> HIDE DEF read
  <2> QED
    BY <1>7, <2>1 DEF Partial
<1>9. /\ c \in AuditRecord /\ c.at = check[p].at /\ c.listed = check[p].listed
      /\ c.read = read /\ c.files = check[p].files
  BY <1>2, <1>8 DEF AuditRecord
<1>10. pr' = pr /\ check' = [check EXCEPT ![p] = c] /\ check[p].at = "READING"
  BY <1>1 DEF ReadFiles
<1>11. check'[p] = c
  BY <1>10 DEF Inv, TypeInv
<1>12. DOMAIN c.read \subseteq DOMAIN c.listed /\ DOMAIN c.listed \subseteq PullRequests \ {p}
  BY <1>3, <1>7, <1>9 DEF Inv, ReadsListed
<1>13. ASSUME NEW b \in Open, p \in Open, b # p, Overlap(p, b), Caught(p, b)
       PROVE  Caught(p, b)'
  <2>1. b \in DOMAIN c.listed
    BY <1>9, <1>10, <1>13 DEF Caught
  <2>2. c.files = pr[p].files
    BY <1>9, <1>13 DEF Inv, Current, Open
  <2>3. ASSUME b \in DOMAIN read
        PROVE  c.files \intersect read[b] \intersect SingleWriterPath # {}
    <3>1. CASE b = q
      BY <1>13, <2>2, <3>1 DEF Overlap
    <3>2. CASE b # q
      <4>1. b \in DOMAIN old /\ read[b] = old[b]
        BY <1>7, <2>3, <3>2
      <4> QED
        BY <1>9, <1>10, <1>13, <4>1 DEF Caught
    <3> QED
      BY <3>1, <3>2
  <2> QED
    BY <1>9, <1>10, <1>11, <2>1, <2>3 DEF Caught
<1> QED
  BY <1>9, <1>10, <1>12, <1>13, AuditStep

LEMMA ConcludeStep ==
  ASSUME Inv, NEW p \in PullRequests, Conclude(p) \/ Unavailable(p)
  PROVE  Inv'
<1>1. PICK at \in {"PASS", "FAIL"} :
        /\ check' = [check EXCEPT ![p].at = at, ![p].listed = << >>, ![p].read = << >>]
        /\ at = "PASS" => check[p].at = "READING" /\ Unread(p) = {} /\ ~Violations(check[p])
  BY DEF Conclude, Unavailable
<1> DEFINE c == [check[p] EXCEPT !.at = at, !.listed = << >>, !.read = << >>]
<1>2. check[p] \in AuditRecord
  BY RecordTypes
<1>3. << >> \in Partial(Claims) /\ << >> \in Partial(SUBSET Paths) /\ DOMAIN << >> = {}
  BY EmptyPartial
<1>4. /\ c \in AuditRecord /\ c.at = at /\ c.listed = << >> /\ c.read = << >>
      /\ c.files = check[p].files
  BY <1>2, <1>3 DEF AuditRecord
<1>5. pr' = pr /\ check' = [check EXCEPT ![p] = c] /\ check[p].at \in {"DUE", "READING"}
  BY <1>1 DEF Conclude, Unavailable
<1>6. check'[p] = c
  BY <1>5 DEF Inv, TypeInv
<1>7. ASSUME NEW b \in Open, p \in Open, b # p, Overlap(p, b), Caught(p, b)
      PROVE  Caught(p, b)'
  <2>1. CASE at = "FAIL"
    BY <1>4, <1>6, <2>1 DEF Caught
  <2>2. CASE at = "PASS"
    <3>1. b \in DOMAIN check[p].listed
      BY <1>1, <1>7, <2>2 DEF Caught
    <3>2. check[p].files \intersect SingleWriterPath # {}
      BY <1>7 DEF Overlap, Inv, Current, Open
    <3>3. b \in DOMAIN check[p].read
      BY <1>1, <2>2, <3>1, <3>2 DEF Unread
    <3>4. Violations(check[p])
      BY <1>1, <1>7, <2>2, <3>3 DEF Caught, Violations
    <3> QED
      BY <1>1, <2>2, <3>4
  <2> QED
    BY <2>1, <2>2
<1> QED
  BY <1>3, <1>4, <1>5, <1>7, AuditStep

LEMMA NextInv == Inv /\ [WriterNext]_writerVars => Inv'
<1> SUFFICES ASSUME Inv, [WriterNext]_writerVars PROVE Inv'
  OBVIOUS
<1>1. CASE UNCHANGED writerVars
  BY <1>1 DEF writerVars, Inv, TypeInv, Current, ReadsListed, OneIsCaught, Open, Overlap, Caught
<1>2. ASSUME NEW p \in PullRequests,
             \/ OpenPr(p) \/ Push(p) \/ Retitle(p) \/ Close(p) \/ Reopen(p)
             \/ Rerun(p) \/ Merge(p) \/ Audit(p)
      PROVE  Inv'
  BY <1>2, DueSteps, QuietSteps, ListOpenStep, ReadFilesStep, ConcludeStep DEF Audit
<1> QED
  BY <1>1, <1>2 DEF WriterNext

\* The files of a pull request with a verdict that is good are nobody else's.
LEMMA InvImplies == Inv => WriterTypeOK /\ PathHasOneWriter
<1> SUFFICES ASSUME Inv PROVE WriterTypeOK /\ PathHasOneWriter
  OBVIOUS
<1>1. WriterTypeOK
  BY DEF Inv, TypeInv, ReadsListed, WriterTypeOK, PrRecord, AuditRecord
<1>2. PathHasOneWriter
  BY DEF Inv, OneIsCaught, Caught, PathHasOneWriter, Admitted, Overlap
<1> QED
  BY <1>1, <1>2

-----------------------------------------------------------------------------

\* Of two open pull requests that change the same protected file one is always caught.
THEOREM Invariance == WriterSpec => []Inv
<1> QED
  BY InitInv, NextInv, PTL DEF WriterSpec

\* Pull requests and audits stay what their records allow.
THEOREM TypeCorrect == WriterSpec => []WriterTypeOK
<1>1. Inv => WriterTypeOK
  BY InvImplies
<1> QED
  BY <1>1, Invariance, PTL

\* However many pull requests are open, and whatever the order of their pushes and of
\* the requests of their audits, no two that may be merged change the same protected file.
THEOREM OneWriterPerPath == WriterSpec => []PathHasOneWriter
<1>1. Inv => PathHasOneWriter
  BY InvImplies
<1> QED
  BY <1>1, Invariance, PTL

-----------------------------------------------------------------------------
(* The operation that is named, while no title changes                     *)

SameOp(p, q) == pr[p].op # NoOperation /\ pr[p].op = pr[q].op

OpCaught(p, q) ==
  \/ check[p].at \in {"DUE", "FAIL"}
  \/ /\ check[p].at = "READING" /\ q \in DOMAIN check[p].listed
     /\ check[p].listed[q] = check[p].op

OpInv ==
  /\ \A p \in PullRequests : pr[p].state # "ABSENT" => check[p].op = pr[p].op
  /\ \A p, q \in Open : p # q /\ SameOp(p, q) => OpCaught(p, q) \/ OpCaught(q, p)

\* A step of p that leaves it due, or in which what caught it goes on catching it.
LEMMA OpStep ==
  ASSUME OpInv, NEW p \in PullRequests,
         \A q \in PullRequests \ {p} : pr'[q] = pr[q] /\ check'[q] = check[q],
         check'[p].op = pr'[p].op,
         \/ check'[p].at = "DUE"
         \/ /\ pr'[p].op = pr[p].op
            /\ pr'[p].state = "OPEN" => pr[p].state = "OPEN"
            /\ \A q \in Open : p \in Open /\ q # p /\ SameOp(p, q) /\ OpCaught(p, q) => OpCaught(p, q)'
  PROVE  OpInv'
<1>1. \A q \in PullRequests : pr'[q].state # "ABSENT" => check'[q].op = pr'[q].op
  BY DEF OpInv
<1>2. ASSUME NEW a \in Open', NEW b \in Open', a # b, SameOp(a, b)'
      PROVE  OpCaught(a, b)' \/ OpCaught(b, a)'
  <2>1. a \in PullRequests /\ b \in PullRequests
    BY DEF Open
  <2>2. CASE check'[p].at = "DUE" /\ (a = p \/ b = p)
    BY <2>2 DEF OpCaught
  <2>3. CASE check'[p].at # "DUE" \/ (a # p /\ b # p)
    <3>1. a \in Open /\ b \in Open /\ SameOp(a, b)
      BY <1>2, <2>1, <2>3 DEF Open, SameOp
    <3>2. SameOp(b, a)
      BY <3>1 DEF SameOp
    <3>3. ASSUME NEW c \in Open, NEW d \in Open, c # d, SameOp(c, d), OpCaught(c, d),
                 check'[p].at # "DUE" \/ c # p
          PROVE  OpCaught(c, d)'
      <4>1. CASE c = p
        BY <3>3, <4>1
      <4>2. CASE c # p
        <5>1. check'[c] = check[c]
          BY <4>2 DEF Open
        <5> QED
          BY <3>3, <5>1 DEF OpCaught
      <4> QED
        BY <4>1, <4>2
    <3>4. OpCaught(a, b) \/ OpCaught(b, a)
      BY <1>2, <3>1 DEF OpInv
    <3> QED
      BY <1>2, <2>3, <3>1, <3>2, <3>3, <3>4
  <2> QED
    BY <2>2, <2>3
<1> QED
  BY <1>1, <1>2 DEF OpInv

LEMMA DueFields ==
  ASSUME NEW rec
  PROVE  Due(rec).op = rec.op /\ Due(rec).at = "DUE"
  BY DEF Due, Unaudited

LEMMA OpDueSteps ==
  ASSUME Inv, OpInv, NEW p \in PullRequests, OpenPr(p) \/ Push(p) \/ Reopen(p) \/ Rerun(p)
  PROVE  OpInv'
<1>1. pr[p] \in PrRecord /\ check[p] \in AuditRecord
  BY RecordTypes
<1>2. pr \in [PullRequests -> PrRecord] /\ check \in [PullRequests -> AuditRecord]
  BY DEF Inv, TypeInv
<1>3. \A q \in PullRequests \ {p} : pr'[q] = pr[q] /\ check'[q] = check[q]
  BY <1>2 DEF OpenPr, Push, Reopen, Rerun
<1>4. check'[p].op = pr'[p].op /\ check'[p].at = "DUE"
  <2>1. CASE OpenPr(p)
    <3>1. PICK op \in Claims, files \in SUBSET Paths :
            LET rec == [state |-> "OPEN", op |-> op, files |-> files] IN
              pr' = [pr EXCEPT ![p] = rec] /\ check' = [check EXCEPT ![p] = Due(rec)]
      BY <2>1 DEF OpenPr
    <3> DEFINE rec == [state |-> "OPEN", op |-> op, files |-> files]
    <3>2. pr'[p] = rec /\ check'[p] = Due(rec)
      BY <1>2, <3>1
    <3> HIDE DEF rec
    <3> QED
      BY <3>2, DueFields
  <2>2. CASE Push(p)
    <3>1. PICK files \in SUBSET Paths :
            /\ pr' = [pr EXCEPT ![p].files = files]
            /\ check' = [check EXCEPT ![p] = Due([pr[p] EXCEPT !.files = files])]
      BY <2>2 DEF Push
    <3> DEFINE rec == [pr[p] EXCEPT !.files = files]
    <3>2. pr'[p] = rec /\ check'[p] = Due(rec)
      BY <1>2, <3>1
    <3> HIDE DEF rec
    <3> QED
      BY <3>2, DueFields
  <2>3. CASE Reopen(p)
    BY <1>1, <1>2, <2>3 DEF Reopen, Due, Unaudited, PrRecord
  <2>4. CASE Rerun(p)
    <3>1. check[p].op = pr[p].op
      BY <2>4 DEF Rerun, Open, OpInv
    <3> QED
      BY <1>2, <2>4, <3>1 DEF Rerun, Due, Unaudited
  <2> QED
    BY <2>1, <2>2, <2>3, <2>4
<1> QED
  BY <1>3, <1>4, OpStep

LEMMA OpQuietSteps ==
  ASSUME Inv, OpInv, NEW p \in PullRequests, Close(p) \/ Merge(p)
  PROVE  OpInv'
<1>1. pr \in [PullRequests -> PrRecord] /\ pr[p] \in PrRecord
  BY RecordTypes DEF Inv, TypeInv
<1>2. check' = check /\ pr[p].state = "OPEN"
  BY DEF Close, Merge, Open
<1>3. \A q \in PullRequests \ {p} : pr'[q] = pr[q]
  BY <1>1 DEF Close, Merge
<1>4. pr'[p].op = pr[p].op /\ check'[p].op = pr'[p].op
  BY <1>1, <1>2 DEF Close, Merge, OpInv, PrRecord
<1>5. \A q : OpCaught(p, q)' <=> OpCaught(p, q)
  BY <1>2 DEF OpCaught
<1> QED
  BY <1>2, <1>3, <1>4, <1>5, OpStep

LEMMA OpAuditSteps ==
  ASSUME Inv, OpInv, NEW p \in PullRequests, Audit(p)
  PROVE  OpInv'
<1>1. check \in [PullRequests -> AuditRecord] /\ check[p] \in AuditRecord
  BY RecordTypes DEF Inv, TypeInv
<1>2. pr' = pr /\ \A q \in PullRequests \ {p} : check'[q] = check[q]
  BY <1>1 DEF Audit, ListOpen, ReadFiles, Conclude, Unavailable
<1>3. check'[p].op = check[p].op /\ check[p].at \in {"DUE", "READING"}
  <2>1. CASE ListOpen(p)
    BY <1>1, <2>1 DEF ListOpen, AuditRecord
  <2>2. CASE ReadFiles(p)
    BY <1>1, <2>2 DEF ReadFiles, AuditRecord
  <2>3. CASE Conclude(p) \/ Unavailable(p)
    BY <1>1, <2>3 DEF Conclude, Unavailable, AuditRecord
  <2> QED
    BY <2>1, <2>2, <2>3 DEF Audit
<1>4. check'[p].op = pr'[p].op
  BY <1>2, <1>3 DEF OpInv, Inv, Current
<1>5. ASSUME NEW q \in Open, p \in Open, q # p, SameOp(p, q), OpCaught(p, q)
      PROVE  OpCaught(p, q)'
  <2>1. check[p].op = pr[p].op
    BY <1>2, <1>3, <1>4
  <2>2. CASE ListOpen(p)
    <3> DEFINE listed == [r \in Open \ {p} |-> pr[r].op]
    <3>1. check'[p].at = "READING" /\ check'[p].listed = listed
      BY <1>1, <2>2 DEF ListOpen, AuditRecord
    <3>2. q \in DOMAIN listed /\ listed[q] = pr[q].op
      BY <1>5
    <3> QED
      BY <1>3, <1>5, <2>1, <3>1, <3>2 DEF OpCaught, SameOp
  <2>3. CASE ReadFiles(p)
    <3>1. check'[p].at = check[p].at /\ check'[p].listed = check[p].listed
      BY <1>1, <2>3 DEF ReadFiles, AuditRecord
    <3> QED
      BY <1>3, <1>5, <3>1 DEF OpCaught
  <2>4. CASE Conclude(p)
    <3>1. check[p].at = "READING" /\ check'[p].at = IF Violations(check[p]) THEN "FAIL" ELSE "PASS"
      BY <1>1, <2>4 DEF Conclude, AuditRecord
    <3>2. Violations(check[p])
      BY <1>5, <2>1, <3>1 DEF Violations, OpCaught, SameOp
    <3> QED
      BY <3>1, <3>2 DEF OpCaught
  <2>5. CASE Unavailable(p)
    BY <1>1, <2>5 DEF Unavailable, OpCaught, AuditRecord
  <2> QED
    BY <2>2, <2>3, <2>4, <2>5 DEF Audit
<1> QED
  BY <1>2, <1>4, <1>5, OpStep

LEMMA OpNext ==
  ASSUME ~Retitling
  PROVE  Inv /\ OpInv /\ [WriterNext]_writerVars => OpInv'
<1> SUFFICES ASSUME Inv, OpInv, [WriterNext]_writerVars PROVE OpInv'
  OBVIOUS
<1>1. CASE UNCHANGED writerVars
  BY <1>1 DEF writerVars, OpInv, Open, SameOp, OpCaught
<1>2. ASSUME NEW p \in PullRequests,
             \/ OpenPr(p) \/ Push(p) \/ Retitle(p) \/ Close(p) \/ Reopen(p)
             \/ Rerun(p) \/ Merge(p) \/ Audit(p)
      PROVE  OpInv'
  BY <1>2, OpDueSteps, OpQuietSteps, OpAuditSteps DEF Retitle
<1> QED
  BY <1>1, <1>2 DEF WriterNext

\* While no title changes, no two pull requests that may be merged name the same operation.
THEOREM OneWriterPerOperation == ~Retitling => (WriterSpec => []OperationHasOneWriter)
<1> SUFFICES ASSUME ~Retitling PROVE WriterSpec => []OperationHasOneWriter
  OBVIOUS
<1>1. WriterInit => OpInv
  BY DEF WriterInit, OpInv, Open
<1>2. Inv /\ OpInv /\ [WriterNext]_writerVars => OpInv'
  BY OpNext
<1>3. OpInv => OperationHasOneWriter
  BY DEF OpInv, OperationHasOneWriter, Admitted, SameOp, OpCaught
<1> QED
  BY <1>1, <1>2, <1>3, Invariance, PTL DEF WriterSpec

\* What may be merged has one writer, of every protected file and, with titles as they
\* are, of every operation.
THEOREM WritersAreSingle == WriterSpec => []OneWriter
<1>1. CASE Retitling
  BY <1>1, OneWriterPerPath, PTL DEF OneWriter
<1>2. CASE ~Retitling
  BY <1>2, OneWriterPerPath, OneWriterPerOperation, PTL DEF OneWriter
<1> QED
  BY <1>1, <1>2

-----------------------------------------------------------------------------
(* Dispatch: the invariant                                                 *)

MadeRun == [by : Callers, born : Nat, listed : BOOLEAN]

DispatchCalls ==
  [at : {"IDLE", "NOTED", "POLLING", "NETWORK_AMBIGUOUS", "NOT_ATTRIBUTABLE",
         "CORRELATION_AMBIGUOUS", "ATTRIBUTED"},
   prior : SUBSET Nat, since : Nat, polls : Nat, run : Nat \union {NoRun}]

DispatchTypeOK ==
  /\ apart \in BOOLEAN
  /\ clock \in Nat
  /\ made \in Seq(MadeRun)
  /\ call \in [Callers -> DispatchCalls]

\* Of callers that keep apart one is under way, and what was made since its note is its own.
OneAtATime ==
  apart =>
    /\ \A c, d \in Callers : Under(c) /\ Under(d) => c = d
    /\ \A c \in Callers : Under(c) => \A r \in DOMAIN made \ call[c].prior : made[r].by = c
    /\ \A c \in Callers : call[c].at = "ATTRIBUTED" => call[c].run \in DOMAIN made /\ made[call[c].run].by = c

DispatchInv == DispatchTypeOK /\ OneAtATime

LEMMA DispatchInitInv == DispatchInit => DispatchInv
<1> SUFFICES ASSUME DispatchInit PROVE DispatchInv
  OBVIOUS
<1>1. NoDispatch \in DispatchCalls /\ NoDispatch.at = "IDLE"
  BY DEF NoDispatch, DispatchCalls
<1>2. << >> \in Seq(MadeRun)
  OBVIOUS
<1>3. DispatchTypeOK /\ \A c \in Callers : call[c].at = "IDLE"
  BY <1>1, <1>2 DEF DispatchInit, DispatchTypeOK
<1> QED
  BY <1>3 DEF DispatchInv, OneAtATime, Under

-----------------------------------------------------------------------------
(* Dispatch: its steps                                                     *)

LEMMA NoteInv ==
  ASSUME DispatchInv, NEW c \in Callers, Note(c)
  PROVE  DispatchInv'
<1>1. PICK e : e = [NoDispatch EXCEPT !.at = "NOTED", !.prior = Listed, !.since = clock]
  OBVIOUS
<1>2. /\ call' = [call EXCEPT ![c] = e] /\ UNCHANGED <<apart, clock, made>> /\ clock \in Nat
      /\ made \in Seq(MadeRun) /\ call \in [Callers -> DispatchCalls]
      /\ apart => Alone(c)
  BY <1>1 DEF Note, DispatchInv, DispatchTypeOK
<1>3. Listed \subseteq Nat
  BY <1>2 DEF Listed
<1>4. e \in DispatchCalls /\ e.at = "NOTED" /\ e.prior = Listed
  BY <1>1, <1>2, <1>3 DEF NoDispatch, DispatchCalls
<1>5. /\ call' \in [Callers -> DispatchCalls] /\ call'[c] = e
      /\ \A d \in Callers \ {c} : call'[d] = call[d]
  BY <1>2, <1>4
<1>6. DispatchTypeOK'
  BY <1>2, <1>5 DEF DispatchInv, DispatchTypeOK
<1>7. ASSUME apart PROVE OneAtATime'
  <2>1. e.prior = DOMAIN made /\ \A d \in Callers \ {c} : ~Under(d)
    BY <1>2, <1>4, <1>7 DEF Alone
  <2>2. \A d \in Callers : Under(d)' => d = c
    BY <1>5, <2>1 DEF Under
  <2>3. \A d \in Callers : Under(d)' => \A r \in DOMAIN made' \ call'[d].prior : made'[r].by = d
    BY <1>2, <1>5, <2>1, <2>2
  <2>4. \A d \in Callers : call'[d].at = "ATTRIBUTED" => call'[d].run \in DOMAIN made' /\ made'[call'[d].run].by = d
    BY <1>2, <1>4, <1>5, <1>7 DEF DispatchInv, OneAtATime
  <2> QED
    BY <2>2, <2>3, <2>4 DEF OneAtATime
<1> QED
  BY <1>2, <1>6, <1>7 DEF DispatchInv, OneAtATime

\* A call goes on with what it has noted.
LEMMA GoesOnInv ==
  ASSUME DispatchInv, NEW c \in Callers, NEW e \in DispatchCalls, Under(c),
         e.prior = call[c].prior, call' = [call EXCEPT ![c] = e], UNCHANGED <<apart, clock, made>>,
         e.at = "ATTRIBUTED" => e.run \in DOMAIN made \ call[c].prior
  PROVE  DispatchInv'
<1>1. /\ call' \in [Callers -> DispatchCalls] /\ call'[c] = e
      /\ \A d \in Callers \ {c} : call'[d] = call[d]
  BY DEF DispatchInv, DispatchTypeOK
<1>2. DispatchTypeOK'
  BY <1>1 DEF DispatchInv, DispatchTypeOK
<1>3. ASSUME apart PROVE OneAtATime'
  <2>1. \A d \in Callers : Under(d)' => Under(d)
    BY <1>1 DEF Under
  <2>2. \A d \in Callers : call'[d].prior = call[d].prior
    BY <1>1
  <2>3. \A d \in Callers : call'[d].at = "ATTRIBUTED" => call'[d].run \in DOMAIN made' /\ made'[call'[d].run].by = d
    BY <1>1, <1>3 DEF DispatchInv, OneAtATime
  <2> QED
    BY <1>3, <2>1, <2>2, <2>3 DEF DispatchInv, OneAtATime
<1> QED
  BY <1>2, <1>3 DEF DispatchInv, OneAtATime

LEMMA PollInv ==
  ASSUME DispatchInv, NEW c \in Callers, Poll(c) \/ Lose(c)
  PROVE  DispatchInv'
<1>1. PICK x \in DispatchCalls : x = call[c]
  BY DEF DispatchInv, DispatchTypeOK
<1>2. Under(c) /\ UNCHANGED <<apart, clock, made>>
  BY DEF Poll, Lose, Under
<1>3. call \in [Callers -> DispatchCalls] /\ made \in Seq(MadeRun)
  BY DEF DispatchInv, DispatchTypeOK
<1>4. ASSUME NEW at \in {"NETWORK_AMBIGUOUS", "CORRELATION_AMBIGUOUS"}, call' = [call EXCEPT ![c].at = at]
      PROVE  DispatchInv'
  <2>1. PICK e : e = [x EXCEPT !.at = at]
    OBVIOUS
  <2>2. call' = [call EXCEPT ![c] = e]
    BY <1>1, <1>4, <2>1
  <2>3. e \in DispatchCalls /\ e.at = at /\ e.prior = x.prior
    BY <2>1 DEF DispatchCalls
  <2> QED
    BY <1>1, <1>2, <2>2, <2>3, GoesOnInv
<1>5. ASSUME NEW r \in DOMAIN made, Candidates(c) = {r},
             call' = [call EXCEPT ![c].at = "ATTRIBUTED", ![c].run = r]
      PROVE  DispatchInv'
  <2>1. PICK e : e = [x EXCEPT !.at = "ATTRIBUTED", !.run = r]
    OBVIOUS
  <2>2. call' = [call EXCEPT ![c] = e]
    BY <1>1, <1>3, <1>5, <2>1
  <2>3. r \in Nat
    BY <1>3
  <2>4. e \in DispatchCalls /\ e.at = "ATTRIBUTED" /\ e.prior = x.prior /\ e.run = r
    BY <2>1, <2>3 DEF DispatchCalls
  <2>5. r \notin call[c].prior
    BY <1>5 DEF Candidates
  <2> QED
    BY <1>1, <1>2, <2>2, <2>4, <2>5, GoesOnInv
<1>6. ASSUME Poll(c), call' = [call EXCEPT ![c] = EmptyRound(c)]
      PROVE  DispatchInv'
  <2>1. PICK e : e = EmptyRound(c)
    OBVIOUS
  <2>2. e = [x EXCEPT !.polls = x.polls + 1,
                      !.at = IF x.polls + 1 < PollAttempts THEN x.at ELSE "NOT_ATTRIBUTABLE"]
    BY <1>1, <2>1 DEF EmptyRound
  <2>3. x.at = "POLLING" /\ x.polls + 1 \in Nat
    BY <1>1, <1>6 DEF Poll, DispatchCalls
  <2>4. PICK at \in {"POLLING", "NOT_ATTRIBUTABLE"}, n \in Nat : e = [x EXCEPT !.polls = n, !.at = at]
    BY <2>2, <2>3
  <2>5. e \in DispatchCalls /\ e.at = at /\ e.prior = x.prior
    BY <2>4 DEF DispatchCalls
  <2>6. call' = [call EXCEPT ![c] = e]
    BY <1>6, <2>1
  <2> QED
    BY <1>1, <1>2, <2>5, <2>6, GoesOnInv
<1> QED
  BY <1>4, <1>5, <1>6 DEF Poll, Lose

LEMMA DispatchStepInv ==
  ASSUME DispatchInv, NEW c \in Callers, DispatchWorkflow(c)
  PROVE  DispatchInv'
<1>1. PICK x \in DispatchCalls : x = call[c]
  BY DEF DispatchInv, DispatchTypeOK
<1>2. /\ x.at = "NOTED" /\ UNCHANGED <<apart, clock>> /\ clock \in Nat /\ made \in Seq(MadeRun)
      /\ call \in [Callers -> DispatchCalls]
  BY <1>1 DEF DispatchWorkflow, DispatchInv, DispatchTypeOK
<1>3. PICK at \in {"POLLING", "NETWORK_AMBIGUOUS"} : call' = [call EXCEPT ![c].at = at]
  BY DEF DispatchWorkflow
<1>4. PICK e, m : e = [x EXCEPT !.at = at] /\ m = [by |-> c, born |-> clock, listed |-> FALSE]
  OBVIOUS
<1>5. call' = [call EXCEPT ![c] = e] /\ made' = Append(made, m)
  BY <1>1, <1>3, <1>4 DEF DispatchWorkflow
<1>6. m \in MadeRun /\ m.by = c
  BY <1>2, <1>4 DEF MadeRun
<1>7. e \in DispatchCalls /\ e.at = at /\ e.prior = x.prior
  BY <1>4 DEF DispatchCalls
<1>8. /\ call' \in [Callers -> DispatchCalls] /\ call'[c] = e
      /\ \A d \in Callers \ {c} : call'[d] = call[d]
  BY <1>2, <1>5, <1>7
<1>9. /\ made' \in Seq(MadeRun) /\ DOMAIN made \subseteq DOMAIN made'
      /\ \A r \in DOMAIN made : made'[r] = made[r]
      /\ \A r \in DOMAIN made' \ DOMAIN made : made'[r].by = c
  <2>1. /\ made' \in Seq(MadeRun) /\ Len(made') = Len(made) + 1 /\ made'[Len(made) + 1] = m
        /\ \A r \in 1 .. Len(made) : made'[r] = made[r]
    BY <1>2, <1>5, <1>6, AppendProperties
  <2>2. DOMAIN made = 1 .. Len(made) /\ DOMAIN made' = 1 .. Len(made) + 1 /\ Len(made) \in Nat
    BY <1>2, <2>1
  <2> QED
    BY <1>6, <2>1, <2>2
<1>10. DispatchTypeOK'
  BY <1>2, <1>8, <1>9 DEF DispatchInv, DispatchTypeOK
<1>11. ASSUME apart PROVE OneAtATime'
  <2>1. Under(c) /\ \A d \in Callers \ {c} : ~Under(d)
    BY <1>1, <1>2, <1>11 DEF DispatchInv, OneAtATime, Under
  <2>2. \A r \in DOMAIN made \ x.prior : made[r].by = c
    BY <1>1, <1>11, <2>1 DEF DispatchInv, OneAtATime
  <2>3. \A d \in Callers : Under(d)' => d = c
    BY <1>8, <2>1 DEF Under
  <2>4. \A r \in DOMAIN made' \ e.prior : made'[r].by = c
    BY <1>7, <1>9, <2>2
  <2>5. ASSUME NEW d \in Callers, call'[d].at = "ATTRIBUTED"
        PROVE  call'[d].run \in DOMAIN made' /\ made'[call'[d].run].by = d
    <3>1. d # c /\ call'[d] = call[d]
      BY <1>7, <1>8, <2>5
    <3>2. call[d].run \in DOMAIN made /\ made[call[d].run].by = d
      BY <1>11, <2>5, <3>1 DEF DispatchInv, OneAtATime
    <3> QED
      BY <1>9, <3>1, <3>2
  <2> QED
    BY <1>8, <2>3, <2>4, <2>5 DEF OneAtATime
<1> QED
  BY <1>2, <1>10, <1>11 DEF DispatchInv, OneAtATime

LEMMA ListInv ==
  ASSUME DispatchInv, NEW r \in DOMAIN made, List(r)
  PROVE  DispatchInv'
<1>1. /\ made \in Seq(MadeRun) /\ UNCHANGED <<apart, clock, call>>
      /\ made' = [made EXCEPT ![r].listed = TRUE]
  BY DEF List, DispatchInv, DispatchTypeOK
<1>2. PICK x \in MadeRun : x = made[r]
  BY <1>1
<1>3. PICK y : y = [x EXCEPT !.listed = TRUE]
  OBVIOUS
<1>4. y \in MadeRun /\ y.by = x.by
  BY <1>3 DEF MadeRun
<1>5. made' = [made EXCEPT ![r] = y]
  BY <1>1, <1>2, <1>3
<1>6. made' \in Seq(MadeRun) /\ DOMAIN made' = DOMAIN made
  <2>1. made \in [1 .. Len(made) -> MadeRun] /\ Len(made) \in Nat
    BY <1>1
  <2>2. made' \in [1 .. Len(made) -> MadeRun]
    BY <1>4, <1>5, <2>1
  <2> QED
    BY <2>1, <2>2, SeqDef
<1>7. \A q \in DOMAIN made : made'[q].by = made[q].by
  BY <1>2, <1>4, <1>5
<1>8. OneAtATime'
  BY <1>1, <1>6, <1>7 DEF DispatchInv, OneAtATime, Under
<1> QED
  BY <1>1, <1>6, <1>8 DEF DispatchInv, DispatchTypeOK

LEMMA DispatchNextInv == DispatchInv /\ [DispatchNext]_dispatchVars => DispatchInv'
<1>1. ASSUME DispatchInv, ClockTicks \/ UNCHANGED dispatchVars PROVE DispatchInv'
  BY <1>1 DEF ClockTicks, dispatchVars, DispatchInv, DispatchTypeOK, OneAtATime, Under
<1> QED
  BY <1>1, NoteInv, PollInv, DispatchStepInv, ListInv DEF DispatchNext

-----------------------------------------------------------------------------
(* Dispatch: the theorem                                                   *)

\* Nobody is told a run when another one made since the call is listed.
NotGuessed ==
  \A c \in Callers :
    call[c].at = "POLLING" /\ call'[c].at = "ATTRIBUTED" =>
      ~\E r \in Listed \ {call'[c].run} :
         r \notin call[c].prior /\ made[r].born >= call[c].since

LEMMA StepsGuessNothing ==
  ASSUME DispatchInv, [DispatchNext]_dispatchVars
  PROVE  NotGuessed
<1> SUFFICES ASSUME NEW c \in Callers, call[c].at = "POLLING", call'[c].at = "ATTRIBUTED",
                    NEW r \in Listed, r # call'[c].run, r \notin call[c].prior, made[r].born >= call[c].since
             PROVE  FALSE
  BY DEF NotGuessed
<1>1. PICK x \in DispatchCalls : x = call[c]
  BY DEF DispatchInv, DispatchTypeOK
<1>2. call \in [Callers -> DispatchCalls] /\ x.since \in Nat /\ made[r].born \in Nat
  <2>1. made[r] \in MadeRun
    BY DEF DispatchInv, DispatchTypeOK, Listed
  <2> QED
    BY <2>1 DEF DispatchInv, DispatchTypeOK, MadeRun, DispatchCalls
<1>3. r \in Candidates(c)
  BY <1>1, <1>2, DispatchAssumption DEF Candidates
<1>4. ASSUME NEW d \in Callers, d # c, Note(d) \/ Lose(d) \/ Poll(d) \/ DispatchWorkflow(d)
      PROVE  call'[c] = call[c]
  BY <1>2, <1>4 DEF Note, Lose, Poll, DispatchWorkflow
<1>5. CASE Poll(c)
  <2>1. CASE call' = [call EXCEPT ![c] = EmptyRound(c)]
    <3>1. PICK at \in {x.at, "NOT_ATTRIBUTABLE"} : call'[c] = [x EXCEPT !.polls = x.polls + 1, !.at = at]
      BY <1>1, <1>2, <2>1 DEF EmptyRound
    <3>2. call'[c].at = at
      BY <3>1 DEF DispatchCalls
    <3> QED
      BY <1>1, <3>2
  <2>2. CASE call' = [call EXCEPT ![c].at = "CORRELATION_AMBIGUOUS"]
    <3>1. call'[c] = [x EXCEPT !.at = "CORRELATION_AMBIGUOUS"]
      BY <1>1, <1>2, <2>2
    <3>2. call'[c].at = "CORRELATION_AMBIGUOUS"
      BY <3>1 DEF DispatchCalls
    <3> QED
      BY <3>2
  <2>3. ASSUME NEW q \in DOMAIN made, Candidates(c) = {q},
               call' = [call EXCEPT ![c].at = "ATTRIBUTED", ![c].run = q]
        PROVE  FALSE
    <3>1. call'[c] = [x EXCEPT !.at = "ATTRIBUTED", !.run = q]
      BY <1>1, <1>2, <2>3
    <3>2. call'[c].run = q
      BY <3>1 DEF DispatchCalls
    <3> QED
      BY <1>3, <2>3, <3>2
  <2> QED
    BY <1>5, <2>1, <2>2, <2>3 DEF Poll
<1>6. CASE call' = call
  BY <1>6
<1>7. CASE Note(c) \/ DispatchWorkflow(c)
  BY <1>7 DEF Note, Under, DispatchWorkflow
<1>8. CASE Lose(c)
  <2>1. call'[c] = [x EXCEPT !.at = "NETWORK_AMBIGUOUS"]
    BY <1>1, <1>2, <1>8 DEF Lose
  <2>2. call'[c].at = "NETWORK_AMBIGUOUS"
    BY <2>1 DEF DispatchCalls
  <2> QED
    BY <2>2
<1> QED
  BY <1>4, <1>5, <1>6, <1>7, <1>8 DEF DispatchNext, List, ClockTicks, dispatchVars

\* For every number of callers and of runs: callers that keep apart are told their own run,
\* and nobody is told a run when another one made since the call is listed.
THEOREM DispatchAttributionsAreOwn == DispatchSpec => AttributionsAreOwn
<1>1. DispatchInv => (apart => RunsAreOwn)
  BY DEF DispatchInv, OneAtATime, RunsAreOwn
<1>2. DispatchInv /\ [DispatchNext]_dispatchVars => [NotGuessed]_dispatchVars
  BY StepsGuessNothing
<1> QED
  BY <1>1, <1>2, DispatchInitInv, DispatchNextInv, PTL
     DEF DispatchSpec, AttributionsAreOwn, NoGuessing, NotGuessed

-----------------------------------------------------------------------------
(* Run: the invariant                                                      *)

Stages == {"IDLE", "QUEUED", "REFUSED", "ADMITTED", "GUARDED", "VALID", "WAITING", "CHILD", "DONE"}

Refusals == OfRegistry \union
  {"INVALID_QUALIFIER_TIMEOUT", "DISRUPTIVE_QUALIFICATION_NOT_ALLOWED_OVERNIGHT",
   "DISRUPTIVE_QUALIFICATION_REQUIRES_HOSTED_BARRIER", "SUBJECT_METADATA_READ_FAILURE",
   "ADMITTED", "REGISTERED_EXECUTABLE_MISSING"}

Registered == {r[id] : r \in Registries, id \in Qualifications}

Runs ==
  [at : Stages, id : Qualifications \union {None}, workstream : Workstreams \union {None},
   overnight : BOOLEAN, timeout : Nat, window : Windows \union {None}, repair : BOOLEAN,
   control : Registries \union {None}, attempt : Nat, refusal : Refusals \union {None},
   ran : Registered \union {None}, started : Nat, fired : BOOLEAN, ended : Nat,
   result : {"", "PASS", "SUBJECT_FAILURE", "INFRA_FAILURE"}, promoted : BOOLEAN,
   post : {"", "windows_reboot", "OTHER"}, routed : BOOLEAN]

RunTypeOK ==
  /\ run \in Runs
  /\ main \in Registries
  /\ now \in Nat
  /\ run.at # "IDLE" => run.id \in Qualifications /\ run.control \in Registries

\* What was admitted stays admissible: the registry is that of the dispatched commit.
AdmissionHolds ==
  run.at \notin {"IDLE", "QUEUED", "REFUSED"} => Unfit = "FIT" /\ ~Entry.reboots

\* The child is started from the registered entry, at a time that leaves its budget.
ChildIsPlaced ==
  /\ run.at = "WAITING" => Entry.present /\ (run.overnight => run.window \in Windows)
  /\ run.ran # None =>
       /\ run.at \in {"CHILD", "DONE"} /\ run.ran = Entry /\ Entry.present
       /\ run.overnight => /\ run.window \in Windows /\ run.window.from <= run.started
                           /\ run.started + run.timeout <= run.window.to
  /\ run.at = "CHILD" => run.ran # None /\ (~run.fired => now <= run.started + run.timeout)

\* What a run ends with was reached by a child that its timer did not overtake.
OutcomeIsEarned ==
  /\ run.at # "DONE" => run.result = "" /\ ~run.promoted /\ run.post = ""
  /\ run.result = "PASS" => run.ran # None /\ ~run.fired /\ run.ended <= run.started + run.timeout
  /\ run.promoted => run.result = "PASS" /\ run.ran.gate = "promotion"
  /\ NoReboot

\* A refusal of the registry is one that the same registry gives again.
RefusalIsLasting == run.refusal \in OfRegistry => run.at \in {"QUEUED", "REFUSED"} /\ Unfit = run.refusal

RunInv ==
  /\ RunTypeOK
  /\ AdmissionHolds
  /\ ChildIsPlaced
  /\ OutcomeIsEarned
  /\ RefusalIsLasting

LEMMA RunInitInv == QualificationInit => RunInv
<1> SUFFICES ASSUME QualificationInit PROVE RunInv
  OBVIOUS
<1>1. /\ run.at = "IDLE" /\ run.ran = None /\ run.refusal = None /\ run.result = ""
      /\ run.promoted = FALSE /\ run.post = ""
  BY DEF QualificationInit, Idle
<1>2. RunTypeOK
  BY DEF QualificationInit, Idle, RunTypeOK, Runs, Stages
<1> QED
  BY <1>1, <1>2, QualificationAssumption DEF RunInv, AdmissionHolds, ChildIsPlaced, OutcomeIsEarned, NoReboot,
     RefusalIsLasting

-----------------------------------------------------------------------------
(* Run: its steps                                                          *)

\* What is judged of a run does not depend on how far it is.
SameRequest(r) ==
  /\ r.id = run.id /\ r.control = run.control /\ r.workstream = run.workstream
  /\ r.timeout = run.timeout /\ r.overnight = run.overnight /\ r.window = run.window

\* What the fields of a run become, by the form of the step.
LEMMA StageMoves ==
  ASSUME run \in Runs, NEW at \in Stages, run' = [run EXCEPT !.at = at]
  PROVE  /\ run' \in Runs /\ SameRequest(run') /\ run'.at = at /\ run'.ran = run.ran
         /\ run'.result = run.result /\ run'.promoted = run.promoted /\ run'.post = run.post
         /\ run'.refusal = run.refusal
<1>1. run' \in Runs /\ SameRequest(run')
  BY DEF Runs, SameRequest
<1>2. /\ run'.at = at /\ run'.ran = run.ran /\ run'.result = run.result /\ run'.promoted = run.promoted
      /\ run'.post = run.post /\ run'.refusal = run.refusal
  BY DEF Runs
<1> QED
  BY <1>1, <1>2

LEMMA AdmissionMoves ==
  ASSUME run \in Runs, NEW at \in Stages, NEW refusal \in Refusals \union {None},
         run' = [run EXCEPT !.at = at, !.refusal = refusal]
  PROVE  /\ run' \in Runs /\ SameRequest(run') /\ run'.at = at /\ run'.ran = run.ran
         /\ run'.result = run.result /\ run'.promoted = run.promoted /\ run'.post = run.post
         /\ run'.refusal = refusal
<1>1. run' \in Runs /\ SameRequest(run')
  BY DEF Runs, SameRequest
<1>2. /\ run'.at = at /\ run'.ran = run.ran /\ run'.result = run.result /\ run'.promoted = run.promoted
      /\ run'.post = run.post /\ run'.refusal = refusal
  BY DEF Runs
<1> QED
  BY <1>1, <1>2

LEMMA EndMoves ==
  ASSUME run \in Runs, now \in Nat, NEW result \in {"", "PASS", "SUBJECT_FAILURE", "INFRA_FAILURE"},
         run' = [run EXCEPT !.at = "DONE", !.result = result, !.ended = now]
  PROVE  /\ run' \in Runs /\ SameRequest(run') /\ run'.at = "DONE" /\ run'.ran = run.ran
         /\ run'.result = result /\ run'.promoted = run.promoted /\ run'.post = run.post
         /\ run'.refusal = run.refusal /\ run'.started = run.started /\ run'.fired = run.fired
         /\ run'.ended = now
<1>1. run' \in Runs /\ SameRequest(run')
  BY DEF Runs, SameRequest, Stages
<1>2. /\ run'.at = "DONE" /\ run'.ran = run.ran /\ run'.result = result /\ run'.promoted = run.promoted
      /\ run'.post = run.post /\ run'.refusal = run.refusal /\ run'.started = run.started
      /\ run'.fired = run.fired /\ run'.ended = now
  BY DEF Runs
<1> QED
  BY <1>1, <1>2

LEMMA ReceiptMoves ==
  ASSUME run \in Runs, now \in Nat, NEW result \in {"", "PASS", "SUBJECT_FAILURE", "INFRA_FAILURE"},
         NEW promoted \in BOOLEAN, NEW post \in {"", "windows_reboot", "OTHER"},
         run' = [[run EXCEPT !.at = "DONE", !.result = result, !.ended = now]
                   EXCEPT !.promoted = promoted, !.post = post]
  PROVE  /\ run' \in Runs /\ SameRequest(run') /\ run'.at = "DONE" /\ run'.ran = run.ran
         /\ run'.result = result /\ run'.promoted = promoted /\ run'.post = post
         /\ run'.refusal = run.refusal /\ run'.started = run.started /\ run'.fired = run.fired
         /\ run'.ended = now
<1>1. PICK r : r = [run EXCEPT !.at = "DONE", !.result = result, !.ended = now]
  OBVIOUS
<1>2. run' = [r EXCEPT !.promoted = promoted, !.post = post]
  BY <1>1
<1>3. r \in Runs
  BY <1>1 DEF Runs, Stages
<1>4. /\ r.id = run.id /\ r.control = run.control /\ r.workstream = run.workstream
      /\ r.timeout = run.timeout /\ r.overnight = run.overnight /\ r.window = run.window
  BY <1>1 DEF Runs
<1>5. /\ r.at = "DONE" /\ r.ran = run.ran /\ r.result = result
      /\ r.refusal = run.refusal /\ r.started = run.started /\ r.fired = run.fired /\ r.ended = now
  <2>1. r.at = "DONE" /\ r.result = result /\ r.ended = now
    BY <1>1 DEF Runs
  <2>2. r.ran = run.ran /\ r.refusal = run.refusal
    BY <1>1 DEF Runs
  <2>3. r.started = run.started /\ r.fired = run.fired
    BY <1>1 DEF Runs
  <2>4. QED
    BY <2>1, <2>2, <2>3
<1>6. run' \in Runs
  <2>1. PICK p : p = [r EXCEPT !.promoted = promoted]
    OBVIOUS
  <2>2. p \in Runs
    BY <1>3, <2>1 DEF Runs
  <2>3. run' = [p EXCEPT !.post = post]
    BY <1>2, <2>1
  <2>4. QED
    BY <2>2, <2>3 DEF Runs
<1>7. /\ run'.id = r.id /\ run'.control = r.control /\ run'.workstream = r.workstream
      /\ run'.timeout = r.timeout /\ run'.overnight = r.overnight /\ run'.window = r.window
  BY <1>2, <1>3 DEF Runs
<1>8. /\ run'.at = r.at /\ run'.ran = r.ran /\ run'.result = r.result /\ run'.refusal = r.refusal
      /\ run'.started = r.started /\ run'.fired = r.fired /\ run'.ended = r.ended
  BY <1>2, <1>3 DEF Runs
<1>9. run'.promoted = promoted /\ run'.post = post
  BY <1>2, <1>3 DEF Runs
<1> QED
  BY <1>4, <1>5, <1>6, <1>7, <1>8, <1>9 DEF SameRequest

LEMMA AgainMoves ==
  ASSUME run \in Runs, NEW at \in Stages, run' = Again(at)
  PROVE  /\ run' \in Runs /\ SameRequest(run') /\ run'.at = at /\ run'.ran = None
         /\ run'.result = "" /\ run'.promoted = FALSE /\ run'.post = ""
         /\ run'.refusal = run.refusal
<1>1. run' \in Runs
  <2>1. run.attempt \in Nat
    BY DEF Runs
  <2>2. PICK n \in Nat : n = run.attempt + 1
    BY <2>1
  <2>3. PICK r : r = [run EXCEPT !.at = at, !.attempt = n, !.ran = None, !.started = 0, !.fired = FALSE]
    OBVIOUS
  <2>4. run' = [r EXCEPT !.ended = 0, !.result = "", !.promoted = FALSE, !.post = "", !.routed = FALSE]
    BY <2>2, <2>3 DEF Again
  <2>5. 0 \in Nat
    OBVIOUS
  <2>6. r \in Runs
    BY <2>3, <2>5 DEF Runs
  <2> QED
    BY <2>4, <2>5, <2>6 DEF Runs
<1>2. SameRequest(run')
  BY DEF Runs, Again, SameRequest
<1>3. /\ run'.at = at /\ run'.ran = None /\ run'.result = "" /\ run'.post = "" /\ run'.refusal = run.refusal
  BY DEF Runs, Again
<1>4. run'.promoted = FALSE
  BY DEF Runs, Again
<1> QED
  BY <1>1, <1>2, <1>3, <1>4

Asked(id, ws, t, overnight, w, repair, registry) ==
  [run EXCEPT !.at = "QUEUED", !.id = id, !.workstream = ws, !.timeout = t,
              !.overnight = overnight, !.window = w, !.repair = repair,
              !.control = registry, !.attempt = 1]

LEMMA DispatchMoves ==
  ASSUME run \in Runs, NEW id \in Qualifications, NEW ws \in Workstreams, NEW t \in Nat,
         NEW overnight \in BOOLEAN, NEW w \in Windows \union {None}, NEW repair \in BOOLEAN,
         NEW registry \in Registries,
         run' = Asked(id, ws, t, overnight, w, repair, registry)
  PROVE  /\ run' \in Runs /\ run'.at = "QUEUED" /\ run'.id = id /\ run'.control = registry
         /\ run'.ran = run.ran /\ run'.result = run.result /\ run'.promoted = run.promoted
         /\ run'.post = run.post /\ run'.refusal = run.refusal
<1>1. run' \in Runs
  <2>1. 1 \in Nat /\ "QUEUED" \in Stages
    BY DEF Stages
  <2>2. PICK r : r = [run EXCEPT !.at = "QUEUED", !.id = id, !.workstream = ws, !.timeout = t]
    OBVIOUS
  <2>3. PICK q : q = [r EXCEPT !.overnight = overnight]
    OBVIOUS
  <2>4. PICK z : z = [q EXCEPT !.window = w, !.repair = repair]
    OBVIOUS
  <2>5. run' = [z EXCEPT !.control = registry, !.attempt = 1]
    BY <2>2, <2>3, <2>4 DEF Asked
  <2>6. r \in Runs
    BY <2>1, <2>2 DEF Runs
  <2>7. q \in Runs
    BY <2>3, <2>6 DEF Runs
  <2>8. z \in Runs
    BY <2>4, <2>7 DEF Runs
  <2> QED
    BY <2>1, <2>5, <2>8 DEF Runs
<1>2. /\ run'.at = "QUEUED" /\ run'.id = id /\ run'.control = registry
      /\ run'.ran = run.ran /\ run'.result = run.result
      /\ run'.post = run.post /\ run'.refusal = run.refusal
  BY DEF Runs, Asked
<1>3. run'.promoted = run.promoted
  BY DEF Runs, Asked
<1> QED
  BY <1>1, <1>2, <1>3

LEMMA VerdictStays ==
  ASSUME SameRequest(run')
  PROVE  Entry' = Entry /\ Unfit' = Unfit
  BY DEF SameRequest, Entry, Control, Unfit

\* A step that starts no child and ends none.
LEMMA StageInv ==
  ASSUME RunInv, run.at # "IDLE", run' \in Runs, SameRequest(run'), UNCHANGED <<main, now>>,
         run'.at \notin {"IDLE", "CHILD"},
         run'.ran = None, run'.result \in {"", "INFRA_FAILURE"}, run'.promoted = FALSE, run'.post = "",
         run'.at # "DONE" => run'.result = "",
         run'.at \in {"QUEUED", "REFUSED"} \/ (Unfit = "FIT" /\ ~Entry.reboots),
         run'.at = "WAITING" => Entry.present /\ (run.overnight => run.window \in Windows),
         run'.refusal \in OfRegistry => run'.at \in {"QUEUED", "REFUSED"} /\ Unfit = run'.refusal
  PROVE  RunInv'
<1>1. Entry' = Entry /\ Unfit' = Unfit
  BY VerdictStays
<1>2. RunTypeOK'
  BY DEF RunInv, RunTypeOK, SameRequest
<1>3. AdmissionHolds' /\ RefusalIsLasting'
  BY <1>1 DEF AdmissionHolds, RefusalIsLasting
<1>4. ChildIsPlaced'
  BY <1>1 DEF ChildIsPlaced, SameRequest
<1>5. OutcomeIsEarned'
  BY DEF OutcomeIsEarned, NoReboot
<1> QED
  BY <1>2, <1>3, <1>4, <1>5 DEF RunInv

LEMMA RunDispatchInv == RunInv /\ Dispatch => RunInv'
<1> SUFFICES ASSUME RunInv, Dispatch PROVE RunInv'
  OBVIOUS
<1>1. PICK id \in Qualifications, ws \in Workstreams, t \in Timeouts, overnight \in BOOLEAN,
        w \in Windows \union {None}, repair \in BOOLEAN :
       run' = Asked(id, ws, t, overnight, w, repair, main)
  BY DEF Dispatch, Asked
<1>2. run \in Runs /\ main \in Registries /\ now \in Nat /\ UNCHANGED <<main, now>> /\ run.at = "IDLE"
  BY DEF Dispatch, RunInv, RunTypeOK
<1>3. /\ run' \in Runs /\ run'.at = "QUEUED" /\ run'.id = id /\ run'.control = main
      /\ run'.ran = run.ran /\ run'.result = run.result /\ run'.promoted = run.promoted
      /\ run'.post = run.post /\ run'.refusal = run.refusal
  <2>1. t \in Nat
    BY QualificationAssumption
  <2>2. run \in Runs /\ main \in Registries
    BY <1>2
  <2> QED
    BY <1>1, <2>1, <2>2, DispatchMoves
<1>4. run.ran = None /\ run.result = "" /\ ~run.promoted /\ run.post = "" /\ run.refusal \notin OfRegistry
  BY <1>2 DEF RunInv, ChildIsPlaced, OutcomeIsEarned, RefusalIsLasting
<1>5. RunTypeOK'
  BY <1>2, <1>3 DEF RunTypeOK
<1> QED
  BY <1>3, <1>4, <1>5 DEF RunInv, AdmissionHolds, ChildIsPlaced, OutcomeIsEarned, NoReboot, RefusalIsLasting

LEMMA AdmitInv == RunInv /\ Admit => RunInv'
<1> SUFFICES ASSUME RunInv, Admit PROVE RunInv'
  OBVIOUS
<1>1. PICK v \in Verdicts : run' = [run EXCEPT !.at = IF v = "ADMITTED" THEN v ELSE "REFUSED",
                                               !.refusal = IF v = "ADMITTED" THEN None ELSE v]
  BY DEF Admit
<1>2. run \in Runs /\ UNCHANGED <<main, now>> /\ run.at = "QUEUED"
  BY DEF Admit, RunInv, RunTypeOK
<1>3. run.ran = None /\ run.result = "" /\ run.promoted = FALSE /\ run.post = ""
  BY <1>2 DEF RunInv, ChildIsPlaced, OutcomeIsEarned, Runs
<1>4. /\ v \in Refusals
      /\ v = "ADMITTED" => Unfit = "FIT" /\ ~Entry.reboots
      /\ v \in OfRegistry => Unfit = v
  BY DEF Verdicts, Unfit, OfRegistry, Refusals
<1>5. /\ run' \in Runs /\ SameRequest(run')
      /\ run'.at = (IF v = "ADMITTED" THEN v ELSE "REFUSED")
      /\ run'.refusal = (IF v = "ADMITTED" THEN None ELSE v)
      /\ run'.ran = run.ran /\ run'.result = run.result /\ run'.promoted = run.promoted
      /\ run'.post = run.post
  <2>1. /\ (IF v = "ADMITTED" THEN v ELSE "REFUSED") \in Stages
        /\ (IF v = "ADMITTED" THEN None ELSE v) \in Refusals \union {None}
    BY <1>4 DEF Stages
  <2> QED
    BY <1>1, <1>2, <2>1, AdmissionMoves
<1> QED
  BY <1>2, <1>4, <1>5, <1>3, QualificationAssumption, StageInv

\* A step that goes on or ends the run before a child is started.
LEMMA OnwardInv ==
  ASSUME RunInv, run.at \in {"ADMITTED", "GUARDED", "VALID", "WAITING"}, UNCHANGED <<main, now>>,
         NEW at \in {"GUARDED", "VALID", "WAITING", "DONE"},
         NEW result \in {"", "INFRA_FAILURE"}, at # "DONE" => result = "",
         run' = IF at = "DONE" THEN End(run, result) ELSE [run EXCEPT !.at = at],
         at = "WAITING" => Entry.present /\ (run.overnight => run.window \in Windows)
  PROVE  RunInv'
<1>1. run \in Runs /\ now \in Nat
  BY DEF RunInv, RunTypeOK
<1>2. run.ran = None /\ run.result = "" /\ run.promoted = FALSE /\ run.post = ""
  BY <1>1 DEF RunInv, ChildIsPlaced, OutcomeIsEarned, Runs
<1>3. /\ Unfit = "FIT" /\ ~Entry.reboots /\ run.refusal \notin OfRegistry
  BY DEF RunInv, AdmissionHolds, RefusalIsLasting
<1>4. CASE at = "DONE"
  <2>1. run' = [run EXCEPT !.at = "DONE", !.result = result, !.ended = now]
    BY <1>4 DEF End
  <2>2. /\ run' \in Runs /\ SameRequest(run')
        /\ run'.at = "DONE" /\ run'.ran = run.ran /\ run'.promoted = run.promoted
        /\ run'.post = run.post /\ run'.refusal = run.refusal /\ run'.result = result
    BY <1>1, <2>1, EndMoves
  <2> QED
    BY <1>1, <1>3, <1>4, <1>2, <2>2, StageInv
<1>5. CASE at # "DONE"
  <2>1. run' = [run EXCEPT !.at = at]
    BY <1>5
  <2>2. /\ run' \in Runs /\ SameRequest(run')
        /\ run'.at = at /\ run'.ran = run.ran /\ run'.promoted = run.promoted
        /\ run'.post = run.post /\ run'.refusal = run.refusal /\ run'.result = run.result
    BY <1>1, <2>1, StageMoves DEF Stages
  <2> QED
    BY <1>1, <1>3, <1>5, <1>2, <2>2, StageInv
<1> QED
  BY <1>4, <1>5

LEMMA PreparationInv == RunInv /\ (StepFails \/ Guard \/ ValidateRegistry \/ Prepare) => RunInv'
<1> SUFFICES ASSUME RunInv, StepFails \/ Guard \/ ValidateRegistry \/ Prepare PROVE RunInv'
  OBVIOUS
<1>1. CASE StepFails
  BY <1>1, OnwardInv DEF StepFails
<1>2. CASE Guard
  <2>1. CASE run' = End(run, "INFRA_FAILURE")
    BY <1>2, <2>1, OnwardInv DEF Guard
  <2>2. CASE run' = [run EXCEPT !.at = "GUARDED"]
    BY <1>2, <2>2, OnwardInv DEF Guard
  <2> QED
    BY <1>2, <2>1, <2>2 DEF Guard
<1>3. CASE ValidateRegistry
  <2>1. CASE run' = Throw(run)
    BY <1>3, <2>1, OnwardInv DEF ValidateRegistry, Throw
  <2>2. CASE run' = [run EXCEPT !.at = "VALID"]
    BY <1>3, <2>2, OnwardInv DEF ValidateRegistry
  <2> QED
    BY <1>3, <2>1, <2>2 DEF ValidateRegistry
<1>4. CASE Prepare
  <2>1. CASE run' = Throw(run)
    BY <1>4, <2>1, OnwardInv DEF Prepare, Throw
  <2>2. CASE run' # Throw(run)
    <3>1. run' = [run EXCEPT !.at = "WAITING"] /\ Entry.present /\ (run.overnight => run.window # None)
      BY <1>4, <2>2 DEF Prepare
    <3>2. run.overnight => run.window \in Windows
      BY <3>1 DEF RunInv, RunTypeOK, Runs
    <3> QED
      BY <1>4, <3>1, <3>2, OnwardInv DEF Prepare
  <2> QED
    BY <2>1, <2>2
<1> QED
  BY <1>1, <1>2, <1>3, <1>4

LEMMA BeginInv == RunInv /\ Begin => RunInv'
<1> SUFFICES ASSUME RunInv, Begin PROVE RunInv'
  OBVIOUS
<1>1. /\ run \in Runs /\ now \in Nat /\ UNCHANGED <<main, now>> /\ run.at = "WAITING"
      /\ run.id \in Qualifications /\ run.control \in Registries /\ run.timeout \in Nat
  BY DEF Begin, RunInv, RunTypeOK, Runs
<1>2. /\ Unfit = "FIT" /\ ~Entry.reboots /\ run.refusal \notin OfRegistry /\ Entry.present
      /\ run.overnight => run.window \in Windows
      /\ run.result = "" /\ run.promoted = FALSE /\ run.post = "" /\ run.ran = None
  BY <1>1 DEF RunInv, AdmissionHolds, RefusalIsLasting, ChildIsPlaced, OutcomeIsEarned, Runs
<1>3. Entry \in Registered /\ Entry # None
  <2>1. Entry = run.control[run.id]
    BY DEF Entry, Control
  <2>2. Entry \in Registered
    BY <1>1, <2>1 DEF Registered
  <2> QED
    BY <1>2, <2>2 DEF Unfit
<1>4. CASE run' = End(run, "SUBJECT_FAILURE")
  <2>1. run' = [run EXCEPT !.at = "DONE", !.result = "SUBJECT_FAILURE", !.ended = now]
    BY <1>4 DEF End
  <2>2. /\ run' \in Runs /\ SameRequest(run')
        /\ run'.at = "DONE" /\ run'.ran = run.ran /\ run'.promoted = run.promoted
        /\ run'.post = run.post /\ run'.refusal = run.refusal /\ run'.result = "SUBJECT_FAILURE"
    BY <1>1, <2>1, EndMoves
  <2>3. Entry' = Entry /\ Unfit' = Unfit
    BY <2>2, VerdictStays
  <2>4. RunTypeOK'
    BY <1>1, <2>2 DEF RunInv, RunTypeOK, SameRequest
  <2> QED
    BY <1>2, <2>2, <2>3, <2>4 DEF RunInv, AdmissionHolds, ChildIsPlaced, OutcomeIsEarned, NoReboot,
       RefusalIsLasting
<1>5. CASE run' # End(run, "SUBJECT_FAILURE")
  <2>1. /\ run' = [run EXCEPT !.at = "CHILD", !.ran = Entry, !.started = now]
        /\ run.overnight => now >= run.window.from /\ ~(now + run.timeout > run.window.to)
    BY <1>5 DEF Begin
  <2>2. /\ run' \in Runs /\ SameRequest(run')
        /\ run'.at = "CHILD" /\ run'.ran = Entry /\ run'.started = now /\ run'.promoted = run.promoted
        /\ run'.post = run.post /\ run'.refusal = run.refusal /\ run'.result = run.result
    BY <1>1, <1>3, <2>1 DEF Runs, Stages, SameRequest
  <2>3. Entry' = Entry /\ Unfit' = Unfit
    BY <2>2, VerdictStays
  <2>4. RunTypeOK'
    BY <1>1, <2>2 DEF RunInv, RunTypeOK, SameRequest
  <2>5. /\ run.overnight => /\ run.window \in Windows /\ run.window.from <= now
                            /\ now + run.timeout <= run.window.to
        /\ now <= now + run.timeout
    <3>1. run.overnight => run.window \in Windows /\ run.window.from \in Nat /\ run.window.to \in Nat
      BY <1>2, QualificationAssumption
    <3> QED
      BY <1>1, <2>1, <3>1
  <2>6. ChildIsPlaced'
    BY <1>1, <1>2, <1>3, <2>2, <2>3, <2>5 DEF ChildIsPlaced, SameRequest
  <2> QED
    BY <1>2, <2>2, <2>3, <2>4, <2>6 DEF RunInv, AdmissionHolds, OutcomeIsEarned, NoReboot, RefusalIsLasting
<1> QED
  BY <1>4, <1>5

LEMMA TimerInv == RunInv /\ TimerFires => RunInv'
<1> SUFFICES ASSUME RunInv, TimerFires PROVE RunInv'
  OBVIOUS
<1>1. /\ run \in Runs /\ UNCHANGED <<main, now>> /\ run.at = "CHILD" /\ run' = [run EXCEPT !.fired = TRUE]
  BY DEF TimerFires, TimerDue, RunInv, RunTypeOK
<1>2. /\ run' \in Runs /\ SameRequest(run') /\ run'.fired = TRUE
      /\ run'.at = "CHILD" /\ run'.ran = run.ran /\ run'.started = run.started /\ run'.promoted = run.promoted
      /\ run'.post = run.post /\ run'.refusal = run.refusal /\ run'.result = run.result
  BY <1>1 DEF Runs, Stages, SameRequest
<1>3. Entry' = Entry /\ Unfit' = Unfit
  BY <1>2, VerdictStays
<1>4. RunTypeOK'
  BY <1>1, <1>2 DEF RunInv, RunTypeOK, SameRequest
<1>5. ChildIsPlaced'
  BY <1>1, <1>2, <1>3 DEF RunInv, ChildIsPlaced, SameRequest
<1> QED
  BY <1>1, <1>2, <1>3, <1>4, <1>5 DEF RunInv, AdmissionHolds, OutcomeIsEarned, NoReboot, RefusalIsLasting

\* The run ends with its child, or is stopped under it.
LEMMA EndInv ==
  ASSUME RunInv, run.at = "CHILD", UNCHANGED <<main, now>>, run' \in Runs, SameRequest(run'),
         run'.at = "DONE", run'.ran = run.ran, run'.started = run.started, run'.fired = run.fired,
         run'.refusal = run.refusal, run'.ended = now,
         run'.result = "PASS" => ~run.fired,
         run'.promoted => run'.result = "PASS" /\ run.ran.gate = "promotion",
         run'.post # "windows_reboot"
  PROVE  RunInv'
<1>1. Entry' = Entry /\ Unfit' = Unfit
  BY VerdictStays
<1>2. RunTypeOK'
  BY DEF RunInv, RunTypeOK, SameRequest
<1>3. AdmissionHolds' /\ RefusalIsLasting'
  BY <1>1 DEF RunInv, AdmissionHolds, RefusalIsLasting
<1>4. ChildIsPlaced'
  BY <1>1 DEF RunInv, ChildIsPlaced, SameRequest
<1>5. run.ran # None /\ (~run.fired => now <= run.started + run.timeout)
  BY DEF RunInv, ChildIsPlaced
<1>6. OutcomeIsEarned'
  BY <1>5 DEF OutcomeIsEarned, NoReboot, SameRequest
<1> QED
  BY <1>2, <1>3, <1>4, <1>6 DEF RunInv

LEMMA ChildInv == RunInv /\ ChildCloses => RunInv'
<1> SUFFICES ASSUME RunInv, ChildCloses PROVE RunInv'
  OBVIOUS
<1>1. PICK code \in {-1, 0, 1}, marker \in {"", "windows_reboot", "OTHER"} : run' = Receipt(code, marker)
  BY DEF ChildCloses
<1>2. /\ run \in Runs /\ now \in Nat /\ UNCHANGED <<main, now>> /\ run.at = "CHILD"
  BY DEF ChildCloses, RunInv, RunTypeOK
<1>3. /\ run.ran = Entry /\ ~Entry.reboots /\ run.result = "" /\ run.promoted = FALSE /\ run.post = ""
  BY <1>2 DEF RunInv, AdmissionHolds, ChildIsPlaced, OutcomeIsEarned, Runs
<1> DEFINE result == ResultOf(code)
<1>4. /\ result \in {"PASS", "SUBJECT_FAILURE", "INFRA_FAILURE"}
      /\ result = "PASS" => ~run.fired
  BY DEF ResultOf
<1>5. CASE run' = Throw(run)
  <2>1. run' = [run EXCEPT !.at = "DONE", !.result = "", !.ended = now]
    BY <1>5 DEF Throw, End
  <2>2. /\ run' \in Runs /\ SameRequest(run') /\ run'.at = "DONE" /\ run'.ran = run.ran
        /\ run'.started = run.started /\ run'.fired = run.fired /\ run'.refusal = run.refusal
        /\ run'.ended = now /\ run'.result = "" /\ run'.promoted = run.promoted /\ run'.post = run.post
    BY <1>2, <2>1, EndMoves
  <2> QED
    BY <1>2, <1>3, <2>2, EndInv
<1>6. CASE run' # Throw(run)
  <2> DEFINE promoted == result = "PASS" /\ run.ran.gate = "promotion"
             post == IF result = "PASS" THEN marker ELSE ""
  <2>1. /\ run' = [End(run, result) EXCEPT !.promoted = promoted, !.post = post]
        /\ ~(result = "PASS" /\ (marker = "OTHER" \/ (marker = "windows_reboot" /\ ~run.ran.reboots)))
    BY <1>1, <1>6 DEF Receipt
  <2>2. post \in {"", "windows_reboot", "OTHER"} /\ post # "windows_reboot" /\ promoted \in BOOLEAN
    BY <1>3, <2>1
  <2>3. promoted => result = "PASS" /\ run.ran.gate = "promotion"
    OBVIOUS
  <2> HIDE DEF result, promoted, post
  <2>4. run' = [[run EXCEPT !.at = "DONE", !.result = result, !.ended = now]
                  EXCEPT !.promoted = promoted, !.post = post]
    BY <2>1 DEF End
  <2>5. /\ run' \in Runs /\ SameRequest(run') /\ run'.at = "DONE" /\ run'.ran = run.ran
        /\ run'.started = run.started /\ run'.fired = run.fired /\ run'.refusal = run.refusal
        /\ run'.ended = now /\ run'.result = result /\ run'.promoted = promoted /\ run'.post = post
    BY <1>2, <1>4, <2>2, <2>4, ReceiptMoves
  <2> QED
    BY <1>2, <1>4, <2>2, <2>3, <2>5, EndInv
<1> QED
  BY <1>5, <1>6

LEMMA CancelInv == RunInv /\ Cancel => RunInv'
<1> SUFFICES ASSUME RunInv, Cancel PROVE RunInv'
  OBVIOUS
<1>1. /\ run \in Runs /\ now \in Nat /\ UNCHANGED <<main, now>>
      /\ run.at \in {"QUEUED", "GUARDED", "VALID", "WAITING", "CHILD"}
  BY DEF Cancel, RunInv, RunTypeOK
<1>2. run.result = "" /\ run.promoted = FALSE /\ run.post = ""
  BY <1>1 DEF RunInv, OutcomeIsEarned, Runs
<1>3. CASE run.at = "QUEUED"
  <2>1. run' = [run EXCEPT !.at = "REFUSED"] /\ run.ran = None
    BY <1>3 DEF Cancel, RunInv, ChildIsPlaced
  <2>2. /\ run' \in Runs /\ SameRequest(run')
        /\ run'.at = "REFUSED" /\ run'.ran = run.ran /\ run'.promoted = run.promoted
        /\ run'.post = run.post /\ run'.refusal = run.refusal /\ run'.result = run.result
    BY <1>1, <2>1, StageMoves DEF Stages
  <2>3. run.refusal \in OfRegistry => Unfit = run.refusal
    BY DEF RunInv, RefusalIsLasting
  <2> QED
    BY <1>1, <1>3, <1>2, <2>1, <2>2, <2>3, StageInv
<1>4. CASE run.at \in {"GUARDED", "VALID", "WAITING"}
  BY <1>1, <1>4, OnwardInv DEF Cancel
<1>5. CASE run.at = "CHILD"
  <2>1. run' = [run EXCEPT !.at = "DONE", !.result = "", !.ended = now]
    BY <1>5 DEF Cancel, End
  <2>2. /\ run' \in Runs /\ SameRequest(run') /\ run'.at = "DONE" /\ run'.ran = run.ran
        /\ run'.started = run.started /\ run'.fired = run.fired /\ run'.refusal = run.refusal
        /\ run'.ended = now /\ run'.result = "" /\ run'.promoted = run.promoted /\ run'.post = run.post
    BY <1>1, <2>1, EndMoves
  <2> QED
    BY <1>1, <1>5, <1>2, <2>2, EndInv
<1> QED
  BY <1>1, <1>3, <1>4, <1>5

LEMMA RouteInv == RunInv /\ Route => RunInv'
<1> SUFFICES ASSUME RunInv, Route PROVE RunInv'
  OBVIOUS
<1>1. /\ run \in Runs /\ UNCHANGED <<main, now>> /\ run.at = "DONE" /\ run' = [run EXCEPT !.routed = TRUE]
  BY DEF Route, RunInv, RunTypeOK
<1>2. /\ run' \in Runs /\ SameRequest(run') /\ run'.fired = run.fired /\ run'.ended = run.ended
      /\ run'.at = "DONE" /\ run'.ran = run.ran /\ run'.started = run.started /\ run'.promoted = run.promoted
      /\ run'.post = run.post /\ run'.refusal = run.refusal /\ run'.result = run.result
  BY <1>1 DEF Runs, Stages, SameRequest
<1>3. Entry' = Entry /\ Unfit' = Unfit
  BY <1>2, VerdictStays
<1>4. RunTypeOK'
  BY <1>1, <1>2 DEF RunInv, RunTypeOK, SameRequest
<1>5. ChildIsPlaced'
  BY <1>1, <1>2, <1>3 DEF RunInv, ChildIsPlaced, SameRequest
<1>6. OutcomeIsEarned'
  BY <1>2 DEF RunInv, OutcomeIsEarned, NoReboot, SameRequest
<1> QED
  BY <1>1, <1>2, <1>3, <1>4, <1>5, <1>6 DEF RunInv, AdmissionHolds, RefusalIsLasting

LEMMA RerunInv == RunInv /\ (RerunAll \/ RerunFailed) => RunInv'
<1> SUFFICES ASSUME RunInv, RerunAll \/ RerunFailed PROVE RunInv'
  OBVIOUS
<1>1. PICK at \in {"QUEUED", "ADMITTED"} :
        /\ run' = Again(at) /\ run.at \in {"DONE", "REFUSED"} /\ (at = "ADMITTED" => run.at = "DONE")
  BY DEF RerunAll, RerunFailed
<1>2. run \in Runs /\ UNCHANGED <<main, now>>
  BY DEF RerunAll, RerunFailed, RunInv, RunTypeOK
<1>3. /\ run' \in Runs /\ SameRequest(run')
      /\ run'.at = at /\ run'.ran = None /\ run'.promoted = FALSE
      /\ run'.post = "" /\ run'.refusal = run.refusal /\ run'.result = ""
  BY <1>1, <1>2, AgainMoves DEF Stages
<1>4. /\ run.refusal \in OfRegistry => run.at = "REFUSED" /\ Unfit = run.refusal
      /\ run.at = "DONE" => Unfit = "FIT" /\ ~Entry.reboots
  BY <1>1 DEF RunInv, RefusalIsLasting, AdmissionHolds
<1> QED
  BY <1>1, <1>2, <1>3, <1>4, StageInv

LEMMA AroundInv == RunInv /\ (ChangeMain \/ Tick \/ UNCHANGED qualificationVars) => RunInv'
<1> SUFFICES ASSUME RunInv, ChangeMain \/ Tick \/ UNCHANGED qualificationVars PROVE RunInv'
  OBVIOUS
<1>1. run' = run /\ run \in Runs /\ now \in Nat
  BY DEF ChangeMain, Tick, qualificationVars, RunInv, RunTypeOK
<1>2. /\ main' \in Registries /\ now' \in Nat
      /\ run.at = "CHILD" /\ ~run.fired /\ now <= run.started + run.timeout => now' <= run.started + run.timeout
  <2>1. run.started \in Nat /\ run.timeout \in Nat
    BY <1>1 DEF Runs
  <2> QED
    BY <1>1, <2>1 DEF ChangeMain, Tick, TimerDue, qualificationVars, RunInv, RunTypeOK
<1>3. Entry' = Entry /\ Unfit' = Unfit
  BY <1>1 DEF Entry, Control, Unfit
<1>4. RunTypeOK' /\ ChildIsPlaced'
  BY <1>1, <1>2, <1>3 DEF RunInv, RunTypeOK, ChildIsPlaced
<1> QED
  BY <1>1, <1>3, <1>4 DEF RunInv, AdmissionHolds, OutcomeIsEarned, NoReboot, RefusalIsLasting

LEMMA RunNextInv == RunInv /\ [QualificationNext]_qualificationVars => RunInv'
  BY RunDispatchInv, AdmitInv, PreparationInv, BeginInv, TimerInv, ChildInv, CancelInv, RouteInv, RerunInv,
     AroundInv DEF QualificationNext, Job, Killed

-----------------------------------------------------------------------------
(* Run: the theorem                                                        *)

LEMMA RefusalStands ==
  ASSUME RunInv, [QualificationNext]_qualificationVars, run.refusal \in OfRegistry
  PROVE  run'.refusal = run.refusal /\ run'.at # "ADMITTED"
<1>1. run \in Runs /\ run.at \in {"QUEUED", "REFUSED"} /\ Unfit = run.refusal
  BY DEF RunInv, RunTypeOK, RefusalIsLasting
<1>2. CASE Admit
  <2>1. Verdicts = {Unfit} /\ Unfit # "ADMITTED"
    BY <1>1 DEF Verdicts, OfRegistry
  <2>2. run' = [run EXCEPT !.at = "REFUSED", !.refusal = Unfit]
    BY <1>2, <2>1 DEF Admit
  <2> QED
    BY <1>1, <2>2 DEF Runs
<1>3. CASE Cancel
  <2>1. run' = [run EXCEPT !.at = "REFUSED"]
    BY <1>1, <1>3 DEF Cancel
  <2> QED
    BY <1>1, <2>1 DEF Runs
<1>4. CASE RerunAll
  <2>1. run' = [run EXCEPT !.at = "QUEUED", !.attempt = @ + 1, !.ran = None, !.started = 0, !.fired = FALSE,
                         !.ended = 0, !.result = "", !.promoted = FALSE, !.post = "",
                         !.routed = FALSE]
    BY <1>4 DEF RerunAll, Again
  <2> QED
    BY <1>1, <2>1 DEF Runs
<1>5. CASE run' = run
  BY <1>1, <1>5
<1> QED
  BY <1>1, <1>2, <1>3, <1>4, <1>5 DEF QualificationNext, Job, Killed, Dispatch, Guard, ValidateRegistry,
     Prepare, Begin, TimerFires, TimerDue, ChildCloses, StepFails, Route, ChangeMain, RerunFailed, Tick,
     qualificationVars

\* For every registry, every window and every number of attempts: what is run is what the
\* dispatched commit registers, a PASS lies in its window and its budget, promotion is earned,
\* nothing restarts the machine and a refusal of the registry stands.
THEOREM RunVerdictsAreEarned == QualificationSpec => VerdictsAreEarned
<1>1. RunInv => RunsWhatWasRegistered /\ PassIsInTime /\ PromotionIsEarned /\ NoReboot
  <2> SUFFICES ASSUME RunInv PROVE RunsWhatWasRegistered /\ PassIsInTime /\ PromotionIsEarned /\ NoReboot
    OBVIOUS
  <2>1. run \in Runs
    BY DEF RunInv, RunTypeOK
  <2>2. ASSUME run.ran # None
        PROVE  /\ run.ran = run.control[run.id] /\ run.id \in Qualifications /\ run.control \in Registries
               /\ Unfit = "FIT" /\ run.ran.present
    BY <2>2 DEF RunInv, RunTypeOK, ChildIsPlaced, AdmissionHolds, Entry, Control
  <2>3. RunsWhatWasRegistered
    <3> SUFFICES ASSUME run.ran # None
                 PROVE  /\ run.ran = run.control[run.id] /\ run.ran.workstream = run.workstream
                        /\ run.ran.present /\ run.timeout <= MaxTimeout
                        /\ run.overnight => run.ran.overnight /\ run.timeout <= run.ran.cap
      BY DEF RunsWhatWasRegistered
    <3>1. run.ran.cap \in Nat /\ run.timeout \in Nat /\ MaxTimeout \in Nat
      BY <2>1, <2>2, QualificationAssumption DEF Runs
    <3> QED
      BY <2>2, <3>1 DEF Unfit, Entry, Control
  <2>4. PassIsInTime
    <3> SUFFICES ASSUME run.result = "PASS"
                 PROVE  /\ run.ended <= run.started + run.timeout
                        /\ run.overnight => run.window.from <= run.started /\ run.ended <= run.window.to
      BY DEF PassIsInTime
    <3>1. run.ran # None /\ run.ended <= run.started + run.timeout
      BY DEF RunInv, OutcomeIsEarned
    <3>2. run.overnight => /\ run.window \in Windows /\ run.window.from <= run.started
                           /\ run.started + run.timeout <= run.window.to
      BY <3>1 DEF RunInv, ChildIsPlaced
    <3>3. run.started \in Nat /\ run.timeout \in Nat /\ run.ended \in Nat
      BY <2>1 DEF Runs
    <3> QED
      BY <3>1, <3>2, <3>3, QualificationAssumption
  <2>5. PromotionIsEarned /\ NoReboot
    BY <2>2 DEF RunInv, OutcomeIsEarned, PromotionIsEarned
  <2> QED
    BY <2>3, <2>4, <2>5
<1>2. RunInv /\ [QualificationNext]_qualificationVars
        => [run.refusal \in OfRegistry => run'.refusal = run.refusal /\ run'.at # "ADMITTED"]_qualificationVars
  BY RefusalStands
<1> QED
  BY <1>1, <1>2, RunInitInv, RunNextInv, PTL DEF QualificationSpec, VerdictsAreEarned, RegistryRefusalStands

-----------------------------------------------------------------------------
(* Repair: the events of a transaction.  What is asked of a log is kept by *)
(* every event that is appended, or made true by the event itself.         *)

RepairLog ==
  Seq([type : {"OPENED", "DISPATCH_READY", "RETRY_TICKET", "PREQUALIFIED", "REPLACEMENT_TICKET",
               "RERUN", "CLOSED", "DEAD_LETTERED"},
       subject : RepairCommits, class : Classes])

HandedIn(log) == EventsOf(log, "PREQUALIFIED")
Retries(log) == EventsOf(log, "RETRY_TICKET")
Tickets(log) == EventsOf(log, "REPLACEMENT_TICKET")

\* At most n candidates were handed in.
CandidatesUpTo(log, n) ==
  IsFiniteSet(HandedIn(log)) /\ Cardinality(HandedIn(log)) <= n

\* No candidate was run again twice; the last one was not run again.
RetriedOnce(log) ==
  \A i \in HandedIn(log) : \A j, k \in Retries(log) :
    /\ i < j /\ ~\E c \in HandedIn(log) : i < c /\ c < j
    /\ i < k /\ ~\E c \in HandedIn(log) : i < c /\ c < k
    => j = k

NotRetried(log) ==
  \A i \in HandedIn(log), j \in Retries(log) : i < j => \E c \in HandedIn(log) : j < c

\* The last ticket is of a subject; the run that passed is of that one.
LastTicketOf(log, s) ==
  \A j \in Tickets(log) : (\A k \in Tickets(log) : k <= j) => log[j].subject = s

PassedLast(log) ==
  \E i \in EventsOf(log, "RERUN") :
    /\ log[i].class = "PASS"
    /\ \A j \in Tickets(log) :
         (\A k \in Tickets(log) : k <= j) => j < i /\ log[j].subject = log[i].subject

\* An event comes after those that there are.
LEMMA LogGrows ==
  ASSUME NEW S, NEW log \in Seq(S), NEW e \in S, NEW new, new = log \o <<e>>
  PROVE  /\ new \in Seq(S)
         /\ Len(log) \in Nat /\ DOMAIN log = 1 .. Len(log)
         /\ DOMAIN new = 1 .. (Len(log) + 1)
         /\ \A i \in 1 .. Len(log) : new[i] = log[i]
         /\ new[Len(log) + 1] = e
<1>1. <<e>> \in Seq(S) /\ Len(<<e>>) = 1 /\ <<e>>[1] = e
  OBVIOUS
<1>2. /\ new \in Seq(S) /\ Len(new) = Len(log) + 1
      /\ \A i \in 1 .. Len(log) + 1 :
           new[i] = IF i <= Len(log) THEN log[i] ELSE <<e>>[i - Len(log)]
  BY <1>1, ConcatProperties
<1>3. Len(log) \in Nat /\ DOMAIN log = 1 .. Len(log) /\ DOMAIN new = 1 .. (Len(log) + 1)
  BY <1>2, LenProperties
<1>4. \A i \in 1 .. Len(log) : new[i] = log[i]
  BY <1>2, <1>3
<1>5. new[Len(log) + 1] = e
  BY <1>1, <1>2, <1>3
<1>6. QED
  BY <1>2, <1>3, <1>4, <1>5

\* new is log with the event e after it; it has the number n.
Appended(log, e, new) == log \in RepairLog /\ <<e>> \in RepairLog /\ new = log \o <<e>>

Joins(log, e, new, n) ==
  /\ n \in Nat /\ new[n] = e
  /\ \A type : /\ e.type = type => EventsOf(new, type) = EventsOf(log, type) \union {n}
               /\ e.type # type => EventsOf(new, type) = EventsOf(log, type)
               /\ \A i \in EventsOf(log, type) : i \in Nat /\ i < n /\ new[i] = log[i]

\* Its number joins those of its type, after all of them.
LEMMA EventJoins ==
  ASSUME NEW log, NEW e, NEW new, Appended(log, e, new)
  PROVE  new \in RepairLog /\ \E n : Joins(log, e, new, n)
<1> DEFINE n == Len(log) + 1
<1>1. PICK S : RepairLog = Seq(S)
  BY DEF RepairLog
<1>2. e \in S
  <2>1. <<e>> \in Seq(S) /\ 1 \in 1 .. Len(<<e>>) /\ <<e>>[1] = e
    BY <1>1 DEF Appended
  <2>2. QED
    BY <2>1, ElementOfSeq
<1>3. log \in Seq(S) /\ new = log \o <<e>>
  BY <1>1 DEF Appended
<1>4. /\ new \in Seq(S) /\ Len(log) \in Nat /\ DOMAIN log = 1 .. Len(log)
      /\ DOMAIN new = 1 .. (Len(log) + 1)
      /\ \A i \in 1 .. Len(log) : new[i] = log[i]
      /\ new[Len(log) + 1] = e
  BY <1>2, <1>3, LogGrows
<1>5. n \in Nat /\ new[n] = e /\ n \in DOMAIN new /\ n \notin DOMAIN log
  BY <1>4
<1>6. \A i : i \in DOMAIN new <=> i \in DOMAIN log \/ i = n
  BY <1>4
<1>7. \A i \in DOMAIN log : i \in Nat /\ i < n /\ new[i] = log[i]
  BY <1>4
<1> HIDE DEF n
<1>8. ASSUME NEW type
      PROVE  /\ e.type = type => EventsOf(new, type) = EventsOf(log, type) \union {n}
             /\ e.type # type => EventsOf(new, type) = EventsOf(log, type)
             /\ \A i \in EventsOf(log, type) : i \in Nat /\ i < n /\ new[i] = log[i]
  BY <1>5, <1>6, <1>7 DEF EventsOf
<1>9. Joins(log, e, new, n)
  BY <1>5, <1>8 DEF Joins
<1>10. QED
  BY <1>1, <1>4, <1>9

\* What happened has happened.
LEMMA HappenedStays ==
  ASSUME NEW log, NEW e, NEW new, Appended(log, e, new)
  PROVE  /\ new \in RepairLog
         /\ \A type : Happened(log, type) => Happened(new, type)
         /\ Happened(new, e.type)
<1>1. PICK n : Joins(log, e, new, n)
  BY EventJoins
<1>2. \A type : EventsOf(log, type) \subseteq EventsOf(new, type)
  BY <1>1 DEF Joins
<1>3. \A l, type : Happened(l, type) <=> EventsOf(l, type) # {}
  BY DEF Happened, EventsOf
<1>4. Happened(new, e.type)
  BY <1>1, <1>3 DEF Joins
<1>5. QED
  BY <1>2, <1>3, <1>4, EventJoins

\* A candidate is one more, and not run again yet.
LEMMA CandidateJoins ==
  ASSUME NEW log, NEW e, NEW new, Appended(log, e, new),
         e.type = "PREQUALIFIED"
  PROVE  /\ \A m \in Nat : CandidatesUpTo(log, m) => CandidatesUpTo(new, m + 1)
         /\ RetriedOnce(log) => RetriedOnce(new)
         /\ NotRetried(new)
<1>1. PICK n : Joins(log, e, new, n)
  BY EventJoins
<1>2. /\ n \in Nat
      /\ HandedIn(new) = HandedIn(log) \union {n} /\ n \notin HandedIn(log)
      /\ Retries(new) = Retries(log)
      /\ \A i \in HandedIn(log) \union Retries(log) : i \in Nat /\ i < n
  BY <1>1 DEF Joins, HandedIn, Retries
<1>3. ASSUME NEW m \in Nat, CandidatesUpTo(log, m)
      PROVE  CandidatesUpTo(new, m + 1)
  <2>1. IsFiniteSet(HandedIn(log)) /\ Cardinality(HandedIn(log)) \in Nat
    BY <1>3, FS_CardinalityType DEF CandidatesUpTo
  <2>2. /\ IsFiniteSet(HandedIn(log) \union {n})
        /\ Cardinality(HandedIn(log) \union {n}) = Cardinality(HandedIn(log)) + 1
    BY <1>2, <2>1, FS_AddElement
  <2>3. /\ IsFiniteSet(HandedIn(new))
        /\ Cardinality(HandedIn(new)) = Cardinality(HandedIn(log)) + 1
    BY <1>2, <2>2
  <2>4. Cardinality(HandedIn(log)) <= m
    BY <1>3 DEF CandidatesUpTo
  <2>5. Cardinality(HandedIn(new)) <= m + 1
    BY <2>1, <2>3, <2>4
  <2>6. QED
    BY <2>3, <2>5 DEF CandidatesUpTo
<1>4. ASSUME RetriedOnce(log)
      PROVE  RetriedOnce(new)
  <2> SUFFICES ASSUME NEW i \in HandedIn(new), NEW j \in Retries(new), NEW k \in Retries(new),
                      i < j, ~\E c \in HandedIn(new) : i < c /\ c < j,
                      i < k, ~\E c \in HandedIn(new) : i < c /\ c < k
               PROVE  j = k
    BY DEF RetriedOnce
  <2>1. j \in Retries(log) /\ k \in Retries(log) /\ i \in HandedIn(log)
    BY <1>2
  <2>2. \A c \in HandedIn(log) : c \in HandedIn(new)
    BY <1>2
  <2>3. QED
    BY <1>4, <2>1, <2>2 DEF RetriedOnce
<1>5. NotRetried(new)
  BY <1>2 DEF NotRetried
<1>6. QED
  BY <1>3, <1>4, <1>5

\* A candidate that was not run again may be.
LEMMA RetryJoins ==
  ASSUME NEW log, NEW e, NEW new, Appended(log, e, new),
         e.type = "RETRY_TICKET"
  PROVE  RetriedOnce(log) /\ NotRetried(log) => RetriedOnce(new)
<1> SUFFICES ASSUME RetriedOnce(log), NotRetried(log)
             PROVE  RetriedOnce(new)
  OBVIOUS
<1>1. PICK n : Joins(log, e, new, n)
  BY EventJoins
<1>2. /\ HandedIn(new) = HandedIn(log) /\ Retries(new) = Retries(log) \union {n}
      /\ \A i \in HandedIn(log) \union Retries(log) : i \in Nat /\ i < n
  BY <1>1 DEF Joins, HandedIn, Retries
<1>3. ASSUME NEW i \in HandedIn(log), NEW j \in Retries(log), i < j
      PROVE  \E c \in HandedIn(log) : i < c /\ c < n
  BY <1>2, <1>3 DEF NotRetried
<1>4. QED
  BY <1>2, <1>3 DEF RetriedOnce

\* No other event bears on the candidates and their retries.
LEMMA OthersJoin ==
  ASSUME NEW log, NEW e, NEW new, Appended(log, e, new)
  PROVE  /\ e.type # "PREQUALIFIED" =>
              \A m : CandidatesUpTo(log, m) => CandidatesUpTo(new, m)
         /\ e.type \notin {"PREQUALIFIED", "RETRY_TICKET"} =>
              /\ RetriedOnce(log) => RetriedOnce(new)
              /\ NotRetried(log) => NotRetried(new)
<1>1. PICK n : Joins(log, e, new, n)
  BY EventJoins
<1>2. e.type # "PREQUALIFIED" => HandedIn(new) = HandedIn(log)
  BY <1>1 DEF Joins, HandedIn
<1>3. e.type # "RETRY_TICKET" => Retries(new) = Retries(log)
  BY <1>1 DEF Joins, Retries
<1>4. QED
  BY <1>2, <1>3 DEF CandidatesUpTo, RetriedOnce, NotRetried

\* The last ticket is the one given out last, and a run that passes is after it.
LEMMA TicketsJoin ==
  ASSUME NEW log, NEW e, NEW new, Appended(log, e, new)
  PROVE  /\ e.type = "REPLACEMENT_TICKET" => LastTicketOf(new, e.subject)
         /\ e.type # "REPLACEMENT_TICKET" =>
              /\ \A s : LastTicketOf(log, s) => LastTicketOf(new, s)
              /\ PassedLast(log) => PassedLast(new)
         /\ e.type = "RERUN" /\ e.class = "PASS" /\ LastTicketOf(log, e.subject) => PassedLast(new)
<1>1. PICK n : Joins(log, e, new, n)
  BY EventJoins
<1>2. \A i \in Tickets(log) \union EventsOf(log, "RERUN") : i \in Nat /\ i < n /\ new[i] = log[i]
  BY <1>1 DEF Joins, Tickets
<1>3. CASE e.type = "REPLACEMENT_TICKET"
  <2>1. Tickets(new) = Tickets(log) \union {n}
    BY <1>1, <1>3 DEF Joins, Tickets
  <2>2. LastTicketOf(new, e.subject)
    BY <1>1, <1>2, <2>1 DEF Joins, LastTicketOf
  <2>3. QED
    BY <1>3, <2>2
<1>4. CASE e.type # "REPLACEMENT_TICKET"
  <2>1. Tickets(new) = Tickets(log)
    BY <1>1, <1>4 DEF Joins, Tickets
  <2>2. \A s : LastTicketOf(log, s) => LastTicketOf(new, s)
    BY <1>2, <2>1 DEF LastTicketOf
  <2>3. ASSUME PassedLast(log)
        PROVE  PassedLast(new)
    <3>1. PICK i \in EventsOf(log, "RERUN") :
            /\ log[i].class = "PASS"
            /\ \A j \in Tickets(log) :
                 (\A k \in Tickets(log) : k <= j) => j < i /\ log[j].subject = log[i].subject
      BY <2>3 DEF PassedLast
    <3>2. i \in EventsOf(new, "RERUN")
      BY <1>1 DEF Joins
    <3>3. QED
      BY <1>2, <2>1, <3>1, <3>2 DEF PassedLast
  <2>4. ASSUME e.type = "RERUN", e.class = "PASS", LastTicketOf(log, e.subject)
        PROVE  PassedLast(new)
    <3>1. n \in EventsOf(new, "RERUN")
      BY <1>1, <2>4 DEF Joins
    <3>2. QED
      BY <1>1, <1>2, <2>1, <2>4, <3>1 DEF Joins, PassedLast, LastTicketOf
  <2>5. QED
    BY <1>4, <2>2, <2>3, <2>4
<1>5. QED
  BY <1>3, <1>4

\* Events that are no candidates, retries or tickets change nothing of this.
PlainEvents == {"OPENED", "DISPATCH_READY", "RERUN", "CLOSED", "DEAD_LETTERED"}

LEMMA PlainEventJoins ==
  ASSUME NEW log, NEW e, NEW new, Appended(log, e, new), e.type \in PlainEvents
  PROVE  /\ new \in RepairLog
         /\ \A m : CandidatesUpTo(log, m) => CandidatesUpTo(new, m)
         /\ RetriedOnce(log) => RetriedOnce(new)
         /\ NotRetried(log) => NotRetried(new)
         /\ \A s : LastTicketOf(log, s) => LastTicketOf(new, s)
         /\ PassedLast(log) => PassedLast(new)
<1>1. e.type \notin {"PREQUALIFIED", "RETRY_TICKET", "REPLACEMENT_TICKET"}
  BY DEF PlainEvents
<1>2. new \in RepairLog
  BY HappenedStays
<1>3. QED
  BY <1>1, <1>2, OthersJoin, TicketsJoin

LEMMA EventIsLogged ==
  ASSUME NEW type \in PlainEvents \union {"RETRY_TICKET", "PREQUALIFIED", "REPLACEMENT_TICKET"},
         NEW s \in RepairCommits, NEW class \in Classes
  PROVE  /\ <<Event(type, s, class)>> \in RepairLog
         /\ Event(type, s, class).type = type
         /\ Event(type, s, class).subject = s
         /\ Event(type, s, class).class = class
BY DEF Event, RepairLog, PlainEvents

\* Two events come one after the other.
LEMMA TwoIsOneAndOne ==
  ASSUME NEW S, NEW e \in S, NEW f \in S
  PROVE  <<e, f>> = <<e>> \o <<f>>
<1>1. PICK one : one = <<e>> \o <<f>>
  OBVIOUS
<1>2. PICK two : two = <<e, f>>
  OBVIOUS
<1>3. one \in Seq(S) /\ Len(one) = 2 /\ one[1] = e /\ one[2] = f
  BY <1>1
<1>4. two \in Seq(S) /\ Len(two) = 2 /\ two[1] = e /\ two[2] = f
  BY <1>2
<1>5. \A i \in 1 .. Len(one) : one[i] = two[i]
  BY <1>3, <1>4
<1>6. one = two
  BY <1>3, <1>4, <1>5, SeqEqual
<1>7. QED
  BY <1>1, <1>2, <1>6

LEMMA TwoAppended ==
  ASSUME NEW S, NEW log \in Seq(S), NEW e, NEW f, <<e>> \in Seq(S), <<f>> \in Seq(S)
  PROVE  log \o <<e, f>> = (log \o <<e>>) \o <<f>>
<1>1. e \in S /\ f \in S
  OBVIOUS
<1>2. <<e, f>> = <<e>> \o <<f>>
  BY <1>1, TwoIsOneAndOne
<1>3. QED
  BY <1>2, ConcatAssociative

LEMMA EventsFollow ==
  ASSUME NEW log \in RepairLog, NEW e, NEW f, <<e>> \in RepairLog, <<f>> \in RepairLog
  PROVE  log \o <<e, f>> = (log \o <<e>>) \o <<f>>
<1>1. PICK S : RepairLog = Seq(S)
  BY DEF RepairLog
<1>2. QED
  BY <1>1, TwoAppended

\* A log without events.
LEMMA EmptyLog ==
  /\ << >> \in RepairLog /\ CandidatesUpTo(<< >>, 0)
  /\ RetriedOnce(<< >>) /\ NotRetried(<< >>) /\ \A s : LastTicketOf(<< >>, s)
<1>1. \A type : EventsOf(<< >>, type) = {}
  BY DEF EventsOf
<1>2. << >> \in RepairLog
  BY DEF RepairLog
<1>3. IsFiniteSet({}) /\ Cardinality({}) = 0
  BY FS_EmptySet
<1>4. HandedIn(<< >>) = {} /\ Tickets(<< >>) = {}
  BY <1>1 DEF HandedIn, Tickets
<1>5. CandidatesUpTo(<< >>, 0)
  <2>1. IsFiniteSet(HandedIn(<< >>)) /\ Cardinality(HandedIn(<< >>)) = 0
    BY <1>3, <1>4
  <2>2. QED
    BY <2>1 DEF CandidatesUpTo
<1>6. RetriedOnce(<< >>) /\ NotRetried(<< >>) /\ \A s : LastTicketOf(<< >>, s)
  BY <1>4 DEF RetriedOnce, NotRetried, LastTicketOf
<1>7. QED
  BY <1>2, <1>5, <1>6

-----------------------------------------------------------------------------
(* Repair: the files of a transaction, and the names that are still free.  *)

LEMMA WrittenFile ==
  ASSUME NEW own, NEW name, NEW s, NEW new, new = Written(own, name, s)
  PROVE  /\ DOMAIN new = DOMAIN own \union {name}
         /\ FileNames(name, s, new)
         /\ name \notin DOMAIN own => \A x \in DOMAIN own : FileNames(x, own[x], new)
BY DEF Written, FileNames

\* After n attempts: candidates up to c have tickets, dispatches are up to the next attempt,
\* and retries are before the one numbered r of the next candidate.
FilesBefore(own, n, c, r) ==
  /\ \A m \in Nat : <<"REPLACEMENT", m>> \in DOMAIN own => m <= c
  /\ \A m \in Nat : <<"DISPATCH", m>> \in DOMAIN own => m <= n + 1
  /\ \A m, k \in Nat : <<"RETRY", m, k>> \in DOMAIN own => m < n + 1 \/ (m = n + 1 /\ k < r)

LEMMA NamesDiffer ==
  /\ \A m, n : <<"REPLACEMENT", m>> # <<"DISPATCH", n>>
  /\ \A m, n, k : <<"REPLACEMENT", m>> # <<"RETRY", n, k>> /\ <<"DISPATCH", m>> # <<"RETRY", n, k>>
  /\ \A m, n : <<"REPLACEMENT", m>> = <<"REPLACEMENT", n>> => m = n
  /\ \A m, n : <<"DISPATCH", m>> = <<"DISPATCH", n>> => m = n
  /\ \A m, n, k, l : <<"RETRY", m, k>> = <<"RETRY", n, l>> => m = n /\ k = l
OBVIOUS

LEMMA DispatchIsNew ==
  ASSUME NEW own, NEW n \in Nat, NEW r \in Nat, NEW s, FilesBefore(own, n, n + 1, r),
         NEW new, new = Written(own, <<"DISPATCH", n + 2>>, s)
  PROVE  <<"DISPATCH", n + 2>> \notin DOMAIN own /\ FilesBefore(new, n + 1, n + 1, 0)
<1>1. <<"DISPATCH", n + 2>> \notin DOMAIN own
  BY DEF FilesBefore
<1>2. DOMAIN new = DOMAIN own \union {<<"DISPATCH", n + 2>>}
  BY WrittenFile
<1>3. QED
  BY <1>1, <1>2, NamesDiffer DEF FilesBefore

LEMMA ReplacementIsNew ==
  ASSUME NEW own, NEW n \in Nat, NEW s, FilesBefore(own, n, n, 0),
         NEW new, new = Written(own, <<"REPLACEMENT", n + 1>>, s)
  PROVE  <<"REPLACEMENT", n + 1>> \notin DOMAIN own /\ FilesBefore(new, n, n + 1, 1)
<1>1. <<"REPLACEMENT", n + 1>> \notin DOMAIN own
  BY DEF FilesBefore
<1>2. DOMAIN new = DOMAIN own \union {<<"REPLACEMENT", n + 1>>}
  BY WrittenFile
<1>3. QED
  BY <1>1, <1>2, NamesDiffer DEF FilesBefore

LEMMA RetryIsNew ==
  ASSUME NEW own, NEW n \in Nat, NEW r \in Nat, NEW s, FilesBefore(own, n, n + 1, r),
         NEW new, new = Written(own, <<"RETRY", n + 1, r>>, s)
  PROVE  <<"RETRY", n + 1, r>> \notin DOMAIN own /\ FilesBefore(new, n, n + 1, r + 1)
<1>1. <<"RETRY", n + 1, r>> \notin DOMAIN own
  BY DEF FilesBefore
<1>2. DOMAIN new = DOMAIN own \union {<<"RETRY", n + 1, r>>}
  BY WrittenFile
<1>3. QED
  BY <1>1, <1>2, NamesDiffer DEF FilesBefore

-----------------------------------------------------------------------------
(* Repair: a transaction, its log and its files.                           *)

\* The attempts that candidates were taken for, the one under way among them.
Spent(t) == IF t.cand # 0 THEN t.cand ELSE t.attempt

Sound(t, log, own) ==
  /\ t \in Transactions
  /\ CandidatesUpTo(log, Spent(t)) /\ Spent(t) <= t.max
  /\ Rerunnable(t) =>
       /\ t.attempt < t.max /\ t.cand \in {0, t.attempt + 1}
       /\ LastTicketOf(log, Subject(t))
       /\ t.retries = 0 => NotRetried(log)
       /\ FilesBefore(own, t.attempt, t.attempt + 1, t.retries + 1)
  /\ t.state = "REPAIR_REQUEST_READY" =>
       t.cand = 0 /\ FilesBefore(own, t.attempt, t.attempt, 0)
  /\ t.state = "CLOSED" => PassedLast(log)

TransactionInv(t, log, own) ==
  /\ log \in RepairLog /\ RetriedOnce(log)
  /\ t = Nil => log = << >> /\ DOMAIN own = {}
  /\ t # Nil => Sound(t, log, own)

FilesStay(own, new) == \A x \in DOMAIN own : FileNames(x, own[x], new)

\* The subject of a transaction is a commit.
LEMMA SubjectIsCommit ==
  ASSUME NEW t \in Transactions
  PROVE  Subject(t) \in RepairCommits /\ RepairBase(t) \in RepairCommits
BY RepairAssumption DEF Transactions, Subject, RepairBase, Either

\* What a transaction moves to after a result.
LEMMA WaitingTable ==
  /\ DOMAIN Waiting = {"CONTROL_PLANE_OWNER_ROUTE", "NON_AUTOMATABLE", "ADMISSION_ONLY",
                       "DEPENDENCY_ONLY"}
  /\ \A class \in DOMAIN Waiting :
       /\ Waiting[class][1] \in {"OWNER_ACTION_REQUIRED", "OWNER_AUTHORITY_REQUIRED",
                                 "REPLAN_ADMISSION", "WAIT_FOR_PREDECESSOR"}
       /\ Waiting[class][2] \in {"CORE", "PRODUCT", "SHARED"}
BY DEF Waiting

LEMMA AfterTable ==
  ASSUME NEW t, NEW class \in Classes
  PROVE  /\ class = "PASS" => After(t, class) = [Archived(t, "CLOSED") EXCEPT !.class = class]
         /\ class = "REPAIRABLE_SUBJECT" => After(t, class) = SubjectFailed(t)
         /\ class = "RETRYABLE_INFRA" => After(t, class) = InfraFailed(t)
         /\ class \in DOMAIN Waiting =>
              After(t, class) = [t EXCEPT !.state = Waiting[class][1], !.class = class]
         /\ class = "UNKNOWN" =>
              After(t, class) = [Archived(t, "DEAD_LETTER") EXCEPT !.class = "UNKNOWN"]
<1>1. CASE class = "PASS"
  BY <1>1, WaitingTable DEF After
<1>2. CASE class = "REPAIRABLE_SUBJECT"
  BY <1>2, WaitingTable DEF After
<1>3. CASE class = "RETRYABLE_INFRA"
  BY <1>3, WaitingTable DEF After
<1>4. CASE class \in DOMAIN Waiting
  BY <1>4, WaitingTable DEF After
<1>5. CASE class = "UNKNOWN"
  BY <1>5, WaitingTable DEF After
<1>6. QED
  BY <1>1, <1>2, <1>3, <1>4, <1>5, WaitingTable DEF Classes

\* A transaction that no result and no worker moves on from: it is closed, out of budget, or
\* waits for its owner.
LEMMA Rests ==
  ASSUME NEW t \in Transactions, NEW log, NEW own, NEW u \in Transactions, NEW new, NEW files,
         Sound(t, log, own),
         u.attempt = t.attempt, u.cand = t.cand, u.max = t.max,
         \A m : CandidatesUpTo(log, m) => CandidatesUpTo(new, m),
         ~Rerunnable(u), u.state # "REPAIR_REQUEST_READY",
         u.state = "CLOSED" => PassedLast(new)
  PROVE  Sound(u, new, files)
<1>1. Spent(u) = Spent(t)
  BY DEF Spent
<1>2. CandidatesUpTo(log, Spent(t)) /\ Spent(t) <= t.max
  BY DEF Sound
<1>3. QED
  BY <1>1, <1>2 DEF Sound

-----------------------------------------------------------------------------
(* Repair: the result of a run, adjudicated.                               *)

\* The run itself, recorded.
Recorded(t, class, log, rerun) == Appended(log, Event("RERUN", Subject(t), class), rerun)

\* It is of the subject of the last ticket.
LEMMA RunIsRecorded ==
  ASSUME NEW t \in Transactions, NEW class \in Classes, NEW log, NEW own, NEW rerun,
         Sound(t, log, own), Rerunnable(t), Recorded(t, class, log, rerun)
  PROVE  /\ rerun \in RepairLog
         /\ \A m : CandidatesUpTo(log, m) => CandidatesUpTo(rerun, m)
         /\ RetriedOnce(log) => RetriedOnce(rerun)
         /\ t.retries = 0 => NotRetried(rerun)
         /\ LastTicketOf(rerun, Subject(t))
         /\ class = "PASS" => PassedLast(rerun)
<1>1. PICK e : e = Event("RERUN", Subject(t), class)
  OBVIOUS
<1>2. e.type = "RERUN" /\ e.subject = Subject(t) /\ e.class = class /\ Appended(log, e, rerun)
  BY <1>1 DEF Recorded, Event
<1>3. LastTicketOf(log, Subject(t)) /\ (t.retries = 0 => NotRetried(log))
  BY DEF Sound
<1>4. e.type \in PlainEvents
  BY <1>2 DEF PlainEvents
<1>5. /\ rerun \in RepairLog
      /\ \A m : CandidatesUpTo(log, m) => CandidatesUpTo(rerun, m)
      /\ RetriedOnce(log) => RetriedOnce(rerun)
      /\ NotRetried(log) => NotRetried(rerun)
      /\ \A s : LastTicketOf(log, s) => LastTicketOf(rerun, s)
  BY <1>2, <1>4, PlainEventJoins
<1>6. class = "PASS" => PassedLast(rerun)
  BY <1>2, <1>3, TicketsJoin
<1>7. QED
  BY <1>3, <1>5, <1>6

\* A pass, a failure that waits for its owner, and one that nobody can read.
LEMMA OthersAreSound ==
  ASSUME NEW t \in Transactions, NEW class \in Classes, NEW log, NEW own, NEW rerun, NEW new,
         NEW u, NEW files,
         Sound(t, log, own), Rerunnable(t), RetriedOnce(log), Recorded(t, class, log, rerun),
         class \notin {"REPAIRABLE_SUBJECT", "RETRYABLE_INFRA"},
         u = After(t, class), u.state = "CLOSED" \/ u.state = "DEAD_LETTER" \/ new = rerun,
         u.state = "CLOSED" => Appended(rerun, Event("CLOSED", Subject(t), class), new),
         u.state = "DEAD_LETTER" => Appended(rerun, Event("DEAD_LETTERED", Subject(t), class), new)
  PROVE  Sound(u, new, files) /\ new \in RepairLog /\ RetriedOnce(new)
<1>1. /\ rerun \in RepairLog
      /\ \A m : CandidatesUpTo(log, m) => CandidatesUpTo(rerun, m)
      /\ RetriedOnce(rerun)
      /\ class = "PASS" => PassedLast(rerun)
  BY RunIsRecorded
<1>2. /\ u \in Transactions /\ u.attempt = t.attempt /\ u.cand = t.cand /\ u.max = t.max
      /\ ~Rerunnable(u) /\ u.state # "REPAIR_REQUEST_READY"
      /\ u.state = "CLOSED" => class = "PASS"
  <2>1. CASE class = "PASS"
    <3>1. u = [[t EXCEPT !.place = "HISTORY", !.state = "CLOSED"] EXCEPT !.class = class]
      BY <2>1, AfterTable DEF Archived
    <3>2. PICK v : v = [t EXCEPT !.place = "HISTORY", !.state = "CLOSED"]
      OBVIOUS
    <3>3. v \in Transactions /\ v.attempt = t.attempt /\ v.cand = t.cand /\ v.max = t.max
          /\ v.state = "CLOSED"
      BY <3>2 DEF Transactions
    <3>4. u \in Transactions /\ u.attempt = v.attempt /\ u.cand = v.cand /\ u.max = v.max
          /\ u.state = v.state
      BY <3>1, <3>2, <3>3 DEF Transactions
    <3>5. QED
      BY <2>1, <3>3, <3>4 DEF Rerunnable
  <2>2. CASE class = "UNKNOWN"
    <3>1. u = [[t EXCEPT !.place = "HISTORY", !.state = "DEAD_LETTER"] EXCEPT !.class = "UNKNOWN"]
      BY <2>2, AfterTable DEF Archived
    <3>2. PICK v : v = [t EXCEPT !.place = "HISTORY", !.state = "DEAD_LETTER"]
      OBVIOUS
    <3>3. v \in Transactions /\ v.attempt = t.attempt /\ v.cand = t.cand /\ v.max = t.max
          /\ v.state = "DEAD_LETTER"
      BY <3>2 DEF Transactions
    <3>4. "UNKNOWN" \in Classes /\ u = [v EXCEPT !.class = "UNKNOWN"]
      BY <3>1, <3>2 DEF Classes
    <3>5. u \in Transactions /\ u.attempt = v.attempt /\ u.cand = v.cand /\ u.max = v.max
          /\ u.state = v.state
      BY <3>3, <3>4 DEF Transactions
    <3>6. QED
      BY <3>3, <3>5 DEF Rerunnable
  <2>3. CASE class \in DOMAIN Waiting
    <3>1. PICK state \in {"OWNER_ACTION_REQUIRED", "OWNER_AUTHORITY_REQUIRED",
                          "REPLAN_ADMISSION", "WAIT_FOR_PREDECESSOR"} :
            u = [t EXCEPT !.state = state, !.class = class]
      BY <2>3, AfterTable, WaitingTable
    <3>2. u \in Transactions /\ u.attempt = t.attempt /\ u.cand = t.cand /\ u.max = t.max
          /\ u.state = state
      BY <3>1 DEF Transactions
    <3>3. QED
      BY <3>2 DEF Rerunnable
  <2>4. QED
    BY <2>1, <2>2, <2>3, WaitingTable DEF Classes
<1>3. /\ new \in RepairLog
      /\ \A m : CandidatesUpTo(rerun, m) => CandidatesUpTo(new, m)
      /\ RetriedOnce(new)
      /\ PassedLast(rerun) => PassedLast(new)
  <2>1. ASSUME NEW type \in {"CLOSED", "DEAD_LETTERED"},
               Appended(rerun, Event(type, Subject(t), class), new)
        PROVE  /\ new \in RepairLog
               /\ \A m : CandidatesUpTo(rerun, m) => CandidatesUpTo(new, m)
               /\ RetriedOnce(rerun) => RetriedOnce(new)
               /\ PassedLast(rerun) => PassedLast(new)
    <3>1. PICK e : e = Event(type, Subject(t), class)
      OBVIOUS
    <3>2. e.type \in PlainEvents /\ Appended(rerun, e, new)
      BY <2>1, <3>1 DEF Event, PlainEvents
    <3>3. QED
      BY <3>2, PlainEventJoins
  <2>2. QED
    BY <1>1, <2>1
<1>4. QED
  BY <1>1, <1>2, <1>3, Rests

\* The infrastructure failed: the candidate is run again if it was not before.
LEMMA InfraFailedIsSound ==
  ASSUME NEW t \in Transactions, NEW class \in Classes, NEW log, NEW own, NEW rerun, NEW new,
         NEW u, NEW files,
         Sound(t, log, own), Rerunnable(t), RetriedOnce(log), Recorded(t, class, log, rerun),
         class = "RETRYABLE_INFRA", u = InfraFailed(t),
         u.state = "DEAD_LETTER" => Appended(rerun, Event("DEAD_LETTERED", Subject(t), class), new),
         u.state # "DEAD_LETTER" =>
           /\ Appended(rerun, Event("RETRY_TICKET", Subject(t), class), new)
           /\ files = Written(own, RetryName(u), Subject(t)),
         u.state = "DEAD_LETTER" => files = own
  PROVE  /\ Sound(u, new, files) /\ new \in RepairLog /\ RetriedOnce(new)
         /\ FilesStay(own, files)
<1>1. /\ rerun \in RepairLog
      /\ \A m : CandidatesUpTo(log, m) => CandidatesUpTo(rerun, m)
      /\ RetriedOnce(rerun)
      /\ t.retries = 0 => NotRetried(rerun)
      /\ LastTicketOf(rerun, Subject(t))
  BY RunIsRecorded
<1>2. PICK v : v = [t EXCEPT !.retries = t.retries + 1, !.class = "RETRYABLE_INFRA"]
  OBVIOUS
<1>3. t.retries \in Nat /\ t.retries + 1 \in Nat /\ t.attempt \in Nat
  BY DEF Transactions
<1>4. v \in Transactions /\ v.attempt = t.attempt /\ v.cand = t.cand /\ v.max = t.max
      /\ v.retries = t.retries + 1 /\ v.base = t.base /\ v.repl = t.repl /\ v.root = t.root
      /\ v.place = t.place
  BY <1>2, <1>3 DEF Transactions
<1>5. /\ t.attempt < t.max /\ t.cand \in {0, t.attempt + 1} /\ t.place = "ACTIVE"
      /\ FilesBefore(own, t.attempt, t.attempt + 1, t.retries + 1)
      /\ CandidatesUpTo(log, Spent(t)) /\ Spent(t) <= t.max
  BY DEF Sound, Rerunnable, Active
<1>6. CASE RetriesSpent(v.retries)
  <2>1. u = [v EXCEPT !.place = "HISTORY", !.state = "DEAD_LETTER"]
    BY <1>2, <1>6 DEF InfraFailed, Archived
  <2>2. u \in Transactions /\ u.attempt = v.attempt /\ u.cand = v.cand /\ u.max = v.max
        /\ u.state = "DEAD_LETTER"
    BY <1>4, <2>1 DEF Transactions
  <2>3. PICK e : e = Event("DEAD_LETTERED", Subject(t), class)
    OBVIOUS
  <2>4. e.type \in PlainEvents /\ Appended(rerun, e, new)
    BY <2>2, <2>3 DEF Event, PlainEvents
  <2>5. /\ new \in RepairLog /\ RetriedOnce(new)
        /\ \A m : CandidatesUpTo(rerun, m) => CandidatesUpTo(new, m)
    BY <1>1, <2>4, PlainEventJoins
  <2>6. ~Rerunnable(u) /\ u.state # "REPAIR_REQUEST_READY" /\ u.state # "CLOSED"
    BY <2>2 DEF Rerunnable
  <2>7. \A m : CandidatesUpTo(log, m) => CandidatesUpTo(new, m)
    BY <1>1, <2>5
  <2>8. Sound(u, new, files)
    BY <1>4, <2>2, <2>6, <2>7, Rests
  <2>9. \A x \in DOMAIN own : FileNames(x, own[x], own)
    BY DEF FileNames
  <2>10. FilesStay(own, files)
    BY <2>2, <2>9 DEF FilesStay
  <2>11. QED
    BY <2>5, <2>8, <2>10
<1>7. CASE ~RetriesSpent(v.retries)
  <2>1. t.retries = 0
    BY <1>3, <1>4, <1>7 DEF RetriesSpent, MaxSameShaRetries
  <2>2. u = [v EXCEPT !.state = "RETRY_REQUEST_READY", !.retryTicket = RetryName(v)]
    BY <1>2, <1>7 DEF InfraFailed
  <2>3. CandidateOf(v) = t.attempt + 1 /\ RetryName(v) = <<"RETRY", t.attempt + 1, 1>>
    <3>1. CandidateOf(v) = t.attempt + 1
      BY <1>3, <1>4, <1>5 DEF CandidateOf
    <3>2. v.retries = 1
      BY <1>4, <2>1
    <3>3. QED
      BY <3>1, <3>2 DEF RetryName
  <2>4. RetryName(v) \in Names
    BY <1>3, <2>3 DEF Names
  <2>5. /\ u \in Transactions /\ u.attempt = v.attempt /\ u.cand = v.cand /\ u.max = v.max
        /\ u.retries = v.retries /\ u.base = v.base /\ u.repl = v.repl /\ u.root = v.root
        /\ u.place = v.place /\ u.state = "RETRY_REQUEST_READY"
    BY <1>4, <2>2, <2>4 DEF Transactions
  <2>6. Subject(u) = Subject(t)
    BY <1>4, <2>5 DEF Subject, RepairBase, Either
  <2>7. RetryName(u) = <<"RETRY", t.attempt + 1, 1>>
    BY <2>3, <2>5 DEF RetryName, CandidateOf
  <2>8. PICK e : e = Event("RETRY_TICKET", Subject(t), class)
    OBVIOUS
  <2>9. e.type = "RETRY_TICKET" /\ Appended(rerun, e, new)
    BY <2>5, <2>8 DEF Event
  <2>10. /\ new \in RepairLog /\ RetriedOnce(new)
         /\ \A m : CandidatesUpTo(rerun, m) => CandidatesUpTo(new, m)
         /\ \A s : LastTicketOf(rerun, s) => LastTicketOf(new, s)
    BY <1>1, <2>1, <2>9, HappenedStays, RetryJoins, OthersJoin, TicketsJoin
  <2>11. FilesBefore(own, t.attempt, t.attempt + 1, 1)
    BY <1>5, <2>1
  <2>12. files = Written(own, <<"RETRY", t.attempt + 1, 1>>, Subject(t))
    BY <2>5, <2>7
  <2>13. /\ <<"RETRY", t.attempt + 1, 1>> \notin DOMAIN own
         /\ FilesBefore(files, t.attempt, t.attempt + 1, 1 + 1)
    BY <1>3, <2>11, <2>12, RetryIsNew
  <2>14. FilesStay(own, files)
    BY <2>12, <2>13, WrittenFile DEF FilesStay
  <2>15. FilesBefore(files, u.attempt, u.attempt + 1, u.retries + 1)
    <3>1. u.attempt = t.attempt /\ u.retries = 1
      BY <1>4, <2>1, <2>5
    <3>2. QED
      BY <2>13, <3>1
  <2>16. CandidatesUpTo(new, Spent(u)) /\ Spent(u) <= u.max
    <3>1. Spent(u) = Spent(t) /\ u.max = t.max
      BY <1>4, <2>5 DEF Spent
    <3>2. QED
      BY <1>1, <1>5, <2>10, <3>1
  <2>17. u.attempt < u.max /\ u.cand \in {0, u.attempt + 1} /\ u.retries # 0
    BY <1>3, <1>4, <1>5, <2>5
  <2>18. LastTicketOf(new, Subject(u))
    BY <1>1, <2>6, <2>10
  <2>19. Sound(u, new, files)
    BY <2>5, <2>15, <2>16, <2>17, <2>18 DEF Sound
  <2>20. QED
    BY <2>10, <2>14, <2>19
<1>8. QED
  BY <1>6, <1>7

\* The subject failed: its attempt is used up, and the next candidate is the one after it.
LEMMA SubjectFailedIsSound ==
  ASSUME NEW t \in Transactions, NEW class \in Classes, NEW log, NEW own, NEW rerun, NEW new,
         NEW u, NEW files,
         Sound(t, log, own), Rerunnable(t), RetriedOnce(log), Recorded(t, class, log, rerun),
         u = SubjectFailed(t),
         u.state = "DEAD_LETTER" => Appended(rerun, Event("DEAD_LETTERED", Subject(t), class), new),
         u.state # "DEAD_LETTER" =>
           /\ Appended(rerun, Event("DISPATCH_READY", Subject(t), class), new)
           /\ files = Written(own, DispatchName(u), Subject(t)),
         u.state = "DEAD_LETTER" => files = own
  PROVE  /\ Sound(u, new, files) /\ new \in RepairLog /\ RetriedOnce(new)
         /\ FilesStay(own, files)
<1>1. /\ rerun \in RepairLog
      /\ \A m : CandidatesUpTo(log, m) => CandidatesUpTo(rerun, m)
      /\ RetriedOnce(rerun)
  BY RunIsRecorded
<1>2. t.attempt \in Nat /\ t.attempt + 1 \in Nat /\ t.retries \in Nat
  BY DEF Transactions
<1>3. /\ t.attempt < t.max /\ t.cand \in {0, t.attempt + 1}
      /\ FilesBefore(own, t.attempt, t.attempt + 1, t.retries + 1)
      /\ CandidatesUpTo(log, Spent(t)) /\ Spent(t) <= t.max
  BY DEF Sound
<1>4. Consumed(t) = t.attempt + 1
  BY <1>2, <1>3 DEF Consumed, CandidateOf
<1>5. Subject(t) \in RepairCommits
  BY SubjectIsCommit
<1>6. PICK v : v = [t EXCEPT !.attempt = Consumed(t), !.base = Subject(t), !.repl = Nil,
                             !.cand = 0, !.retries = 0, !.ticket = Nil, !.retryTicket = Nil,
                             !.class = "REPAIRABLE_SUBJECT"]
  OBVIOUS
<1>7. /\ v \in Transactions /\ v.attempt = t.attempt + 1 /\ v.cand = 0 /\ v.max = t.max
  BY <1>2, <1>4, <1>5, <1>6 DEF Transactions, Classes
<1>8. CandidatesUpTo(rerun, t.attempt + 1) /\ v.attempt <= v.max
  <2>1. /\ IsFiniteSet(HandedIn(rerun)) /\ Cardinality(HandedIn(rerun)) <= Spent(t)
    BY <1>1, <1>3 DEF CandidatesUpTo
  <2>2. Spent(t) \in Nat /\ Spent(t) <= t.attempt + 1 /\ t.max \in Nat
    BY <1>2, <1>3 DEF Spent, Transactions
  <2>3. Cardinality(HandedIn(rerun)) \in Nat
    BY <2>1, FS_CardinalityType
  <2>4. QED
    BY <1>2, <1>3, <1>7, <2>1, <2>2, <2>3 DEF CandidatesUpTo
<1>9. CASE v.attempt >= v.max
  <2>1. u = [v EXCEPT !.place = "HISTORY", !.state = "DEAD_LETTER"]
    BY <1>6, <1>9 DEF SubjectFailed, Archived
  <2>2. u \in Transactions /\ u.attempt = v.attempt /\ u.cand = v.cand /\ u.max = v.max
        /\ u.state = "DEAD_LETTER"
    BY <1>7, <2>1 DEF Transactions
  <2>3. PICK e : e = Event("DEAD_LETTERED", Subject(t), class)
    OBVIOUS
  <2>4. e.type \in PlainEvents /\ Appended(rerun, e, new)
    BY <2>2, <2>3 DEF Event, PlainEvents
  <2>5. /\ new \in RepairLog /\ RetriedOnce(new)
        /\ \A m : CandidatesUpTo(rerun, m) => CandidatesUpTo(new, m)
    BY <1>1, <2>4, PlainEventJoins
  <2>6. ~Rerunnable(u) /\ u.state # "REPAIR_REQUEST_READY" /\ u.state # "CLOSED"
    BY <2>2 DEF Rerunnable
  <2>7. Spent(u) = t.attempt + 1 /\ Spent(u) <= u.max
    BY <1>7, <1>8, <2>2 DEF Spent
  <2>8. Sound(u, new, files)
    BY <1>8, <2>2, <2>5, <2>6, <2>7 DEF Sound
  <2>9. \A x \in DOMAIN own : FileNames(x, own[x], own)
    BY DEF FileNames
  <2>10. FilesStay(own, files)
    BY <2>2, <2>9 DEF FilesStay
  <2>11. QED
    BY <2>5, <2>8, <2>10
<1>10. CASE ~(v.attempt >= v.max)
  <2>1. u = [v EXCEPT !.state = "REPAIR_REQUEST_READY"]
    BY <1>6, <1>10 DEF SubjectFailed
  <2>2. u \in Transactions /\ u.attempt = v.attempt /\ u.cand = v.cand /\ u.max = v.max
        /\ u.state = "REPAIR_REQUEST_READY"
    BY <1>7, <2>1 DEF Transactions
  <2>3. PICK e : e = Event("DISPATCH_READY", Subject(t), class)
    OBVIOUS
  <2>4. e.type \in PlainEvents /\ Appended(rerun, e, new)
    BY <2>2, <2>3 DEF Event, PlainEvents
  <2>5. /\ new \in RepairLog /\ RetriedOnce(new)
        /\ \A m : CandidatesUpTo(rerun, m) => CandidatesUpTo(new, m)
    BY <1>1, <2>4, PlainEventJoins
  <2>6. DispatchName(u) = <<"DISPATCH", t.attempt + 2>>
    BY <1>2, <1>7, <2>2 DEF DispatchName
  <2>7. files = Written(own, <<"DISPATCH", t.attempt + 2>>, Subject(t))
    BY <2>2, <2>6
  <2>8. /\ <<"DISPATCH", t.attempt + 2>> \notin DOMAIN own
        /\ FilesBefore(files, t.attempt + 1, t.attempt + 1, 0)
    BY <1>2, <1>3, <2>7, DispatchIsNew
  <2>9. FilesStay(own, files)
    BY <2>7, <2>8, WrittenFile DEF FilesStay
  <2>10. u.cand = 0 /\ FilesBefore(files, u.attempt, u.attempt, 0) /\ Spent(u) = t.attempt + 1
    BY <1>7, <2>2, <2>8 DEF Spent
  <2>11. ~Rerunnable(u) /\ u.state # "CLOSED"
    BY <2>2 DEF Rerunnable
  <2>12. Spent(u) <= u.max /\ CandidatesUpTo(new, Spent(u))
    BY <1>7, <1>8, <2>2, <2>5, <2>10
  <2>13. Sound(u, new, files)
    BY <2>2, <2>10, <2>11, <2>12 DEF Sound
  <2>14. QED
    BY <2>5, <2>9, <2>13
<1>11. QED
  BY <1>9, <1>10

-----------------------------------------------------------------------------
(* Repair: a transaction is opened, and a changed subject handed in.       *)

LEMMA OpenedAs ==
  ASSUME NEW class, NEW max
  PROVE  \/ class = "REPAIRABLE_SUBJECT" /\ max > 0
              /\ Opened(class, max) = <<"REPAIR_REQUEST_READY", "PRODUCT">>
         \/ class = "RETRYABLE_INFRA" /\ max > 0
              /\ Opened(class, max) = <<"RETRY_REQUEST_READY", "SHARED">>
         \/ class \in DOMAIN Waiting /\ Opened(class, max) = Waiting[class]
         \/ Opened(class, max) = <<"DEAD_LETTER", "SHARED">>
<1>1. CASE class = "REPAIRABLE_SUBJECT" /\ max > 0
  <2>1. Opened(class, max) = <<"REPAIR_REQUEST_READY", "PRODUCT">>
    BY <1>1, WaitingTable DEF Opened
  <2>2. QED
    BY <1>1, <2>1
<1>2. CASE class = "RETRYABLE_INFRA" /\ max > 0
  <2>1. Opened(class, max) = <<"RETRY_REQUEST_READY", "SHARED">>
    BY <1>2, WaitingTable DEF Opened
  <2>2. QED
    BY <1>2, <2>1
<1>3. CASE class \in DOMAIN Waiting
  <2>1. Opened(class, max) = Waiting[class]
    BY <1>3, WaitingTable DEF Opened
  <2>2. QED
    BY <1>3, <2>1
<1>4. CASE /\ ~(class = "REPAIRABLE_SUBJECT" /\ max > 0)
           /\ ~(class = "RETRYABLE_INFRA" /\ max > 0) /\ class \notin DOMAIN Waiting
  <2>1. Opened(class, max) = <<"DEAD_LETTER", "SHARED">>
    BY <1>4 DEF Opened
  <2>2. QED
    BY <2>1
<1>5. QED
  BY <1>1, <1>2, <1>3, <1>4

\* A transaction as it is opened, with its log and its files.
OpenedTransaction(class, max, ticket) ==
  [place |-> IF Opened(class, max)[1] = "DEAD_LETTER" THEN "HISTORY" ELSE "ACTIVE",
   state |-> Opened(class, max)[1], owner |-> Opened(class, max)[2], class |-> class, root |-> Root,
   base |-> Nil, repl |-> Nil, attempt |-> 0, cand |-> 0, max |-> max,
   retries |-> 0, ticket |-> Nil, retryTicket |-> ticket]

OpeningLog(class, state) ==
  <<Event("OPENED", Root, class)>> \o
  CASE state = "REPAIR_REQUEST_READY" -> <<Event("DISPATCH_READY", Root, class)>>
    [] state = "RETRY_REQUEST_READY" -> <<Event("RETRY_TICKET", Root, class)>>
    [] OTHER -> << >>

LEMMA OpeningLogs ==
  ASSUME NEW class \in Classes, NEW state
  PROVE  /\ OpeningLog(class, state) \in RepairLog /\ RetriedOnce(OpeningLog(class, state))
         /\ CandidatesUpTo(OpeningLog(class, state), 0)
         /\ NotRetried(OpeningLog(class, state))
         /\ \A s : LastTicketOf(OpeningLog(class, state), s)
         /\ Happened(OpeningLog(class, state), "OPENED")
         /\ state = "REPAIR_REQUEST_READY" => Happened(OpeningLog(class, state), "DISPATCH_READY")
         /\ state = "RETRY_REQUEST_READY" => Happened(OpeningLog(class, state), "RETRY_TICKET")
<1>1. PICK e : e = Event("OPENED", Root, class)
  OBVIOUS
<1>2. PICK log : log = <<e>>
  OBVIOUS
<1>3. Root \in RepairCommits
  BY DEF RepairCommits
<1>4. e.type = "OPENED" /\ e.type \in PlainEvents /\ Appended(<< >>, e, log)
  <2>1. "OPENED" \in PlainEvents
    BY DEF PlainEvents
  <2>2. <<e>> \in RepairLog /\ e.type = "OPENED"
    BY <1>1, <1>3, <2>1, EventIsLogged
  <2>3. << >> \o <<e>> = <<e>>
    OBVIOUS
  <2>4. QED
    BY <1>2, <2>1, <2>2, <2>3, EmptyLog DEF Appended
<1>5. /\ log \in RepairLog /\ RetriedOnce(log) /\ CandidatesUpTo(log, 0) /\ NotRetried(log)
      /\ \A s : LastTicketOf(log, s)
      /\ Happened(log, "OPENED")
  BY <1>4, PlainEventJoins, HappenedStays, EmptyLog
<1>6. CASE state = "REPAIR_REQUEST_READY"
  <2>1. PICK f : f = Event("DISPATCH_READY", Root, class)
    OBVIOUS
  <2>2. "DISPATCH_READY" \in PlainEvents
    BY DEF PlainEvents
  <2>3. <<f>> \in RepairLog /\ f.type = "DISPATCH_READY"
    BY <1>3, <2>1, <2>2, EventIsLogged
  <2>4. PICK new : new = log \o <<f>>
    OBVIOUS
  <2>5. OpeningLog(class, state) = new
    BY <1>1, <1>2, <1>6, <2>1, <2>4 DEF OpeningLog
  <2>6. Appended(log, f, new) /\ f.type \in PlainEvents
    BY <1>5, <2>2, <2>3, <2>4 DEF Appended
  <2>7. /\ new \in RepairLog /\ RetriedOnce(new) /\ CandidatesUpTo(new, 0) /\ NotRetried(new)
        /\ \A s : LastTicketOf(new, s)
        /\ Happened(new, "OPENED") /\ Happened(new, "DISPATCH_READY")
    BY <1>5, <2>3, <2>6, PlainEventJoins, HappenedStays
  <2>8. QED
    BY <1>6, <2>5, <2>7
<1>7. CASE state = "RETRY_REQUEST_READY"
  <2>1. PICK f : f = Event("RETRY_TICKET", Root, class)
    OBVIOUS
  <2>2. <<f>> \in RepairLog /\ f.type = "RETRY_TICKET"
    BY <1>3, <2>1, EventIsLogged
  <2>3. PICK new : new = log \o <<f>>
    OBVIOUS
  <2>4. OpeningLog(class, state) = new
    BY <1>1, <1>2, <1>7, <2>1, <2>3 DEF OpeningLog
  <2>5. Appended(log, f, new)
    BY <1>5, <2>2, <2>3 DEF Appended
  <2>6. /\ new \in RepairLog /\ RetriedOnce(new) /\ CandidatesUpTo(new, 0)
        /\ \A s : LastTicketOf(new, s)
        /\ Happened(new, "OPENED") /\ Happened(new, "RETRY_TICKET")
    BY <1>5, <2>2, <2>5, RetryJoins, OthersJoin, TicketsJoin, HappenedStays
  <2>7. NotRetried(new)
    <3>1. HandedIn(new) = {}
      <4>1. IsFiniteSet(HandedIn(new)) /\ Cardinality(HandedIn(new)) <= 0
        BY <2>6 DEF CandidatesUpTo
      <4>2. Cardinality(HandedIn(new)) \in Nat
        BY <4>1, FS_CardinalityType
      <4>3. Cardinality(HandedIn(new)) = 0
        BY <4>1, <4>2
      <4>4. QED
        BY <4>1, <4>3, FS_EmptySet
    <3>2. QED
      BY <3>1 DEF NotRetried
  <2>8. QED
    BY <1>7, <2>4, <2>6, <2>7
<1>8. CASE state \notin {"REPAIR_REQUEST_READY", "RETRY_REQUEST_READY"}
  <2>1. <<e>> \o << >> = <<e>>
    OBVIOUS
  <2>2. OpeningLog(class, state) = log
    BY <1>1, <1>2, <1>8, <2>1 DEF OpeningLog
  <2>3. QED
    BY <1>5, <1>8, <2>2
<1>9. QED
  BY <1>6, <1>7, <1>8

\* No failure is opened as one that is out of budget already.
NoneOpensDead == \A class \in Openings, max \in Budgets : Opened(class, max)[1] # "DEAD_LETTER"

OpeningFiles(t, own) ==
  CASE t.state = "REPAIR_REQUEST_READY" -> Written(own, <<"DISPATCH", 1>>, Root)
    [] t.state = "RETRY_REQUEST_READY" -> Written(own, <<"RETRY", 1, 0>>, Root)
    [] OTHER -> own

LEMMA OpeningIsSound ==
  ASSUME NEW class \in Openings, NEW max \in Budgets, NEW own, DOMAIN own = {},
         NEW t, t = OpenedTransaction(class, max,
                      IF Opened(class, max)[1] = "RETRY_REQUEST_READY" THEN <<"RETRY", 1, 0>> ELSE Nil),
         NEW files, files = OpeningFiles(t, own)
  PROVE  /\ TransactionInv(t, OpeningLog(class, t.state), files)
         /\ NoneOpensDead => Reconciles(t, OpeningLog(class, t.state), files)
<1>1. PICK log : log = OpeningLog(class, t.state)
  OBVIOUS
<1>2. class \in Classes /\ max \in Nat /\ Root \in RepairCommits /\ Nil \notin RepairCommits
  BY RepairAssumption DEF RepairCommits
<1>3. /\ log \in RepairLog /\ RetriedOnce(log) /\ CandidatesUpTo(log, 0) /\ NotRetried(log)
      /\ \A s : LastTicketOf(log, s)
      /\ Happened(log, "OPENED")
      /\ t.state = "REPAIR_REQUEST_READY" => Happened(log, "DISPATCH_READY")
      /\ t.state = "RETRY_REQUEST_READY" => Happened(log, "RETRY_TICKET")
  BY <1>1, <1>2, OpeningLogs
<1>4. /\ t.state = Opened(class, max)[1] /\ t.class = class /\ t.root = Root /\ t.base = Nil
      /\ t.repl = Nil /\ t.attempt = 0 /\ t.cand = 0 /\ t.max = max /\ t.retries = 0
      /\ t.place = IF Opened(class, max)[1] = "DEAD_LETTER" THEN "HISTORY" ELSE "ACTIVE"
      /\ t.retryTicket = IF Opened(class, max)[1] = "RETRY_REQUEST_READY"
                         THEN <<"RETRY", 1, 0>> ELSE Nil
  BY DEF OpenedTransaction
<1>5. Spent(t) = 0 /\ Spent(t) <= t.max /\ DispatchName(t) = <<"DISPATCH", 1>>
  BY <1>2, <1>4 DEF Spent, DispatchName
<1>6. Subject(t) = Root
  BY <1>4 DEF Subject, RepairBase, Either
<1>7. ASSUME NEW state, NEW owner \in {"PRODUCT", "CORE", "SHARED"},
             state \in {"REPAIR_REQUEST_READY", "RETRY_REQUEST_READY", "DEAD_LETTER",
                        "OWNER_ACTION_REQUIRED", "OWNER_AUTHORITY_REQUIRED",
                        "REPLAN_ADMISSION", "WAIT_FOR_PREDECESSOR"},
             Opened(class, max) = <<state, owner>>
      PROVE  t \in Transactions /\ t.state = state /\ t # Nil
  <2>1. Opened(class, max)[1] = state /\ Opened(class, max)[2] = owner
    BY <1>7
  <2>2. PICK ticket : ticket = IF state = "RETRY_REQUEST_READY" THEN <<"RETRY", 1, 0>> ELSE Nil
    OBVIOUS
  <2>3. <<"RETRY", 1, 0>> \in Names
    BY DEF Names
  <2>4. ticket \in Names \union {Nil}
    BY <2>2, <2>3
  <2>5. t = [place |-> IF state = "DEAD_LETTER" THEN "HISTORY" ELSE "ACTIVE",
             state |-> state, owner |-> owner, class |-> class, root |-> Root,
             base |-> Nil, repl |-> Nil, attempt |-> 0, cand |-> 0, max |-> max,
             retries |-> 0, ticket |-> Nil, retryTicket |-> ticket]
    BY <2>1, <2>2 DEF OpenedTransaction
  <2>6. t \in Transactions
    BY <1>2, <1>7, <2>4, <2>5 DEF Transactions
  <2>7. QED
    BY <1>4, <2>1, <2>6, RepairAssumption
<1>8. Reconciles(t, log, files) <=>
        (t # Nil =>
          /\ Happened(log, "OPENED")
          /\ Active(t) /\ t.state = "REPAIR_REQUEST_READY" /\ t.class = "REPAIRABLE_SUBJECT" =>
               DispatchName(t) \in DOMAIN files /\ Happened(log, "DISPATCH_READY")
          /\ Active(t) /\ t.state = "A01_REQUEUE_READY" =>
               /\ FileNames(t.ticket, t.repl, files)
               /\ Happened(log, "PREQUALIFIED") /\ Happened(log, "REPLACEMENT_TICKET")
          /\ Active(t) /\ t.state = "RETRY_REQUEST_READY" =>
               FileNames(t.retryTicket, Subject(t), files) /\ Happened(log, "RETRY_TICKET")
          /\ ~Active(t) => Happened(log, "CLOSED") \/ Happened(log, "DEAD_LETTERED")
          /\ ~Active(t) /\ t.state = "CLOSED" => Happened(log, "RERUN"))
  BY DEF Reconciles
<1>9. CASE Opened(class, max) = <<"REPAIR_REQUEST_READY", "PRODUCT">>
  <2>1. t \in Transactions /\ t.state = "REPAIR_REQUEST_READY" /\ t # Nil
    BY <1>7, <1>9
  <2>2. files = Written(own, <<"DISPATCH", 1>>, Root)
    BY <2>1 DEF OpeningFiles
  <2>3. DOMAIN files = {<<"DISPATCH", 1>>}
    <3>1. PICK name : name = <<"DISPATCH", 1>>
      OBVIOUS
    <3>2. files = Written(own, name, Root)
      BY <2>2, <3>1
    <3>3. DOMAIN files = DOMAIN own \union {name} /\ FileNames(name, Root, files)
      BY ONLY <3>2, WrittenFile
    <3>4. QED
      BY <3>1, <3>3
  <2>4. FilesBefore(files, 0, 0, 0)
    BY <2>3, NamesDiffer DEF FilesBefore
  <2>5. ~Rerunnable(t) /\ t.state # "CLOSED"
    BY <2>1 DEF Rerunnable
  <2>6. Sound(t, log, files)
    BY <1>3, <1>4, <1>5, <2>1, <2>4, <2>5 DEF Sound
  <2>7. Active(t)
    BY <1>4, <1>9, <2>1 DEF Active
  <2>8. Reconciles(t, log, files)
    BY <1>3, <1>5, <1>8, <2>1, <2>3, <2>7
  <2>9. QED
    BY <1>1, <1>3, <2>1, <2>6, <2>8 DEF TransactionInv
<1>10. CASE Opened(class, max) = <<"RETRY_REQUEST_READY", "SHARED">> /\ max > 0
  <2>1. t \in Transactions /\ t.state = "RETRY_REQUEST_READY" /\ t # Nil
    BY <1>7, <1>10
  <2>2. files = Written(own, <<"RETRY", 1, 0>>, Root)
    BY <2>1 DEF OpeningFiles
  <2>3. DOMAIN files = {<<"RETRY", 1, 0>>} /\ FileNames(<<"RETRY", 1, 0>>, Root, files)
    <3>1. PICK name : name = <<"RETRY", 1, 0>>
      OBVIOUS
    <3>2. files = Written(own, name, Root)
      BY <2>2, <3>1
    <3>3. DOMAIN files = DOMAIN own \union {name} /\ FileNames(name, Root, files)
      BY ONLY <3>2, WrittenFile
    <3>4. QED
      BY <3>1, <3>3
  <2>4. FilesBefore(files, 0, 1, 1)
    BY <2>3, NamesDiffer DEF FilesBefore
  <2>5. Active(t) /\ t.state # "CLOSED"
    BY <1>4, <1>10, <2>1 DEF Active
  <2>6. 0 < t.max /\ t.attempt + 1 = 1 /\ t.retries + 1 = 1
    BY <1>2, <1>4, <1>10
  <2>7. Sound(t, log, files)
    BY <1>3, <1>4, <1>5, <2>1, <2>4, <2>5, <2>6 DEF Sound
  <2>8. Reconciles(t, log, files)
    BY <1>3, <1>4, <1>6, <1>8, <2>1, <2>3, <2>5
  <2>9. QED
    BY <1>1, <1>3, <2>1, <2>7, <2>8 DEF TransactionInv
<1>11. CASE class \in DOMAIN Waiting /\ Opened(class, max) = Waiting[class]
  <2>1. PICK state \in {"OWNER_ACTION_REQUIRED", "OWNER_AUTHORITY_REQUIRED",
                        "REPLAN_ADMISSION", "WAIT_FOR_PREDECESSOR"},
             owner \in {"PRODUCT", "CORE", "SHARED"} :
          Opened(class, max) = <<state, owner>>
    BY <1>11 DEF Waiting
  <2>2. t \in Transactions /\ t.state = state /\ t # Nil
    BY <1>7, <2>1
  <2>3. ~Rerunnable(t) /\ t.state # "CLOSED" /\ t.state # "REPAIR_REQUEST_READY"
    BY <2>2 DEF Rerunnable
  <2>4. Sound(t, log, files)
    BY <1>3, <1>5, <2>2, <2>3 DEF Sound
  <2>5. Active(t)
    BY <1>4, <2>1, <2>2 DEF Active
  <2>6. Reconciles(t, log, files)
    BY <1>3, <1>8, <2>2, <2>5
  <2>7. QED
    BY <1>1, <1>3, <2>2, <2>4, <2>6 DEF TransactionInv
<1>12. CASE Opened(class, max) = <<"DEAD_LETTER", "SHARED">>
  <2>1. t \in Transactions /\ t.state = "DEAD_LETTER" /\ t # Nil
    BY <1>7, <1>12
  <2>2. ~Rerunnable(t)
    BY <2>1 DEF Rerunnable
  <2>3. Sound(t, log, files)
    BY <1>3, <1>5, <2>1, <2>2 DEF Sound
  <2>4. ~NoneOpensDead
    BY <1>12 DEF NoneOpensDead
  <2>5. QED
    BY <1>1, <1>3, <2>1, <2>3, <2>4 DEF TransactionInv
<1>13. QED
  BY <1>9, <1>10, <1>11, <1>12, OpenedAs

\* The step that opens a transaction.
LEMMA IngestOpens ==
  ASSUME NEW id \in Ids, NEW class \in Openings, NEW max \in Budgets, Ingest(id, class, max),
         DOMAIN repairFiles[id] = {}
  PROVE  \E t, log, files :
           /\ led' = [led EXCEPT ![id] = t]
           /\ repairEvents' = [repairEvents EXCEPT ![id] = log]
           /\ repairFiles' = [repairFiles EXCEPT ![id] = files]
           /\ TransactionInv(t, log, files) /\ FilesStay(repairFiles[id], files)
           /\ NoneOpensDead => Reconciles(t, log, files)
<1> DEFINE state == Opened(class, max)[1]
           t == [place |-> IF state = "DEAD_LETTER" THEN "HISTORY" ELSE "ACTIVE",
                 state |-> state, owner |-> Opened(class, max)[2], class |-> class, root |-> Root,
                 base |-> Nil, repl |-> Nil, attempt |-> 0, cand |-> 0, max |-> max,
                 retries |-> 0, ticket |-> Nil, retryTicket |-> Nil]
           u == IF state = "RETRY_REQUEST_READY" THEN [t EXCEPT !.retryTicket = RetryName(t)] ELSE t
           own == repairFiles[id]
           files == CASE state = "REPAIR_REQUEST_READY" -> Written(own, DispatchName(t), Root)
                      [] state = "RETRY_REQUEST_READY" -> Written(own, RetryName(t), Root)
                      [] OTHER -> own
           ticket == IF state = "RETRY_REQUEST_READY" THEN <<"RETRY", 1, 0>> ELSE Nil
<1>1. led' = [led EXCEPT ![id] = u]
  BY DEF Ingest
<1>2. repairEvents' = [repairEvents EXCEPT ![id] = OpeningLog(class, state)]
  BY DEF Ingest, OpeningLog
<1>3. repairFiles' = [repairFiles EXCEPT ![id] = files]
  BY DEF Ingest
<1>4. DispatchName(t) = <<"DISPATCH", 1>> /\ RetryName(t) = <<"RETRY", 1, 0>>
  BY DEF DispatchName, RetryName, CandidateOf
<1>5. u = OpenedTransaction(class, max, ticket)
  BY <1>4 DEF OpenedTransaction
<1>6. u.state = state
  BY <1>5 DEF OpenedTransaction
<1> HIDE DEF u, t
<1>7. files = OpeningFiles(u, own)
  <2>1. CASE state = "REPAIR_REQUEST_READY"
    BY <1>4, <1>6, <2>1 DEF OpeningFiles
  <2>2. CASE state = "RETRY_REQUEST_READY"
    BY <1>4, <1>6, <2>2 DEF OpeningFiles
  <2>3. CASE state \notin {"REPAIR_REQUEST_READY", "RETRY_REQUEST_READY"}
    BY <1>6, <2>3 DEF OpeningFiles
  <2>4. QED
    BY <2>1, <2>2, <2>3
<1> HIDE DEF files
<1>8. /\ TransactionInv(u, OpeningLog(class, u.state), files)
      /\ NoneOpensDead => Reconciles(u, OpeningLog(class, u.state), files)
  BY <1>5, <1>7, OpeningIsSound
<1>9. FilesStay(own, files)
  BY DEF FilesStay
<1>10. QED
  BY <1>1, <1>2, <1>3, <1>6, <1>8, <1>9

\* A subject is handed in: it takes the place of the one that failed, under a ticket of its own.
LEMMA FinalizeIsSound ==
  ASSUME NEW id \in Ids, NEW s \in RepairSubjects, Finalize(id, s),
         TransactionInv(led[id], repairEvents[id], repairFiles[id])
  PROVE  \E t, log, files :
           /\ led' = [led EXCEPT ![id] = t]
           /\ repairEvents' = [repairEvents EXCEPT ![id] = log]
           /\ repairFiles' = [repairFiles EXCEPT ![id] = files]
           /\ TransactionInv(t, log, files) /\ FilesStay(repairFiles[id], files)
           /\ Happened(repairEvents[id], "OPENED") => Reconciles(t, log, files)
<1> DEFINE old == led[id]
           own == repairFiles[id]
           log == repairEvents[id]
           v == [old EXCEPT !.state = "A01_REQUEUE_READY", !.base = RepairBase(old),
                            !.repl = s, !.cand = old.attempt + 1, !.retries = 0,
                            !.retryTicket = Nil]
           t == [v EXCEPT !.ticket = ReplacementName(v)]
           e == Event("PREQUALIFIED", s, v.class)
           f == Event("REPLACEMENT_TICKET", s, v.class)
           new == log \o <<e, f>>
           files == Written(own, ReplacementName(v), s)
<1>1. /\ led' = [led EXCEPT ![id] = t]
      /\ repairEvents' = [repairEvents EXCEPT ![id] = new]
      /\ repairFiles' = [repairFiles EXCEPT ![id] = files]
  BY DEF Finalize
<1>2. /\ Sound(old, log, own) /\ old \in Transactions /\ log \in RepairLog /\ RetriedOnce(log)
      /\ old.state = "REPAIR_REQUEST_READY" /\ old.place = "ACTIVE" /\ old.attempt < old.max
  BY DEF Finalize, Finalizable, Active, TransactionInv, Sound
<1>3. /\ FilesBefore(own, old.attempt, old.attempt, 0) /\ CandidatesUpTo(log, old.attempt)
      /\ old.attempt \in Nat /\ old.attempt + 1 \in Nat /\ old.max \in Nat
      /\ old.class \in Classes
  BY <1>2 DEF Sound, Spent, Transactions
<1>4. s \in RepairCommits /\ RepairBase(old) \in RepairCommits /\ Nil \notin RepairCommits
      /\ Nil \notin Transactions
  BY <1>2, SubjectIsCommit, RepairAssumption DEF RepairCommits
<1> HIDE DEF old
<1>5. /\ v \in Transactions /\ v.state = "A01_REQUEUE_READY" /\ v.repl = s
      /\ v.cand = old.attempt + 1 /\ v.retries = 0 /\ v.attempt = old.attempt
      /\ v.max = old.max /\ v.place = "ACTIVE" /\ v.class = old.class
  BY <1>2, <1>3, <1>4 DEF Transactions
<1> HIDE DEF v
<1>6. CandidateOf(v) = old.attempt + 1 /\ ReplacementName(v) = <<"REPLACEMENT", old.attempt + 1>>
  BY <1>3, <1>5 DEF CandidateOf, ReplacementName
<1>7. ReplacementName(v) \in Names
  BY <1>3, <1>6 DEF Names
<1>8. /\ t \in Transactions /\ t.state = "A01_REQUEUE_READY" /\ t.repl = s
      /\ t.cand = old.attempt + 1 /\ t.retries = 0 /\ t.attempt = old.attempt
      /\ t.max = old.max /\ t.place = "ACTIVE" /\ t.ticket = ReplacementName(v)
  BY <1>5, <1>7 DEF Transactions
<1> HIDE DEF t
<1>9. PICK mid : mid = log \o <<e>>
  OBVIOUS
<1>10. /\ <<e>> \in RepairLog /\ e.type = "PREQUALIFIED"
       /\ <<f>> \in RepairLog /\ f.type = "REPLACEMENT_TICKET" /\ f.subject = s
  BY <1>3, <1>4, <1>5, EventIsLogged
<1> HIDE DEF e, f
<1>11. Appended(log, e, mid)
  BY <1>2, <1>9, <1>10 DEF Appended
<1>12. /\ mid \in RepairLog /\ CandidatesUpTo(mid, old.attempt + 1) /\ RetriedOnce(mid)
       /\ NotRetried(mid) /\ Happened(mid, "PREQUALIFIED")
       /\ Happened(log, "OPENED") => Happened(mid, "OPENED")
  BY <1>2, <1>3, <1>10, <1>11, CandidateJoins, HappenedStays
<1>13. Appended(mid, f, new)
  <2>1. new = mid \o <<f>>
    BY <1>2, <1>9, <1>10, EventsFollow
  <2>2. QED
    BY <1>10, <1>12, <2>1 DEF Appended
<1> HIDE DEF new
<1>14. /\ new \in RepairLog /\ CandidatesUpTo(new, old.attempt + 1) /\ RetriedOnce(new)
       /\ NotRetried(new) /\ LastTicketOf(new, s)
       /\ Happened(new, "PREQUALIFIED") /\ Happened(new, "REPLACEMENT_TICKET")
       /\ Happened(log, "OPENED") => Happened(new, "OPENED")
  BY <1>10, <1>12, <1>13, OthersJoin, TicketsJoin, HappenedStays
<1>15. /\ <<"REPLACEMENT", old.attempt + 1>> \notin DOMAIN own
       /\ FilesBefore(files, old.attempt, old.attempt + 1, 1)
  BY <1>3, <1>6, ReplacementIsNew
<1>16. FilesStay(own, files) /\ FileNames(t.ticket, s, files)
  BY <1>6, <1>8, <1>15, WrittenFile DEF FilesStay
<1> HIDE DEF files
<1>17. Subject(t) = s /\ t # Nil
  BY <1>4, <1>8 DEF Subject, Either
<1>18. Spent(t) = old.attempt + 1 /\ Spent(t) <= t.max /\ t.attempt < t.max
       /\ t.cand = t.attempt + 1 /\ t.retries + 1 = 1
  BY <1>2, <1>3, <1>8 DEF Spent
<1>19. FilesBefore(files, t.attempt, t.attempt + 1, t.retries + 1)
  BY <1>8, <1>15, <1>18
<1>20. Sound(t, new, files)
  BY <1>8, <1>14, <1>17, <1>18, <1>19 DEF Sound
<1>21. TransactionInv(t, new, files)
  BY <1>14, <1>17, <1>20 DEF TransactionInv
<1>22. Happened(log, "OPENED") => Reconciles(t, new, files)
  BY <1>8, <1>14, <1>16, <1>17 DEF Reconciles, Active
<1>23. QED
  BY <1>1, <1>16, <1>21, <1>22

-----------------------------------------------------------------------------
(* Repair: the step that adjudicates a run.                                *)

LEMMA StateAfter ==
  ASSUME NEW t \in Transactions, NEW class \in Classes
  PROVE  /\ class = "REPAIRABLE_SUBJECT" =>
              After(t, class).state \in {"DEAD_LETTER", "REPAIR_REQUEST_READY"}
         /\ class = "RETRYABLE_INFRA" =>
              After(t, class).state \in {"DEAD_LETTER", "RETRY_REQUEST_READY"}
         /\ class \notin {"REPAIRABLE_SUBJECT", "RETRYABLE_INFRA"} =>
              After(t, class).state \notin {"REPAIR_REQUEST_READY", "RETRY_REQUEST_READY"}
<1>1. CASE class = "PASS"
  <2>1. After(t, class) = [[t EXCEPT !.place = "HISTORY", !.state = "CLOSED"] EXCEPT !.class = class]
    BY <1>1, AfterTable DEF Archived
  <2>2. After(t, class).state = "CLOSED"
    BY <2>1 DEF Transactions
  <2>3. QED
    BY <1>1, <2>2
<1>2. CASE class = "UNKNOWN"
  <2>1. After(t, class) =
          [[t EXCEPT !.place = "HISTORY", !.state = "DEAD_LETTER"] EXCEPT !.class = "UNKNOWN"]
    BY <1>2, AfterTable DEF Archived
  <2>2. After(t, class).state = "DEAD_LETTER"
    BY <2>1 DEF Transactions
  <2>3. QED
    BY <1>2, <2>2
<1>3. CASE class \in DOMAIN Waiting
  <2>1. PICK state \in {"OWNER_ACTION_REQUIRED", "OWNER_AUTHORITY_REQUIRED",
                        "REPLAN_ADMISSION", "WAIT_FOR_PREDECESSOR"} :
          After(t, class) = [t EXCEPT !.state = state, !.class = class]
    BY <1>3, AfterTable, WaitingTable
  <2>2. After(t, class).state = state
    BY <2>1 DEF Transactions
  <2>3. QED
    BY <1>3, <2>1, <2>2, WaitingTable
<1>4. CASE class = "RETRYABLE_INFRA"
  <2>1. PICK v : v = [t EXCEPT !.retries = t.retries + 1, !.class = "RETRYABLE_INFRA"]
    OBVIOUS
  <2>2. After(t, class) = IF RetriesSpent(v.retries) THEN Archived(v, "DEAD_LETTER")
                          ELSE [v EXCEPT !.state = "RETRY_REQUEST_READY", !.retryTicket = RetryName(v)]
    BY <1>4, <2>1, AfterTable DEF InfraFailed
  <2>3. v = [v EXCEPT !.class = v.class] /\ DOMAIN v = DOMAIN t
    BY <2>1 DEF Transactions
  <2>4. "state" \in DOMAIN v
    BY <2>3 DEF Transactions
  <2>5. After(t, class).state \in {"DEAD_LETTER", "RETRY_REQUEST_READY"}
    BY <2>2, <2>3, <2>4 DEF Archived
  <2>6. QED
    BY <1>4, <2>5
<1>5. CASE class = "REPAIRABLE_SUBJECT"
  <2>1. PICK v : v = [t EXCEPT !.attempt = Consumed(t), !.base = Subject(t), !.repl = Nil,
                               !.cand = 0, !.retries = 0, !.ticket = Nil, !.retryTicket = Nil,
                               !.class = "REPAIRABLE_SUBJECT"]
    OBVIOUS
  <2>2. After(t, class) = IF v.attempt >= v.max THEN Archived(v, "DEAD_LETTER")
                          ELSE [v EXCEPT !.state = "REPAIR_REQUEST_READY"]
    BY <1>5, <2>1, AfterTable DEF SubjectFailed
  <2>3. DOMAIN v = DOMAIN t
    BY <2>1 DEF Transactions
  <2>4. "state" \in DOMAIN v
    BY <2>3 DEF Transactions
  <2>5. After(t, class).state \in {"DEAD_LETTER", "REPAIR_REQUEST_READY"}
    BY <2>2, <2>3, <2>4 DEF Archived
  <2>6. QED
    BY <1>5, <2>5
<1>6. QED
  BY <1>1, <1>2, <1>3, <1>4, <1>5, WaitingTable DEF Classes

LEMMA AdjudicationIsSound ==
  ASSUME NEW r, Adjudicate(r), r.class \in Classes,
         TransactionInv(led[r.id], repairEvents[r.id], repairFiles[r.id])
  PROVE  \E t, log, files :
           /\ led' = [led EXCEPT ![r.id] = t]
           /\ repairEvents' = [repairEvents EXCEPT ![r.id] = log]
           /\ repairFiles' = [repairFiles EXCEPT ![r.id] = files]
           /\ TransactionInv(t, log, files) /\ FilesStay(repairFiles[r.id], files)
           /\ Reconciles(t, log, files)
<1> DEFINE t == led[r.id]
           own == repairFiles[r.id]
           log == repairEvents[r.id]
           class == r.class
           u == After(t, class)
           rerun == log \o <<Event("RERUN", IF r.receipt THEN r.subject ELSE Subject(t), class)>>
           new == rerun \o
             CASE u.state = "CLOSED" -> <<Event("CLOSED", Subject(t), class)>>
               [] u.state = "DEAD_LETTER" -> <<Event("DEAD_LETTERED", Subject(t), class)>>
               [] u.state = "REPAIR_REQUEST_READY" -> <<Event("DISPATCH_READY", Subject(t), class)>>
               [] u.state = "RETRY_REQUEST_READY" -> <<Event("RETRY_TICKET", Subject(t), class)>>
               [] OTHER -> << >>
           files ==
             CASE u.state = "REPAIR_REQUEST_READY" -> Written(own, DispatchName(u), Subject(t))
               [] u.state = "RETRY_REQUEST_READY" -> Written(own, RetryName(u), Subject(t))
               [] OTHER -> own
<1>1. /\ led' = [led EXCEPT ![r.id] = u]
      /\ repairEvents' = [repairEvents EXCEPT ![r.id] = new]
      /\ repairFiles' = [repairFiles EXCEPT ![r.id] = files]
      /\ Reconciles(u, new, files)
  BY DEF Adjudicate
<1>2. Rerunnable(t) /\ t # Nil
  BY DEF Adjudicate, Adjudicable, Rerunnable, Active
<1>3. Sound(t, log, own) /\ t \in Transactions /\ log \in RepairLog /\ RetriedOnce(log)
  BY <1>2 DEF TransactionInv, Sound
<1>4. Subject(t) \in RepairCommits
  BY <1>3, SubjectIsCommit
<1> HIDE DEF t
<1>5. ASSUME NEW type \in PlainEvents \union {"RETRY_TICKET"}, NEW before, NEW after,
             before \in RepairLog, after = before \o <<Event(type, Subject(t), class)>>
      PROVE  Appended(before, Event(type, Subject(t), class), after)
  <2>1. <<Event(type, Subject(t), class)>> \in RepairLog
    BY <1>4, EventIsLogged
  <2>2. QED
    BY <1>5, <2>1 DEF Appended
<1>6. Recorded(t, class, log, rerun)
  <2>1. "RERUN" \in PlainEvents
    BY DEF PlainEvents
  <2>2. (IF r.receipt THEN r.subject ELSE Subject(t)) = Subject(t)
    BY DEF Adjudicate, Adjudicable, t
  <2>3. rerun = log \o <<Event("RERUN", Subject(t), class)>>
    BY <2>2
  <2>4. QED
    BY <1>3, <1>5, <2>1, <2>3 DEF Recorded
<1> HIDE DEF u, rerun
<1>7. rerun \in RepairLog
  BY <1>2, <1>3, <1>6, RunIsRecorded
<1>8. /\ u.state = "CLOSED" => Appended(rerun, Event("CLOSED", Subject(t), class), new)
      /\ u.state = "DEAD_LETTER" => Appended(rerun, Event("DEAD_LETTERED", Subject(t), class), new)
      /\ u.state = "REPAIR_REQUEST_READY" =>
           /\ Appended(rerun, Event("DISPATCH_READY", Subject(t), class), new)
           /\ files = Written(own, DispatchName(u), Subject(t))
      /\ u.state = "RETRY_REQUEST_READY" =>
           /\ Appended(rerun, Event("RETRY_TICKET", Subject(t), class), new)
           /\ files = Written(own, RetryName(u), Subject(t))
  <2>1. {"CLOSED", "DEAD_LETTERED", "DISPATCH_READY"} \subseteq PlainEvents
    BY DEF PlainEvents
  <2>2. CASE u.state = "CLOSED"
    <3>1. new = rerun \o <<Event("CLOSED", Subject(t), class)>>
      BY <2>2
    <3>2. Appended(rerun, Event("CLOSED", Subject(t), class), new)
      BY <1>5, <1>7, <2>1, <3>1
    <3>3. QED
      BY <2>2, <3>2
  <2>3. CASE u.state = "DEAD_LETTER"
    <3>1. new = rerun \o <<Event("DEAD_LETTERED", Subject(t), class)>>
      BY <2>3
    <3>2. Appended(rerun, Event("DEAD_LETTERED", Subject(t), class), new)
      BY <1>5, <1>7, <2>1, <3>1
    <3>3. QED
      BY <2>3, <3>2
  <2>4. CASE u.state = "REPAIR_REQUEST_READY"
    <3>1. new = rerun \o <<Event("DISPATCH_READY", Subject(t), class)>>
      BY <2>4
    <3>2. Appended(rerun, Event("DISPATCH_READY", Subject(t), class), new)
      BY <1>5, <1>7, <2>1, <3>1
    <3>3. files = Written(own, DispatchName(u), Subject(t))
      BY <1>2, <2>4
    <3>4. QED
      BY <2>4, <3>2, <3>3
  <2>5. CASE u.state = "RETRY_REQUEST_READY"
    <3>1. new = rerun \o <<Event("RETRY_TICKET", Subject(t), class)>>
      BY <2>5
    <3>2. Appended(rerun, Event("RETRY_TICKET", Subject(t), class), new)
      BY <1>5, <1>7, <3>1
    <3>3. files = Written(own, RetryName(u), Subject(t))
      BY <1>2, <2>5
    <3>4. QED
      BY <2>5, <3>2, <3>3
  <2>6. QED
    BY <2>2, <2>3, <2>4, <2>5
<1>9. u.state \notin {"REPAIR_REQUEST_READY", "RETRY_REQUEST_READY"} =>
        /\ files = own
        /\ u.state = "CLOSED" \/ u.state = "DEAD_LETTER" \/ new = rerun
  <2> SUFFICES ASSUME u.state \notin {"REPAIR_REQUEST_READY", "RETRY_REQUEST_READY"}
               PROVE  /\ files = own
                      /\ u.state = "CLOSED" \/ u.state = "DEAD_LETTER" \/ new = rerun
    OBVIOUS
  <2>1. files = own
    OBVIOUS
  <2>2. ASSUME u.state \notin {"CLOSED", "DEAD_LETTER"}
        PROVE  new = rerun
    <3>1. new = rerun \o << >>
      BY <2>2
    <3>2. rerun \o << >> = rerun
      BY <1>7, ConcatEmptySeq DEF RepairLog
    <3>3. QED
      BY <3>1, <3>2
  <2>3. QED
    BY <2>1, <2>2
<1>10. class \in Classes
  OBVIOUS
<1> HIDE DEF new, files, log, own, class
<1>11. Sound(u, new, files) /\ new \in RepairLog /\ RetriedOnce(new) /\ FilesStay(own, files)
  <2>1. \A x \in DOMAIN own : FileNames(x, own[x], own)
    BY DEF FileNames
  <2>2. CASE class = "REPAIRABLE_SUBJECT"
    <3>1. u = SubjectFailed(t)
      BY <1>10, <2>2, AfterTable DEF u
    <3>2. u.state \in {"DEAD_LETTER", "REPAIR_REQUEST_READY"}
      BY <1>3, <1>10, <2>2, StateAfter DEF u
    <3>3. /\ u.state = "DEAD_LETTER" =>
               Appended(rerun, Event("DEAD_LETTERED", Subject(t), class), new) /\ files = own
          /\ u.state # "DEAD_LETTER" =>
               /\ Appended(rerun, Event("DISPATCH_READY", Subject(t), class), new)
               /\ files = Written(own, DispatchName(u), Subject(t))
      BY <1>8, <1>9, <3>2
    <3>4. QED
      BY <1>2, <1>3, <1>6, <1>10, <3>1, <3>3, SubjectFailedIsSound
  <2>3. CASE class = "RETRYABLE_INFRA"
    <3>1. u = InfraFailed(t)
      BY <1>10, <2>3, AfterTable DEF u
    <3>2. u.state \in {"DEAD_LETTER", "RETRY_REQUEST_READY"}
      BY <1>3, <1>10, <2>3, StateAfter DEF u
    <3>3. /\ u.state = "DEAD_LETTER" =>
               Appended(rerun, Event("DEAD_LETTERED", Subject(t), class), new) /\ files = own
          /\ u.state # "DEAD_LETTER" =>
               /\ Appended(rerun, Event("RETRY_TICKET", Subject(t), class), new)
               /\ files = Written(own, RetryName(u), Subject(t))
      BY <1>8, <1>9, <3>2
    <3>4. QED
      BY <1>2, <1>3, <1>6, <1>10, <2>3, <3>1, <3>3, InfraFailedIsSound
  <2>4. CASE class \notin {"REPAIRABLE_SUBJECT", "RETRYABLE_INFRA"}
    <3>1. u.state \notin {"REPAIR_REQUEST_READY", "RETRY_REQUEST_READY"} /\ u = After(t, class)
      BY <1>3, <1>10, <2>4, StateAfter DEF u
    <3>2. Sound(u, new, files) /\ new \in RepairLog /\ RetriedOnce(new)
      BY <1>2, <1>3, <1>6, <1>8, <1>9, <1>10, <2>4, <3>1, OthersAreSound
    <3>3. FilesStay(own, files)
      BY <1>9, <2>1, <3>1 DEF FilesStay
    <3>4. QED
      BY <3>2, <3>3
  <2>5. QED
    BY <2>2, <2>3, <2>4
<1>12. TransactionInv(u, new, files)
  <2>1. u # Nil
    BY <1>11, RepairAssumption DEF Sound
  <2>2. QED
    BY <1>11, <2>1 DEF TransactionInv
<1>13. QED
  BY <1>1, <1>11, <1>12 DEF log, own

-----------------------------------------------------------------------------
(* Repair: the invariant.                                                  *)

RepairTypeOK ==
  /\ led = [id \in Ids |-> led[id]]
  /\ repairEvents = [id \in Ids |-> repairEvents[id]]
  /\ repairFiles = [id \in Ids |-> repairFiles[id]]
  /\ reruns \subseteq [id : Ids, n : Nat, subject : RepairCommits, class : Classes \union {Nil},
                       receipt : BOOLEAN]

RepairInv ==
  RepairTypeOK /\ \A id \in Ids : TransactionInv(led[id], repairEvents[id], repairFiles[id])

\* The transaction of one id takes a step, which keeps its files; the others stay.
OneMoves(id) ==
  \E t, log, files :
    /\ led' = [led EXCEPT ![id] = t]
    /\ repairEvents' = [repairEvents EXCEPT ![id] = log]
    /\ repairFiles' = [repairFiles EXCEPT ![id] = files]
    /\ TransactionInv(t, log, files) /\ FilesStay(repairFiles[id], files)
    /\ NoneOpensDead /\ Reconciles(led[id], repairEvents[id], repairFiles[id]) =>
         Reconciles(t, log, files)

LEMMA OneTransactionMoves ==
  ASSUME NEW id \in Ids, RepairInv, OneMoves(id)
  PROVE  /\ led' = [i \in Ids |-> led'[i]] /\ repairEvents' = [i \in Ids |-> repairEvents'[i]]
         /\ repairFiles' = [i \in Ids |-> repairFiles'[i]]
         /\ \A i \in Ids :
              /\ TransactionInv(led'[i], repairEvents'[i], repairFiles'[i])
              /\ FilesStay(repairFiles[i], repairFiles'[i])
              /\ NoneOpensDead /\ Reconciles(led[i], repairEvents[i], repairFiles[i]) =>
                   Reconciles(led'[i], repairEvents'[i], repairFiles'[i])
<1>1. PICK t, log, files :
        /\ led' = [led EXCEPT ![id] = t]
        /\ repairEvents' = [repairEvents EXCEPT ![id] = log]
        /\ repairFiles' = [repairFiles EXCEPT ![id] = files]
        /\ TransactionInv(t, log, files) /\ FilesStay(repairFiles[id], files)
        /\ NoneOpensDead /\ Reconciles(led[id], repairEvents[id], repairFiles[id]) =>
             Reconciles(t, log, files)
  BY DEF OneMoves
<1>2. /\ led = [i \in Ids |-> led[i]] /\ repairEvents = [i \in Ids |-> repairEvents[i]]
      /\ repairFiles = [i \in Ids |-> repairFiles[i]]
  BY DEF RepairInv, RepairTypeOK
<1>3. /\ led' = [i \in Ids |-> led'[i]]
      /\ \A i \in Ids : led'[i] = IF i = id THEN t ELSE led[i]
  BY <1>1, <1>2
<1>4. /\ repairEvents' = [i \in Ids |-> repairEvents'[i]]
      /\ \A i \in Ids : repairEvents'[i] = IF i = id THEN log ELSE repairEvents[i]
  BY <1>1, <1>2
<1>5. /\ repairFiles' = [i \in Ids |-> repairFiles'[i]]
      /\ \A i \in Ids : repairFiles'[i] = IF i = id THEN files ELSE repairFiles[i]
  BY <1>1, <1>2
<1>6. \A i \in Ids : \A x \in DOMAIN repairFiles[i] : FileNames(x, repairFiles[i][x], repairFiles[i])
  BY DEF FileNames
<1>7. \A i \in Ids : FilesStay(repairFiles[i], repairFiles[i])
  BY <1>6 DEF FilesStay
<1>8. \A i \in Ids : TransactionInv(led[i], repairEvents[i], repairFiles[i])
  BY DEF RepairInv
<1>9. ASSUME NEW i \in Ids
      PROVE  /\ TransactionInv(led'[i], repairEvents'[i], repairFiles'[i])
             /\ FilesStay(repairFiles[i], repairFiles'[i])
             /\ NoneOpensDead /\ Reconciles(led[i], repairEvents[i], repairFiles[i]) =>
                  Reconciles(led'[i], repairEvents'[i], repairFiles'[i])
  <2>1. CASE i = id
    <3>1. led'[i] = t /\ repairEvents'[i] = log /\ repairFiles'[i] = files
      BY <1>3, <1>4, <1>5, <2>1
    <3>2. QED
      BY <1>1, <2>1, <3>1
  <2>2. CASE i # id
    <3>1. led'[i] = led[i] /\ repairEvents'[i] = repairEvents[i] /\ repairFiles'[i] = repairFiles[i]
      BY <1>3, <1>4, <1>5, <2>2
    <3>2. QED
      BY <1>7, <1>8, <3>1
  <2>3. QED
    BY <2>1, <2>2
<1>10. QED
  BY <1>3, <1>4, <1>5, <1>9

\* Every step moves one transaction, or none.
LEMMA RepairMoves ==
  ASSUME RepairInv, [RepairNext]_repairVars
  PROVE  /\ RepairInv'
         /\ \A i \in Ids :
              /\ FilesStay(repairFiles[i], repairFiles'[i])
              /\ NoneOpensDead /\ Reconciles(led[i], repairEvents[i], repairFiles[i]) =>
                   Reconciles(led'[i], repairEvents'[i], repairFiles'[i])
<1> DEFINE Reruns == [id : Ids, n : Nat, subject : RepairCommits, class : Classes \union {Nil},
                      receipt : BOOLEAN]
           Kept == reruns' \subseteq Reruns
           Goal == /\ RepairInv'
                   /\ \A i \in Ids :
                        /\ FilesStay(repairFiles[i], repairFiles'[i])
                        /\ NoneOpensDead /\ Reconciles(led[i], repairEvents[i], repairFiles[i]) =>
                             Reconciles(led'[i], repairEvents'[i], repairFiles'[i])
<1>1. /\ reruns \subseteq Reruns
      /\ \A i \in Ids : TransactionInv(led[i], repairEvents[i], repairFiles[i])
  BY DEF RepairInv, RepairTypeOK
<1>2. ASSUME NEW id \in Ids, OneMoves(id), reruns' \subseteq reruns
      PROVE  Goal
  <2>1. Kept
    BY <1>1, <1>2
  <2>2. QED
    BY <1>2, <2>1, OneTransactionMoves DEF RepairInv, RepairTypeOK
<1>3. ASSUME UNCHANGED <<led, repairEvents, repairFiles>>, Kept
      PROVE  Goal
  <2>1. \A i \in Ids : \A x \in DOMAIN repairFiles[i] : FileNames(x, repairFiles[i][x], repairFiles'[i])
    BY <1>3 DEF FileNames
  <2>2. \A i \in Ids : FilesStay(repairFiles[i], repairFiles'[i])
    BY <2>1 DEF FilesStay
  <2>3. RepairInv'
    BY <1>1, <1>3 DEF RepairInv, RepairTypeOK
  <2>4. \A i \in Ids : Reconciles(led[i], repairEvents[i], repairFiles[i]) =>
                         Reconciles(led'[i], repairEvents'[i], repairFiles'[i])
    BY <1>3
  <2>5. QED
    BY <2>2, <2>3, <2>4
<1>4. ASSUME NEW id \in Ids, NEW class \in Openings, NEW max \in Budgets, Ingest(id, class, max)
      PROVE  Goal
  <2>1. DOMAIN repairFiles[id] = {} /\ reruns' = reruns
    BY <1>1, <1>4 DEF Ingest, TransactionInv
  <2>2. OneMoves(id)
    BY <1>4, <2>1, IngestOpens DEF OneMoves
  <2>3. QED
    BY <1>2, <2>1, <2>2
<1>5. ASSUME NEW id \in Ids, NEW s \in RepairSubjects, Finalize(id, s)
      PROVE  Goal
  <2>1. reruns' = reruns /\ led[id] # Nil
    BY <1>5 DEF Finalize, Finalizable, Active
  <2>2. Reconciles(led[id], repairEvents[id], repairFiles[id]) => Happened(repairEvents[id], "OPENED")
    BY <2>1 DEF Reconciles
  <2>3. OneMoves(id)
    BY <1>1, <1>5, <2>2, FinalizeIsSound DEF OneMoves
  <2>4. QED
    BY <1>2, <2>1, <2>3
<1>6. ASSUME NEW id \in Ids, NEW n \in 1 .. MaxRuns, PrepareRerun(id, n)
      PROVE  Goal
  <2>1. Kept
    <3>1. led[id] \in Transactions
      BY <1>1, <1>6 DEF PrepareRerun, Rerunnable, Active, TransactionInv, Sound
    <3>2. Subject(led[id]) \in RepairCommits
      BY <3>1, SubjectIsCommit
    <3>3. PICK e : e = [id |-> id, n |-> n, subject |-> Subject(led[id]), class |-> Nil,
                        receipt |-> FALSE]
      OBVIOUS
    <3>4. n \in Nat
      OBVIOUS
    <3>5. e \in Reruns
      BY <3>2, <3>3, <3>4
    <3>6. reruns' = reruns \union {e}
      BY <1>6, <3>3 DEF PrepareRerun
    <3>7. QED
      BY <1>1, <3>5, <3>6
  <2>2. UNCHANGED <<led, repairEvents, repairFiles>>
    BY <1>6 DEF PrepareRerun
  <2>3. QED
    BY <1>3, <2>1, <2>2
<1>7. ASSUME NEW r \in reruns, Adjudicate(r)
      PROVE  Goal
  <2>1. r.class \in Classes /\ r.id \in Ids /\ reruns' \subseteq reruns
    BY <1>1, <1>7 DEF Adjudicate
  <2>2. TransactionInv(led[r.id], repairEvents[r.id], repairFiles[r.id])
    BY <1>1, <2>1
  <2>3. OneMoves(r.id)
    BY <1>7, <2>1, <2>2, AdjudicationIsSound DEF OneMoves
  <2>4. QED
    BY <1>2, <2>1, <2>3
<1>8. ASSUME NEW r \in reruns, NEW class \in Outcomes, NEW receipt \in BOOLEAN,
             Complete(r, class, receipt)
      PROVE  Goal
  <2>1. class \in Classes /\ r \in Reruns
    BY <1>1, RepairAssumption
  <2>2. Kept
    <3>1. PICK e : e = [r EXCEPT !.class = class, !.receipt = receipt]
      OBVIOUS
    <3>2. e \in Reruns
      BY <1>8, <2>1, <3>1
    <3>3. reruns' = (reruns \ {r}) \union {e}
      BY <1>8, <3>1 DEF Complete
    <3>4. QED
      BY <1>1, <3>2, <3>3
  <2>3. UNCHANGED <<led, repairEvents, repairFiles>>
    BY <1>8 DEF Complete
  <2>4. QED
    BY <1>3, <2>2, <2>3
<1>9. CASE UNCHANGED repairVars
  <2>1. Kept /\ UNCHANGED <<led, repairEvents, repairFiles>>
    BY <1>1, <1>9 DEF repairVars
  <2>2. QED
    BY <1>3, <2>1
<1>10. QED
  BY <1>4, <1>5, <1>6, <1>7, <1>8, <1>9 DEF RepairNext

LEMMA RepairStarts ==
  ASSUME RepairInit
  PROVE  RepairInv /\ LedgerReconciles
<1>1. /\ led = [id \in Ids |-> led[id]] /\ \A id \in Ids : led[id] = Nil
  BY DEF RepairInit
<1>2. /\ repairEvents = [id \in Ids |-> repairEvents[id]]
      /\ \A id \in Ids : repairEvents[id] = << >>
  BY DEF RepairInit
<1>3. /\ repairFiles = [id \in Ids |-> repairFiles[id]]
      /\ \A id \in Ids : DOMAIN repairFiles[id] = {}
  <2>1. PICK none : none = [name \in {} |-> Nil] /\ DOMAIN none = {}
    OBVIOUS
  <2>2. repairFiles = [id \in Ids |-> none]
    BY <2>1 DEF RepairInit
  <2>3. QED
    BY <2>1, <2>2
<1>4. reruns = {}
  BY DEF RepairInit
<1>5. RepairTypeOK
  BY <1>1, <1>2, <1>3, <1>4 DEF RepairTypeOK
<1>6. \A id \in Ids : TransactionInv(led[id], repairEvents[id], repairFiles[id])
  BY <1>1, <1>2, <1>3, EmptyLog DEF TransactionInv
<1>7. LedgerReconciles
  BY <1>1 DEF LedgerReconciles, Reconciles
<1>8. QED
  BY <1>5, <1>6, <1>7 DEF RepairInv

\* What the invariant says of each transaction.
LEMMA RepairInvSuffices ==
  ASSUME RepairInv
  PROVE  ClosedWorkPassed /\ BudgetIsKept /\ CandidatesRetryOnce
<1>1. ASSUME NEW id \in Ids
      PROVE  /\ RetriedOnce(repairEvents[id])
             /\ led[id] = Nil => repairEvents[id] = << >>
             /\ led[id] # Nil => Sound(led[id], repairEvents[id], repairFiles[id])
  BY DEF RepairInv, TransactionInv
<1>2. ClosedWorkPassed
  <2>1. ASSUME NEW id \in Ids, led[id] # Nil, led[id].state = "CLOSED"
        PROVE  PassedLast(repairEvents[id])
    BY <1>1, <2>1 DEF Sound
  <2>2. QED
    BY <2>1 DEF ClosedWorkPassed, PassedLast, Tickets
<1>3. BudgetIsKept
  <2>1. ASSUME NEW id \in Ids, led[id] # Nil
        PROVE  Cardinality(EventsOf(repairEvents[id], "PREQUALIFIED")) <= led[id].max
    <3>1. Sound(led[id], repairEvents[id], repairFiles[id])
      BY <1>1, <2>1
    <3>2. PICK n, t : n = Cardinality(HandedIn(repairEvents[id])) /\ t = led[id]
      OBVIOUS
    <3>3. n \in Nat /\ n <= Spent(t) /\ Spent(t) <= t.max /\ t \in Transactions
      BY <3>1, <3>2, FS_CardinalityType DEF Sound, CandidatesUpTo
    <3>4. Spent(t) \in Nat /\ t.max \in Nat
      BY <3>3 DEF Spent, Transactions
    <3>5. n <= t.max
      BY <3>3, <3>4
    <3>6. QED
      BY <3>2, <3>5 DEF HandedIn
  <2>2. QED
    BY <2>1 DEF BudgetIsKept
<1>4. CandidatesRetryOnce
  <2> SUFFICES ASSUME NEW id \in Ids, NEW i \in EventsOf(repairEvents[id], "PREQUALIFIED")
               PROVE  Cardinality({j \in EventsOf(repairEvents[id], "RETRY_TICKET") :
                        i < j /\ ~\E k \in EventsOf(repairEvents[id], "PREQUALIFIED") : i < k /\ k < j}) <= 1
    BY DEF CandidatesRetryOnce
  <2>1. PICK own : own = {j \in EventsOf(repairEvents[id], "RETRY_TICKET") :
                        i < j /\ ~\E k \in EventsOf(repairEvents[id], "PREQUALIFIED") : i < k /\ k < j}
    OBVIOUS
  <2>2. \A j, k \in own : j = k
    BY <1>1, <2>1 DEF RetriedOnce, HandedIn, Retries
  <2>3. own = {} \/ \E j : own = {j}
    BY <2>2
  <2>4. Cardinality({}) = 0 /\ \A j : Cardinality({j}) = 1
    BY FS_EmptySet, FS_Singleton
  <2>5. Cardinality(own) \in {0, 1}
    BY <2>3, <2>4
  <2>6. Cardinality(own) <= 1
    BY <2>5
  <2>7. QED
    BY <2>1, <2>6
<1>5. QED
  BY <1>2, <1>3, <1>4

\* Whatever failures there are and however runs overlap or are handed in again: what is closed
\* passed as it was handed in last, no more candidates are taken than there is budget for,
\* each is run again on account of the infrastructure once at most, and no ticket or dispatch
\* is ever written over (adjudicateRerun, finalize and ingest of a01-repair-ledger.js and
\* a01-repair-broker.js).
THEOREM RepairsEndAsTheyPassed ==
  RepairSpec => [](ClosedWorkPassed /\ BudgetIsKept /\ CandidatesRetryOnce) /\ FilesAreAppendOnly
<1>1. RepairInit => RepairInv
  BY RepairStarts
<1>2. RepairInv /\ [RepairNext]_repairVars => RepairInv'
  BY RepairMoves
<1>3. RepairInv => ClosedWorkPassed /\ BudgetIsKept /\ CandidatesRetryOnce
  BY RepairInvSuffices
<1>4. RepairInv /\ [RepairNext]_repairVars =>
        [\A id \in Ids : \A name \in DOMAIN repairFiles[id] :
           FileNames(name, repairFiles[id][name], repairFiles'[id])]_repairVars
  BY RepairMoves DEF FilesStay
<1>5. QED
  BY <1>1, <1>2, <1>3, <1>4, PTL DEF RepairSpec, FilesAreAppendOnly

\* And when no failure is opened as one that is out of budget already, for which ingest writes
\* no last event, the auditor (a01-repair-ledger-reconcile.js) never finds anything wrong:
\* the guard of an adjudication is true of every other step as well.
THEOREM RepairsStayBounded ==
  ASSUME NoneOpensDead
  PROVE  RepairSpec => RepairsAreBounded
<1>1. RepairInit => RepairInv /\ LedgerReconciles
  BY RepairStarts
<1>2. RepairInv /\ LedgerReconciles /\ [RepairNext]_repairVars => RepairInv' /\ LedgerReconciles'
  BY RepairMoves DEF LedgerReconciles
<1>3. RepairInv => ClosedWorkPassed /\ BudgetIsKept /\ CandidatesRetryOnce
  BY RepairInvSuffices
<1>4. RepairInv /\ [RepairNext]_repairVars =>
        [\A id \in Ids : \A name \in DOMAIN repairFiles[id] :
           FileNames(name, repairFiles[id][name], repairFiles'[id])]_repairVars
  BY RepairMoves DEF FilesStay
<1>5. QED
  BY <1>1, <1>2, <1>3, <1>4, PTL DEF RepairSpec, RepairsAreBounded, FilesAreAppendOnly

-----------------------------------------------------------------------------
(* Ledger: the invariant.  Each program carries what the events so far     *)
(* come to.  The invariant says of everything that it carries which event  *)
(* it stands for, and that no event since then speaks against it.          *)

ClaimRecords ==
  [work : Works \union {Null}, head : Heads \union {Null}, key : Keys \union {Null},
   lease : Leases \union {Null}, expires : Nat]

Readings ==
  [clean : BOOLEAN, opened : BOOLEAN, closed : BOOLEAN, last : Nat, lease : ClaimRecords,
   keys : [Keys -> ClaimRecords], exhausted : Heads \union {Null}]

LiveReadings == [run : Readings, terminal : BOOLEAN]

StrictReadings ==
  [run : Readings, pending : BOOLEAN, retry : [Dependencies -> [attempt : Nat, budget : Nat]],
   circuit : [Dependencies -> {"CLOSED", "OPEN", "HALF_OPEN"}]]

\* What the programs read of an event.
EventOK(e) ==
  /\ e.at \in Nat /\ e.head \in Heads
  /\ e.type = "CLAIMED" => Claim(e) \in ClaimRecords /\ e.key \in Keys /\ e.expires > 0
  /\ e.type \in Circuit \union {"RETRY"} => e.dep \in Dependencies
  /\ e.type = "RETRY" => e.attempt \in Nat /\ e.budget \in Nat

\* The k-th event releases the claim of the i-th.
Releases(log, i, k) ==
  k > i /\ log[k].type \in Terminal /\ SameWork(log[i], log[k]) /\ log[i].key = log[k].key

NoneSince(log, i, types) == \A k \in DOMAIN log : k > i => log[k].type \notin types

LastClaim(log, i) ==
  i \in DOMAIN log /\ log[i].type = "CLAIMED" /\ NoneSince(log, i, Terminal \union {"CLAIMED"})

\* Every claim is released but the one that the program holds, which is the last one.
ClaimsRead(log, lease) ==
  /\ \A i \in DOMAIN log :
       log[i].type = "CLAIMED" =>
         (\E k \in DOMAIN log : Releases(log, i, k)) \/ (LastClaim(log, i) /\ lease = Claim(log[i]))
  /\ lease # NoClaim => \E i \in DOMAIN log : LastClaim(log, i) /\ lease = Claim(log[i])

\* The keys that a program keeps are those of claims.
KeysRead(log, keys) ==
  \A key \in Keys :
    keys[key] # NoClaim =>
      \E i \in DOMAIN log : /\ log[i].type = "CLAIMED" /\ log[i].key = key
                            /\ log[i].lease = keys[key].lease

\* The i-th event is the last one of these types about a dependency.
LastOf(log, i, types, dep) ==
  /\ i \in DOMAIN log /\ log[i].type \in types /\ log[i].dep = dep
  /\ \A k \in DOMAIN log : k > i /\ log[k].type \in types => log[k].dep # dep

RetriesRead(log, s) ==
  \A dep \in Dependencies :
    s.retry[dep].attempt # 0 =>
      \E i \in DOMAIN log : /\ LastOf(log, i, {"RETRY"}, dep)
                            /\ log[i].attempt = s.retry[dep].attempt
                            /\ log[i].budget = s.retry[dep].budget
                            /\ log[i].budget \in 1 .. MaxBudget

\* A circuit is in this state by the last event about it, of this type.
StandsBy(log, s, dep, state, type) ==
  s.circuit[dep] = state =>
    \E i \in DOMAIN log : LastOf(log, i, Circuit, dep) /\ log[i].type = type

CircuitsRead(log, s) ==
  \A dep \in Dependencies :
    StandsBy(log, s, dep, "OPEN", "CIRCUIT_OPEN")
      /\ StandsBy(log, s, dep, "HALF_OPEN", "CIRCUIT_HALF_OPEN")

\* A result waits for its successor, or new work has been claimed instead.
ResultsRead(log, s) ==
  \A i \in DOMAIN log :
    log[i].type \in {"COMPLETED", "BLOCKED"} =>
      \/ s.pending \/ s.run.lease # NoClaim
      \/ \E k \in DOMAIN log : k > i /\ log[k].type \in {"SUCCESSOR_BOUND", "ALL_RUNGS_EXHAUSTED"}

ExhaustionRead(log, exhausted) ==
  exhausted # Null =>
    \E i \in DOMAIN log : /\ log[i].type = "ALL_RUNGS_EXHAUSTED" /\ log[i].valid
                          /\ log[i].head = exhausted /\ NoneSince(log, i, {"SUCCESSOR_BOUND"})

\* The conditions under which the kernel is the stricter one.
Named(log) ==
  /\ \A i \in DOMAIN log : log[i].type \in Working \union Terminal =>
       log[i].lease # Null /\ ~log[i].reconciled
  /\ \A i, j \in DOMAIN log :
       log[i].type = "CLAIMED" /\ log[j].type = "CLAIMED" /\ log[i].key = log[j].key =>
         log[i].lease = log[j].lease

\* The watchdog has accepted everything, and carries what the kernel does.
Agrees(s, t) ==
  /\ s.run.clean
  /\ s.run.lease = t.run.lease /\ s.run.keys = t.run.keys /\ s.run.last = t.run.last
  /\ s.run.opened = t.run.opened /\ s.run.closed = t.run.closed
  /\ t.run.exhausted # Null => s.run.exhausted = t.run.exhausted
  /\ t.pending => s.terminal

\* The properties, of a ledger.
ReleasedInTurn(log) ==
  \A i, j \in DOMAIN log : i < j /\ log[i].type = "CLAIMED" /\ log[j].type = "CLAIMED" =>
    \E k \in (i + 1)..(j - 1) : Releases(log, i, k)

NoneBetween(log, i, j, types) == \A k \in (i + 1)..(j - 1) : log[k].type \notin types

WorkNamed(log) ==
  \A j \in DOMAIN log : log[j].type \in Working \union Terminal =>
    \E i \in 1..(j - 1) :
      /\ log[i].type = "CLAIMED" /\ NoneBetween(log, i, j, Terminal \union {"CLAIMED"})
      /\ SameWork(log[i], log[j]) /\ log[i].key = log[j].key /\ log[i].lease = log[j].lease

WorkTimed(log) ==
  \A j \in DOMAIN log : log[j].type \in Working \union {"COMPLETED", "BLOCKED"} =>
    \E i \in 1..(j - 1) :
      /\ log[i].type = "CLAIMED" /\ NoneBetween(log, i, j, Terminal)
      /\ SameWork(log[i], log[j]) /\ log[i].key = log[j].key
      /\ log[j].at <= log[i].expires

LastBefore(log, i, j, types) ==
  /\ i \in 1..(j - 1) /\ log[i].type \in types /\ log[i].dep = log[j].dep
  /\ \A k \in (i + 1)..(j - 1) : log[k].type \in types => log[k].dep # log[j].dep

\* An event of the second type comes next after one of the first, of the circuit's events.
Follows(log, j, from, to) ==
  log[j].type = to =>
    \E i \in 1..(j - 1) : LastBefore(log, i, j, Circuit) /\ log[i].type = from

CircuitsEarned(log) ==
  \A j \in DOMAIN log :
    /\ log[j].type = "CIRCUIT_OPEN" =>
         \E i \in 1..(j - 1) : /\ LastBefore(log, i, j, {"RETRY"})
                               /\ log[i].attempt = log[i].budget /\ log[i].budget \in 1 .. MaxBudget
    /\ Follows(log, j, "CIRCUIT_OPEN", "CIRCUIT_HALF_OPEN")
    /\ Follows(log, j, "CIRCUIT_HALF_OPEN", "CIRCUIT_CLOSED")

ReadySucceeds(log) ==
  \A i, j \in DOMAIN log :
    i < j /\ log[i].type \in {"COMPLETED", "BLOCKED"} /\ log[j].type = "READY" =>
      \E k \in (i + 1)..(j - 1) : log[k].type \in {"SUCCESSOR_BOUND", "ALL_RUNGS_EXHAUSTED"}

IdleProven(log) ==
  \A j \in DOMAIN log : log[j].type = "IDLE_VALID" =>
    /\ \E i \in 1..(j - 1) : /\ log[i].type = "ALL_RUNGS_EXHAUSTED" /\ log[i].valid
                             /\ log[i].head = log[j].head
                             /\ NoneBetween(log, i, j, {"SUCCESSOR_BOUND"})
    /\ \A i \in 1..(j - 1) :
         log[i].type = "CLAIMED" => \E k \in (i + 1)..(j - 1) : log[k].type \in Terminal

LiveInv(log, s) ==
  s.run.clean => ClaimsRead(log, s.run.lease) /\ ReleasedInTurn(log) /\ WorkNamed(log)

StrictInv(log, s) ==
  s.run.clean =>
    /\ ClaimsRead(log, s.run.lease) /\ ReleasedInTurn(log) /\ WorkTimed(log)
    /\ RetriesRead(log, s) /\ CircuitsRead(log, s) /\ CircuitsEarned(log)
    /\ ResultsRead(log, s) /\ ReadySucceeds(log)
    /\ ExhaustionRead(log, s.run.exhausted) /\ IdleProven(log)

AgreeInv(log, s, t) == t.run.clean /\ Named(log) => Agrees(s, t)

LedgerInv ==
  /\ ledger \in Seq(LedgerEvents) /\ live \in LiveReadings /\ strict \in StrictReadings
  /\ LiveInv(ledger, live) /\ StrictInv(ledger, strict)
  /\ KeysRead(ledger, strict.run.keys) /\ AgreeInv(ledger, live, strict)

-----------------------------------------------------------------------------
(* Ledger: events and readings                                             *)

LEMMA EventsAreOK == \A e \in LedgerEvents : EventOK(e)
BY LedgerAssumption
   DEF LedgerEvents, ClaimEvents, WorkEvents, RetryEvents, CircuitEvents, LaneEvents, EventOK,
       Plain, Circuit, Working, Terminal, Times, Claim, ClaimRecords

LEMMA LedgerGrows ==
  ASSUME NEW log \in Seq(LedgerEvents), NEW e \in LedgerEvents, NEW new, new = Append(log, e)
  PROVE  /\ new \in Seq(LedgerEvents) /\ Len(log) \in Nat
         /\ DOMAIN log = 1 .. Len(log) /\ DOMAIN new = 1 .. (Len(log) + 1)
         /\ \A i \in DOMAIN log : new[i] = log[i] /\ EventOK(log[i])
         /\ new[Len(log) + 1] = e /\ EventOK(e)
BY EventsAreOK

LEMMA ClaimIsOne ==
  ASSUME NEW e, EventOK(e), e.type = "CLAIMED"
  PROVE  Claim(e) # NoClaim
BY DEF EventOK, Claim, NoClaim

LEMMA Carried ==
  ASSUME NEW r \in Readings, NEW e, EventOK(e), NEW fault, NEW lease \in ClaimRecords, NEW reused,
         NEW exhausted \in Heads \union {Null}
  PROVE  Carry(r, e, fault, lease, reused, exhausted) \in Readings
<1>1. Remember(r, e, reused) \in [Keys -> ClaimRecords]
  BY DEF Remember, Readings, EventOK
<1>2. QED
  BY <1>1 DEF Carry, Readings, EventOK

LEMMA NoClaimIsRecord == NoClaim \in ClaimRecords
BY DEF NoClaim, ClaimRecords

-----------------------------------------------------------------------------
(* Ledger: claims                                                          *)

\* What becomes of the claim that a program holds, at an event that it accepts.
LeaseMoves(old, e, lease) ==
  \/ e.type = "CLAIMED" /\ old = NoClaim /\ lease = Claim(e)
  \/ /\ e.type \in Terminal /\ lease = NoClaim
     /\ old # NoClaim => SameWork(old, e) /\ old.key = e.key
  \/ e.type \notin Terminal \union {"CLAIMED"} /\ lease = old

\* What was so of two events stays so when another one follows.
LEMMA SinceThen ==
  ASSUME NEW log \in Seq(LedgerEvents), NEW e \in LedgerEvents, NEW new, new = Append(log, e)
  PROVE  /\ \A i, k \in DOMAIN log : Releases(log, i, k) => Releases(new, i, k)
         /\ \A i \in DOMAIN log : \A types :
              NoneSince(log, i, types) /\ e.type \notin types => NoneSince(new, i, types)
         /\ \A types : NoneSince(new, Len(log) + 1, types)
<1>1. /\ Len(log) \in Nat /\ DOMAIN log = 1 .. Len(log) /\ DOMAIN new = 1 .. (Len(log) + 1)
      /\ \A i \in DOMAIN log : new[i] = log[i]
      /\ new[Len(log) + 1] = e
  BY LedgerGrows
<1>2. QED
  BY <1>1 DEF Releases, NoneSince

LEMMA ClaimsStep ==
  ASSUME NEW log \in Seq(LedgerEvents), NEW e \in LedgerEvents, NEW new, new = Append(log, e),
         NEW old, NEW lease, ClaimsRead(log, old), ReleasedInTurn(log), LeaseMoves(old, e, lease)
  PROVE  ClaimsRead(new, lease) /\ ReleasedInTurn(new)
<1> DEFINE n == Len(log)
<1>1. /\ n \in Nat /\ DOMAIN log = 1 .. n /\ DOMAIN new = 1 .. (n + 1)
      /\ \A i \in DOMAIN log : new[i] = log[i] /\ EventOK(log[i])
      /\ new[n + 1] = e /\ EventOK(e)
  BY LedgerGrows
<1>2. /\ \A i, k \in DOMAIN log : Releases(log, i, k) => Releases(new, i, k)
      /\ \A i \in DOMAIN log : \A types :
           NoneSince(log, i, types) /\ e.type \notin types => NoneSince(new, i, types)
      /\ \A types : NoneSince(new, n + 1, types)
  BY SinceThen
<1> HIDE DEF n
<1>3. CASE e.type = "CLAIMED" /\ old = NoClaim /\ lease = Claim(e)
  <2>1. \A i \in DOMAIN log : log[i].type = "CLAIMED" => \E k \in DOMAIN log : Releases(log, i, k)
    BY <1>1, <1>3, ClaimIsOne DEF ClaimsRead
  <2>2. LastClaim(new, n + 1) /\ lease = Claim(new[n + 1])
    BY <1>1, <1>2, <1>3 DEF LastClaim
  <2>3. ClaimsRead(new, lease)
    <3>1. ASSUME NEW i \in DOMAIN new, new[i].type = "CLAIMED", i # n + 1
          PROVE  \E k \in DOMAIN new : Releases(new, i, k)
      <4>1. i \in DOMAIN log /\ log[i].type = "CLAIMED"
        BY <1>1, <3>1
      <4>2. QED
        BY <1>1, <1>2, <2>1, <4>1
    <3>2. QED
      BY <1>1, <2>2, <3>1 DEF ClaimsRead
  <2>4. ReleasedInTurn(new)
    <3>1. SUFFICES ASSUME NEW i \in DOMAIN new, NEW j \in DOMAIN new, i < j,
                          new[i].type = "CLAIMED", new[j].type = "CLAIMED"
                   PROVE  \E k \in (i + 1)..(j - 1) : Releases(new, i, k)
      BY DEF ReleasedInTurn
    <3>2. i \in DOMAIN log /\ log[i].type = "CLAIMED"
      BY <1>1, <3>1
    <3>3. CASE j = n + 1
      <4>1. PICK k \in DOMAIN log : Releases(log, i, k)
        BY <2>1, <3>2
      <4>2. Releases(new, i, k) /\ k > i
        BY <1>2, <3>2, <4>1 DEF Releases
      <4>3. QED
        BY <1>1, <3>3, <4>1, <4>2
    <3>4. CASE j # n + 1
      <4>1. j \in DOMAIN log /\ log[j].type = "CLAIMED"
        BY <1>1, <3>1, <3>4
      <4>2. PICK k \in (i + 1)..(j - 1) : Releases(log, i, k)
        BY <3>1, <3>2, <4>1 DEF ReleasedInTurn
      <4>3. k \in DOMAIN log
        BY <1>1, <3>2, <4>1
      <4>4. QED
        BY <1>2, <3>2, <4>2, <4>3
    <3>5. QED
      BY <3>3, <3>4
  <2>5. QED
    BY <2>3, <2>4
<1>4. CASE e.type # "CLAIMED"
  <2>1. ReleasedInTurn(new)
    <3>1. SUFFICES ASSUME NEW i \in DOMAIN new, NEW j \in DOMAIN new, i < j,
                          new[i].type = "CLAIMED", new[j].type = "CLAIMED"
                   PROVE  \E k \in (i + 1)..(j - 1) : Releases(new, i, k)
      BY DEF ReleasedInTurn
    <3>2. /\ i \in DOMAIN log /\ log[i].type = "CLAIMED"
          /\ j \in DOMAIN log /\ log[j].type = "CLAIMED"
      BY <1>1, <1>4, <3>1
    <3>3. PICK k \in (i + 1)..(j - 1) : Releases(log, i, k)
      BY <3>1, <3>2 DEF ReleasedInTurn
    <3>4. k \in DOMAIN log
      BY <1>1, <3>2
    <3>5. QED
      BY <1>2, <3>2, <3>3, <3>4
  <2>2. CASE e.type \in Terminal
    <3>1. lease = NoClaim /\ (old # NoClaim => SameWork(old, e) /\ old.key = e.key)
      BY <1>4, <2>2 DEF LeaseMoves
    <3>2. ASSUME NEW i \in DOMAIN new, new[i].type = "CLAIMED"
          PROVE  \E k \in DOMAIN new : Releases(new, i, k)
      <4>1. i \in DOMAIN log /\ log[i].type = "CLAIMED"
        BY <1>1, <1>4, <3>2
      <4>2. CASE \E k \in DOMAIN log : Releases(log, i, k)
        BY <1>1, <1>2, <4>1, <4>2
      <4>3. CASE old = Claim(log[i])
        <5>1. old # NoClaim
          BY <1>1, <4>1, <4>3, ClaimIsOne
        <5>2. SameWork(log[i], e) /\ log[i].key = e.key
          BY <3>1, <4>3, <5>1 DEF SameWork, Claim
        <5>3. Releases(new, i, n + 1)
          BY <1>1, <2>2, <4>1, <5>2 DEF Releases
        <5>4. QED
          BY <1>1, <5>3
      <4>4. QED
        BY <4>1, <4>2, <4>3 DEF ClaimsRead
    <3>3. QED
      BY <2>1, <3>1, <3>2 DEF ClaimsRead
  <2>3. CASE e.type \notin Terminal
    <3>1. lease = old /\ e.type \notin Terminal \union {"CLAIMED"}
      BY <1>4, <2>3 DEF LeaseMoves
    <3>2. \A i \in DOMAIN log : LastClaim(log, i) => LastClaim(new, i)
      BY <1>1, <1>2, <3>1 DEF LastClaim
    <3>3. ASSUME NEW i \in DOMAIN new, new[i].type = "CLAIMED"
          PROVE  \/ \E k \in DOMAIN new : Releases(new, i, k)
                 \/ LastClaim(new, i) /\ lease = Claim(new[i])
      <4>1. i \in DOMAIN log /\ log[i].type = "CLAIMED" /\ new[i] = log[i]
        BY <1>1, <1>4, <3>3
      <4>2. CASE \E k \in DOMAIN log : Releases(log, i, k)
        BY <1>1, <1>2, <4>1, <4>2
      <4>3. CASE LastClaim(log, i) /\ old = Claim(log[i])
        BY <3>1, <3>2, <4>1, <4>3
      <4>4. QED
        BY <4>1, <4>2, <4>3 DEF ClaimsRead
    <3>4. ASSUME lease # NoClaim
          PROVE  \E i \in DOMAIN new : LastClaim(new, i) /\ lease = Claim(new[i])
      <4>1. PICK i \in DOMAIN log : LastClaim(log, i) /\ old = Claim(log[i])
        BY <3>1, <3>4 DEF ClaimsRead
      <4>2. QED
        BY <1>1, <3>1, <3>2, <4>1
    <3>5. QED
      BY <2>1, <3>3, <3>4 DEF ClaimsRead
  <2>4. QED
    BY <2>2, <2>3
<1>5. QED
  BY <1>3, <1>4 DEF LeaseMoves, Terminal

\* The claim that is held is of an event of the ledger, none of its kind in between.
LEMMA HeldClaim ==
  ASSUME NEW log \in Seq(LedgerEvents), NEW e \in LedgerEvents, NEW new, new = Append(log, e),
         NEW lease, ClaimsRead(log, lease), lease # NoClaim
  PROVE  \E i \in DOMAIN log :
           /\ i \in 1 .. Len(log) /\ new[i].type = "CLAIMED" /\ lease = Claim(new[i])
           /\ NoneBetween(new, i, Len(log) + 1, Terminal \union {"CLAIMED"})
<1>1. /\ Len(log) \in Nat /\ DOMAIN log = 1 .. Len(log)
      /\ \A i \in DOMAIN log : new[i] = log[i]
  BY LedgerGrows
<1>2. PICK i \in DOMAIN log : LastClaim(log, i) /\ lease = Claim(log[i])
  BY DEF ClaimsRead
<1>3. NoneBetween(new, i, Len(log) + 1, Terminal \union {"CLAIMED"})
  BY <1>1, <1>2 DEF LastClaim, NoneSince, NoneBetween
<1>4. QED
  BY <1>1, <1>2, <1>3 DEF LastClaim

-----------------------------------------------------------------------------
(* Ledger: what a step of each program leaves                              *)

LEMMA LiveReads ==
  ASSUME NEW s \in LiveReadings, NEW e \in LedgerEvents, NEW t, t = LiveStep(s, e)
  PROVE  /\ t \in LiveReadings
         /\ t.run.clean <=> s.run.clean /\ ~LiveFault(s, e)
         /\ t.run.opened <=> s.run.opened \/ e.type = "SHIFT_OPEN"
         /\ t.run.closed <=> s.run.closed \/ e.type = "SHIFT_CLOSE"
         /\ t.run.last = e.at /\ t.run.lease = LiveLease(s.run, e)
         /\ t.run.keys = Remember(s.run, e, e.type = "CLAIMED" /\ LiveReuse(s.run, e))
         /\ t.run.exhausted = IF e.type = "ALL_RUNGS_EXHAUSTED" THEN e.head ELSE s.run.exhausted
         /\ t.terminal <=> s.terminal \/ (e.type \in Terminal /\ LiveMatch(s.run, e))
<1> DEFINE exhausted == IF e.type = "ALL_RUNGS_EXHAUSTED" THEN e.head ELSE s.run.exhausted
           fault == LiveFault(s, e)
           lease == LiveLease(s.run, e)
           reused == e.type = "CLAIMED" /\ LiveReuse(s.run, e)
           c == Carry(s.run, e, fault, lease, reused, exhausted)
<1>1. EventOK(e)
  BY EventsAreOK
<1>2. s.run \in Readings
  BY DEF LiveReadings
<1>3. lease \in ClaimRecords
  BY <1>1, <1>2, NoClaimIsRecord DEF LiveLease, EventOK, Readings
<1>4. exhausted \in Heads \union {Null}
  BY <1>1, <1>2 DEF EventOK, Readings
<1>5. /\ t.run = c
      /\ t.terminal = (s.terminal \/ (e.type \in Terminal /\ LiveMatch(s.run, e)))
      /\ t = [run |-> t.run, terminal |-> t.terminal]
  BY DEF LiveStep
<1> HIDE DEF exhausted, fault, lease, reused
<1>6. c \in Readings
  BY <1>1, <1>2, <1>3, <1>4, Carried
<1>7. /\ c \in Readings
      /\ c.clean <=> s.run.clean /\ ~fault
      /\ c.opened <=> s.run.opened \/ e.type = "SHIFT_OPEN"
      /\ c.closed <=> s.run.closed \/ e.type = "SHIFT_CLOSE"
      /\ c.last = e.at /\ c.lease = lease
      /\ c.keys = Remember(s.run, e, reused)
      /\ c.exhausted = exhausted
  BY <1>2, <1>6 DEF Carry, Readings
<1> HIDE DEF c
<1>8. t \in LiveReadings
  BY <1>5, <1>7 DEF LiveReadings
<1>9. QED
  BY <1>5, <1>7, <1>8 DEF exhausted, fault, lease, reused

LEMMA StrictReads ==
  ASSUME NEW s \in StrictReadings, NEW e \in LedgerEvents, NEW t, t = StrictStep(s, e)
  PROVE  /\ t \in StrictReadings
         /\ t.run.clean <=> s.run.clean /\ ~StrictFault(s, e)
         /\ t.run.opened <=> s.run.opened \/ e.type = "SHIFT_OPEN"
         /\ t.run.closed <=> s.run.closed \/ e.type = "SHIFT_CLOSE"
         /\ t.run.last = e.at /\ t.run.lease = StrictLease(s.run, e)
         /\ t.run.keys = Remember(s.run, e, e.type = "CLAIMED" /\ StrictReuse(s.run, e))
         /\ t.run.exhausted = StrictExhausted(s.run, e)
         /\ t.pending <=>
              \/ e.type \in Terminal /\ StrictMatch(s.run, e)
              \/ /\ s.pending
                 /\ e.type \notin {"CLAIMED", "SUCCESSOR_BOUND", "ALL_RUNGS_EXHAUSTED"}
<1> DEFINE exhausted == StrictExhausted(s.run, e)
           fault == StrictFault(s, e)
           lease == StrictLease(s.run, e)
           reused == e.type = "CLAIMED" /\ StrictReuse(s.run, e)
           c == Carry(s.run, e, fault, lease, reused, exhausted)
<1>1. EventOK(e)
  BY EventsAreOK
<1>2. s.run \in Readings
  BY DEF StrictReadings
<1>3. lease \in ClaimRecords
  BY <1>1, <1>2, NoClaimIsRecord DEF StrictLease, EventOK, Readings
<1>4. exhausted \in Heads \union {Null}
  BY <1>1, <1>2 DEF EventOK, Readings, StrictExhausted
<1>5. /\ t.run = c
      /\ t.pending = (\/ e.type \in Terminal /\ StrictMatch(s.run, e)
                      \/ /\ s.pending
                         /\ e.type \notin {"CLAIMED", "SUCCESSOR_BOUND", "ALL_RUNGS_EXHAUSTED"})
      /\ t = [run |-> t.run, pending |-> t.pending, retry |-> t.retry, circuit |-> t.circuit]
  BY DEF StrictStep
<1>6. t.retry \in [Dependencies -> [attempt : Nat, budget : Nat]]
  BY <1>1 DEF StrictStep, StrictReadings, EventOK
<1>7. t.circuit \in [Dependencies -> {"CLOSED", "OPEN", "HALF_OPEN"}]
  BY <1>1 DEF StrictStep, StrictReadings, EventOK
<1> HIDE DEF exhausted, fault, lease, reused
<1>8. c \in Readings
  BY <1>1, <1>2, <1>3, <1>4, Carried
<1>9. /\ c \in Readings
      /\ c.clean <=> s.run.clean /\ ~fault
      /\ c.opened <=> s.run.opened \/ e.type = "SHIFT_OPEN"
      /\ c.closed <=> s.run.closed \/ e.type = "SHIFT_CLOSE"
      /\ c.last = e.at /\ c.lease = lease
      /\ c.keys = Remember(s.run, e, reused)
      /\ c.exhausted = exhausted
  BY <1>2, <1>8 DEF Carry, Readings
<1> HIDE DEF c
<1>10. t \in StrictReadings
  BY <1>5, <1>6, <1>7, <1>9 DEF StrictReadings
<1>11. QED
  BY <1>5, <1>9, <1>10 DEF exhausted, fault, lease, reused

\* Each program moves the claim it holds as the invariant has it, where it accepts.
LEMMA LiveMoves ==
  ASSUME NEW s \in LiveReadings, NEW e \in LedgerEvents, ~LiveFault(s, e)
  PROVE  /\ LeaseMoves(s.run.lease, e, LiveLease(s.run, e))
         /\ e.type \in Working \union Terminal =>
              /\ s.run.lease # NoClaim /\ SameWork(s.run.lease, e)
              /\ s.run.lease.key = e.key /\ s.run.lease.lease = e.lease
BY DEF LiveFault, LeaseMoves, LiveLease, LiveMatch, Claimed, Terminal, Working

LEMMA StrictMoves ==
  ASSUME NEW s \in StrictReadings, NEW e \in LedgerEvents, ~StrictFault(s, e)
  PROVE  /\ LeaseMoves(s.run.lease, e, StrictLease(s.run, e))
         /\ e.type \in Working \union {"COMPLETED", "BLOCKED"} =>
              /\ s.run.lease # NoClaim /\ SameWork(s.run.lease, e)
              /\ s.run.lease.key = e.key /\ e.at <= s.run.lease.expires
         /\ e.type \in Terminal /\ s.run.lease # NoClaim => StrictMatch(s.run, e)
         /\ e.type \in {"COMPLETED", "BLOCKED"} => StrictMatch(s.run, e)
<1>1. EventOK(e) /\ s.run.lease \in ClaimRecords
  BY EventsAreOK DEF StrictReadings, Readings
<1>2. e.at \in Nat /\ s.run.lease.expires \in Nat
  BY <1>1 DEF EventOK, ClaimRecords
<1>3. ~StrictClaimFault(s, e)
  BY DEF StrictFault
<1>4. LeaseMoves(s.run.lease, e, StrictLease(s.run, e))
  BY <1>3 DEF StrictClaimFault, LeaseMoves, StrictLease, StrictMatch, Claimed, Terminal, Working
<1>5. QED
  BY <1>2, <1>3, <1>4 DEF StrictClaimFault, StrictMatch, Claimed, Terminal, Working, Late

-----------------------------------------------------------------------------
(* Ledger: work lies inside its claim                                      *)

LEMMA StillBetween ==
  ASSUME NEW log \in Seq(LedgerEvents), NEW e \in LedgerEvents, NEW new, new = Append(log, e),
         NEW i \in DOMAIN log, NEW j \in DOMAIN log, NEW types, NoneBetween(log, i, j, types)
  PROVE  NoneBetween(new, i, j, types)
<1>1. /\ Len(log) \in Nat /\ DOMAIN log = 1 .. Len(log)
      /\ \A k \in DOMAIN log : new[k] = log[k]
  BY LedgerGrows
<1>2. QED
  BY <1>1 DEF NoneBetween

LEMMA WorkNamedStep ==
  ASSUME NEW log \in Seq(LedgerEvents), NEW e \in LedgerEvents, NEW new, new = Append(log, e),
         NEW lease, ClaimsRead(log, lease), WorkNamed(log),
         e.type \in Working \union Terminal =>
           /\ lease # NoClaim /\ SameWork(lease, e) /\ lease.key = e.key /\ lease.lease = e.lease
  PROVE  WorkNamed(new)
<1> DEFINE n == Len(log)
<1>1. /\ n \in Nat /\ DOMAIN log = 1 .. n /\ DOMAIN new = 1 .. (n + 1)
      /\ \A i \in DOMAIN log : new[i] = log[i]
      /\ new[n + 1] = e
  BY LedgerGrows
<1> HIDE DEF n
<1>2. SUFFICES ASSUME NEW j \in DOMAIN new, new[j].type \in Working \union Terminal
               PROVE  \E i \in 1..(j - 1) :
                        /\ new[i].type = "CLAIMED"
                        /\ NoneBetween(new, i, j, Terminal \union {"CLAIMED"})
                        /\ SameWork(new[i], new[j]) /\ new[i].key = new[j].key
                        /\ new[i].lease = new[j].lease
  BY DEF WorkNamed
<1>3. CASE j = n + 1
  <2>1. lease # NoClaim /\ SameWork(lease, e) /\ lease.key = e.key /\ lease.lease = e.lease
    BY <1>1, <1>2, <1>3
  <2>2. PICK i \in DOMAIN log :
          /\ i \in 1 .. n /\ new[i].type = "CLAIMED" /\ lease = Claim(new[i])
          /\ NoneBetween(new, i, n + 1, Terminal \union {"CLAIMED"})
    BY <2>1, HeldClaim DEF n
  <2>3. /\ i \in 1..(j - 1) /\ SameWork(new[i], new[j]) /\ new[i].key = new[j].key
        /\ new[i].lease = new[j].lease
    BY <1>1, <1>3, <2>1, <2>2 DEF SameWork, Claim
  <2>4. QED
    BY <1>3, <2>2, <2>3
<1>4. CASE j # n + 1
  <2>1. j \in DOMAIN log /\ new[j] = log[j]
    BY <1>1, <1>4
  <2>2. PICK i \in 1..(j - 1) :
          /\ log[i].type = "CLAIMED" /\ NoneBetween(log, i, j, Terminal \union {"CLAIMED"})
          /\ SameWork(log[i], log[j]) /\ log[i].key = log[j].key /\ log[i].lease = log[j].lease
    BY <1>2, <2>1 DEF WorkNamed
  <2>3. i \in DOMAIN log /\ new[i] = log[i]
    BY <1>1, <2>1
  <2>4. NoneBetween(new, i, j, Terminal \union {"CLAIMED"})
    BY <2>1, <2>2, <2>3, StillBetween
  <2>5. QED
    BY <2>1, <2>2, <2>3, <2>4
<1>5. QED
  BY <1>3, <1>4

LEMMA WorkTimedStep ==
  ASSUME NEW log \in Seq(LedgerEvents), NEW e \in LedgerEvents, NEW new, new = Append(log, e),
         NEW lease, ClaimsRead(log, lease), WorkTimed(log),
         e.type \in Working \union {"COMPLETED", "BLOCKED"} =>
           /\ lease # NoClaim /\ SameWork(lease, e) /\ lease.key = e.key
           /\ e.at <= lease.expires
  PROVE  WorkTimed(new)
<1> DEFINE n == Len(log)
<1>1. /\ n \in Nat /\ DOMAIN log = 1 .. n /\ DOMAIN new = 1 .. (n + 1)
      /\ \A i \in DOMAIN log : new[i] = log[i]
      /\ new[n + 1] = e
  BY LedgerGrows
<1> HIDE DEF n
<1>2. SUFFICES ASSUME NEW j \in DOMAIN new,
                      new[j].type \in Working \union {"COMPLETED", "BLOCKED"}
               PROVE  \E i \in 1..(j - 1) :
                        /\ new[i].type = "CLAIMED" /\ NoneBetween(new, i, j, Terminal)
                        /\ SameWork(new[i], new[j]) /\ new[i].key = new[j].key
                        /\ new[j].at <= new[i].expires
  BY DEF WorkTimed
<1>3. CASE j = n + 1
  <2>1. lease # NoClaim /\ SameWork(lease, e) /\ lease.key = e.key /\ e.at <= lease.expires
    BY <1>1, <1>2, <1>3
  <2>2. PICK i \in DOMAIN log :
          /\ i \in 1 .. n /\ new[i].type = "CLAIMED" /\ lease = Claim(new[i])
          /\ NoneBetween(new, i, n + 1, Terminal \union {"CLAIMED"})
    BY <2>1, HeldClaim DEF n
  <2>3. NoneBetween(new, i, j, Terminal)
    BY <1>3, <2>2 DEF NoneBetween
  <2>4. /\ i \in 1..(j - 1) /\ SameWork(new[i], new[j]) /\ new[i].key = new[j].key
        /\ new[j].at <= new[i].expires
    BY <1>1, <1>3, <2>1, <2>2 DEF SameWork, Claim
  <2>5. QED
    BY <2>2, <2>3, <2>4
<1>4. CASE j # n + 1
  <2>1. j \in DOMAIN log /\ new[j] = log[j]
    BY <1>1, <1>4
  <2>2. PICK i \in 1..(j - 1) :
          /\ log[i].type = "CLAIMED" /\ NoneBetween(log, i, j, Terminal)
          /\ SameWork(log[i], log[j]) /\ log[i].key = log[j].key /\ log[j].at <= log[i].expires
    BY <1>2, <2>1 DEF WorkTimed
  <2>3. i \in DOMAIN log /\ new[i] = log[i]
    BY <1>1, <2>1
  <2>4. NoneBetween(new, i, j, Terminal)
    BY <2>1, <2>2, <2>3, StillBetween
  <2>5. QED
    BY <2>1, <2>2, <2>3, <2>4
<1>5. QED
  BY <1>3, <1>4

-----------------------------------------------------------------------------
(* Ledger: retries and circuits                                            *)

LEMMA StillLast ==
  ASSUME NEW log \in Seq(LedgerEvents), NEW e \in LedgerEvents, NEW new, new = Append(log, e),
         NEW i, NEW types, NEW dep, LastOf(log, i, types, dep)
  PROVE  /\ i \in DOMAIN new /\ new[i] = log[i]
         /\ (e.type \in types => e.dep # dep) => LastOf(new, i, types, dep)
         /\ e.dep = dep => LastBefore(new, i, Len(log) + 1, types)
<1>1. /\ Len(log) \in Nat /\ DOMAIN log = 1 .. Len(log) /\ DOMAIN new = 1 .. (Len(log) + 1)
      /\ \A k \in DOMAIN log : new[k] = log[k]
      /\ new[Len(log) + 1] = e
  BY LedgerGrows
<1>2. QED
  BY <1>1 DEF LastOf, LastBefore

LEMMA NowLast ==
  ASSUME NEW log \in Seq(LedgerEvents), NEW e \in LedgerEvents, NEW new, new = Append(log, e),
         NEW types, e.type \in types
  PROVE  LastOf(new, Len(log) + 1, types, e.dep)
<1>1. /\ Len(log) \in Nat /\ DOMAIN new = 1 .. (Len(log) + 1) /\ new[Len(log) + 1] = e
  BY LedgerGrows
<1>2. QED
  BY <1>1 DEF LastOf

LEMMA StillBefore ==
  ASSUME NEW log \in Seq(LedgerEvents), NEW e \in LedgerEvents, NEW new, new = Append(log, e),
         NEW i, NEW j \in DOMAIN log, NEW types, LastBefore(log, i, j, types)
  PROVE  new[i] = log[i] /\ LastBefore(new, i, j, types)
<1>1. /\ Len(log) \in Nat /\ DOMAIN log = 1 .. Len(log)
      /\ \A k \in DOMAIN log : new[k] = log[k]
  BY LedgerGrows
<1>2. QED
  BY <1>1 DEF LastBefore

LEMMA RetriesStep ==
  ASSUME NEW log \in Seq(LedgerEvents), NEW e \in LedgerEvents, NEW new, new = Append(log, e),
         NEW s \in StrictReadings, NEW t, t = StrictStep(s, e), ~StrictFault(s, e),
         RetriesRead(log, s)
  PROVE  RetriesRead(new, t)
<1>1. /\ Len(log) + 1 \in DOMAIN new /\ new[Len(log) + 1] = e /\ EventOK(e)
  BY LedgerGrows
<1>2. SUFFICES ASSUME NEW dep \in Dependencies, t.retry[dep].attempt # 0
               PROVE  \E i \in DOMAIN new : /\ LastOf(new, i, {"RETRY"}, dep)
                                            /\ new[i].attempt = t.retry[dep].attempt
                                            /\ new[i].budget = t.retry[dep].budget
                                            /\ new[i].budget \in 1 .. MaxBudget
  BY DEF RetriesRead
<1>3. t.retry = IF e.type # "RETRY" THEN s.retry
                ELSE [s.retry EXCEPT ![e.dep] = [attempt |-> e.attempt, budget |-> e.budget]]
  BY DEF StrictStep
<1>4. CASE e.type = "RETRY" /\ e.dep = dep
  <2>1. LastOf(new, Len(log) + 1, {"RETRY"}, dep)
    BY <1>4, NowLast
  <2>2. e.attempt \in Nat /\ e.budget \in Nat /\ ~RetryFault(e)
    BY <1>1, <1>4 DEF EventOK, StrictFault
  <2>3. e.budget \in 1 .. MaxBudget
    BY <2>2, LedgerAssumption DEF RetryFault
  <2>4. t.retry[dep] = [attempt |-> e.attempt, budget |-> e.budget]
    BY <1>3, <1>4 DEF StrictReadings
  <2>5. QED
    BY <1>1, <2>1, <2>3, <2>4
<1>5. CASE e.type = "RETRY" => e.dep # dep
  <2>1. t.retry[dep] = s.retry[dep]
    BY <1>3, <1>5 DEF StrictReadings
  <2>2. PICK i \in DOMAIN log : /\ LastOf(log, i, {"RETRY"}, dep)
                                /\ log[i].attempt = s.retry[dep].attempt
                                /\ log[i].budget = s.retry[dep].budget
                                /\ log[i].budget \in 1 .. MaxBudget
    BY <1>2, <2>1 DEF RetriesRead
  <2>3. LastOf(log, i, {"RETRY"}, dep) /\ (e.type \in {"RETRY"} => e.dep # dep)
    BY <1>5, <2>2
  <2>4. i \in DOMAIN new /\ new[i] = log[i] /\ LastOf(new, i, {"RETRY"}, dep)
    BY <2>3, StillLast, Zenon
  <2>5. QED
    BY <2>1, <2>2, <2>4
<1>6. QED
  BY <1>4, <1>5

\* An event about a circuit is the last one; the others leave the circuits.
LEMMA CircuitsStep ==
  ASSUME NEW log \in Seq(LedgerEvents), NEW e \in LedgerEvents, NEW new, new = Append(log, e),
         NEW s \in StrictReadings, NEW t, t = StrictStep(s, e), CircuitsRead(log, s)
  PROVE  CircuitsRead(new, t)
<1>1. /\ Len(log) + 1 \in DOMAIN new /\ new[Len(log) + 1] = e /\ EventOK(e)
  BY LedgerGrows
<1>2. t.circuit = IF e.type \notin Circuit THEN s.circuit
                  ELSE [s.circuit EXCEPT ![e.dep] =
                          IF e.type = "CIRCUIT_OPEN" THEN "OPEN"
                          ELSE IF e.type = "CIRCUIT_HALF_OPEN" THEN "HALF_OPEN" ELSE "CLOSED"]
  BY DEF StrictStep
<1>3. ASSUME NEW dep \in Dependencies, NEW state, NEW type,
             \/ state = "OPEN" /\ type = "CIRCUIT_OPEN"
             \/ state = "HALF_OPEN" /\ type = "CIRCUIT_HALF_OPEN"
      PROVE  StandsBy(new, t, dep, state, type)
  <2>1. SUFFICES ASSUME t.circuit[dep] = state
                 PROVE  \E i \in DOMAIN new : LastOf(new, i, Circuit, dep) /\ new[i].type = type
    BY DEF StandsBy
  <2>2. CASE e.type \in Circuit /\ e.dep = dep
    <3>1. LastOf(new, Len(log) + 1, Circuit, dep)
      BY <2>2, NowLast
    <3>2. e.type = type
      BY <1>2, <1>3, <2>1, <2>2 DEF StrictReadings
    <3>3. QED
      BY <1>1, <3>1, <3>2
  <2>3. CASE e.type \in Circuit => e.dep # dep
    <3>1. s.circuit[dep] = state
      BY <1>2, <2>1, <2>3 DEF StrictReadings
    <3>2. PICK i \in DOMAIN log : LastOf(log, i, Circuit, dep) /\ log[i].type = type
      BY <1>3, <3>1 DEF CircuitsRead, StandsBy
    <3>3. i \in DOMAIN new /\ new[i] = log[i] /\ LastOf(new, i, Circuit, dep)
      BY <2>3, <3>2, StillLast
    <3>4. QED
      BY <3>2, <3>3
  <2>4. QED
    BY <2>2, <2>3
<1>4. QED
  BY <1>3 DEF CircuitsRead

LEMMA EarnedStep ==
  ASSUME NEW log \in Seq(LedgerEvents), NEW e \in LedgerEvents, NEW new, new = Append(log, e),
         NEW s \in StrictReadings, ~StrictFault(s, e),
         RetriesRead(log, s), CircuitsRead(log, s), CircuitsEarned(log)
  PROVE  CircuitsEarned(new)
<1> DEFINE n == Len(log)
<1>1. /\ n \in Nat /\ DOMAIN log = 1 .. n /\ DOMAIN new = 1 .. (n + 1)
      /\ \A i \in DOMAIN log : new[i] = log[i]
      /\ new[n + 1] = e /\ EventOK(e)
  BY LedgerGrows
<1>2. ~CircuitFault(s, e)
  BY DEF StrictFault
<1>3. ASSUME NEW i \in DOMAIN log, NEW types, LastOf(log, i, types, e.dep)
      PROVE  i \in 1..n /\ new[i] = log[i] /\ LastBefore(new, i, n + 1, types)
  BY <1>1, <1>3, StillLast
<1> HIDE DEF n
<1>4. ASSUME NEW j \in DOMAIN new, new[j].type = "CIRCUIT_OPEN"
      PROVE  \E i \in 1..(j - 1) : /\ LastBefore(new, i, j, {"RETRY"})
                                   /\ new[i].attempt = new[i].budget
                                   /\ new[i].budget \in 1 .. MaxBudget
  <2>1. CASE j = n + 1
    <3>1. /\ e.type = "CIRCUIT_OPEN" /\ e.dep \in Dependencies
          /\ s.retry[e.dep].attempt # 0 /\ s.retry[e.dep].attempt = s.retry[e.dep].budget
      BY <1>1, <1>2, <1>4, <2>1 DEF CircuitFault, EventOK, Circuit
    <3>2. PICK i \in DOMAIN log : /\ LastOf(log, i, {"RETRY"}, e.dep)
                                  /\ log[i].attempt = s.retry[e.dep].attempt
                                  /\ log[i].budget = s.retry[e.dep].budget
                                  /\ log[i].budget \in 1 .. MaxBudget
      BY <3>1 DEF RetriesRead
    <3>3. i \in 1..(j - 1) /\ new[i] = log[i] /\ LastBefore(new, i, j, {"RETRY"})
      BY <1>1, <1>3, <2>1, <3>2
    <3>4. QED
      BY <3>1, <3>2, <3>3
  <2>2. CASE j # n + 1
    <3>1. j \in DOMAIN log /\ log[j].type = "CIRCUIT_OPEN"
      BY <1>1, <1>4, <2>2
    <3>2. PICK i \in 1..(j - 1) : /\ LastBefore(log, i, j, {"RETRY"})
                                  /\ log[i].attempt = log[i].budget
                                  /\ log[i].budget \in 1 .. MaxBudget
      BY <3>1 DEF CircuitsEarned
    <3>3. new[i] = log[i] /\ LastBefore(new, i, j, {"RETRY"})
      BY <3>1, <3>2, StillBefore
    <3>4. QED
      BY <3>2, <3>3
  <2>3. QED
    BY <2>1, <2>2
<1>5. ASSUME NEW j \in DOMAIN new, NEW from, NEW to,
             \/ from = "CIRCUIT_OPEN" /\ to = "CIRCUIT_HALF_OPEN"
             \/ from = "CIRCUIT_HALF_OPEN" /\ to = "CIRCUIT_CLOSED"
      PROVE  Follows(new, j, from, to)
  <2>1. SUFFICES ASSUME new[j].type = to
                 PROVE  \E i \in 1..(j - 1) : LastBefore(new, i, j, Circuit) /\ new[i].type = from
    BY DEF Follows
  <2>2. CASE j = n + 1
    <3>1. e.type = to /\ e.dep \in Dependencies
      BY <1>1, <1>5, <2>1, <2>2 DEF EventOK, Circuit
    <3>2. PICK i \in DOMAIN log : LastOf(log, i, Circuit, e.dep) /\ log[i].type = from
      BY <1>2, <1>5, <3>1 DEF CircuitFault, CircuitsRead, StandsBy
    <3>3. i \in 1..(j - 1) /\ new[i] = log[i] /\ LastBefore(new, i, j, Circuit)
      BY <1>1, <1>3, <2>2, <3>2
    <3>4. QED
      BY <3>2, <3>3
  <2>3. CASE j # n + 1
    <3>1. j \in DOMAIN log /\ log[j].type = to
      BY <1>1, <2>1, <2>3
    <3>2. Follows(log, j, from, to)
      BY <1>5, <3>1 DEF CircuitsEarned
    <3>3. PICK i \in 1..(j - 1) : LastBefore(log, i, j, Circuit) /\ log[i].type = from
      BY <3>1, <3>2 DEF Follows
    <3>4. new[i] = log[i] /\ LastBefore(new, i, j, Circuit)
      BY <3>1, <3>3, StillBefore
    <3>5. QED
      BY <3>3, <3>4
  <2>4. QED
    BY <2>2, <2>3
<1>6. QED
  BY <1>4, <1>5 DEF CircuitsEarned

-----------------------------------------------------------------------------
(* Ledger: succession                                                      *)

LEMMA ResultsStep ==
  ASSUME NEW log \in Seq(LedgerEvents), NEW e \in LedgerEvents, NEW new, new = Append(log, e),
         NEW s \in StrictReadings, NEW t, t = StrictStep(s, e), ~StrictFault(s, e),
         ResultsRead(log, s), ReadySucceeds(log)
  PROVE  ResultsRead(new, t) /\ ReadySucceeds(new)
<1> DEFINE n == Len(log)
<1>1. /\ n \in Nat /\ DOMAIN log = 1 .. n /\ DOMAIN new = 1 .. (n + 1)
      /\ \A i \in DOMAIN log : new[i] = log[i]
      /\ new[n + 1] = e /\ EventOK(e)
  BY LedgerGrows
<1> HIDE DEF n
<1>2. /\ t.run.lease = StrictLease(s.run, e)
      /\ t.pending <=>
           \/ e.type \in Terminal /\ StrictMatch(s.run, e)
           \/ /\ s.pending
              /\ e.type \notin {"CLAIMED", "SUCCESSOR_BOUND", "ALL_RUNGS_EXHAUSTED"}
  BY StrictReads
<1>3. /\ e.type \in Terminal /\ s.run.lease # NoClaim => StrictMatch(s.run, e)
      /\ e.type \in {"COMPLETED", "BLOCKED"} => StrictMatch(s.run, e)
  BY StrictMoves
<1>4. ResultsRead(new, t)
  <2>1. SUFFICES ASSUME NEW i \in DOMAIN new, new[i].type \in {"COMPLETED", "BLOCKED"},
                        ~t.pending, t.run.lease = NoClaim
                 PROVE  \E k \in DOMAIN new :
                          k > i /\ new[k].type \in {"SUCCESSOR_BOUND", "ALL_RUNGS_EXHAUSTED"}
    BY DEF ResultsRead
  <2>2. i # n + 1
    BY <1>1, <1>2, <1>3, <2>1 DEF Terminal
  <2>3. i \in DOMAIN log /\ log[i].type \in {"COMPLETED", "BLOCKED"} /\ n + 1 > i
    BY <1>1, <2>1, <2>2
  <2>4. e.type # "CLAIMED"
    BY <1>1, <1>2, <2>1, ClaimIsOne DEF StrictLease
  <2>5. CASE e.type \in {"SUCCESSOR_BOUND", "ALL_RUNGS_EXHAUSTED"}
    BY <1>1, <2>3, <2>5
  <2>6. CASE e.type \notin {"SUCCESSOR_BOUND", "ALL_RUNGS_EXHAUSTED"}
    <3>1. ~s.pending
      BY <1>2, <2>1, <2>4, <2>6
    <3>2. s.run.lease = NoClaim
      BY <1>2, <1>3, <2>1, <2>4 DEF StrictLease
    <3>3. PICK k \in DOMAIN log :
            k > i /\ log[k].type \in {"SUCCESSOR_BOUND", "ALL_RUNGS_EXHAUSTED"}
      BY <2>3, <3>1, <3>2 DEF ResultsRead
    <3>4. QED
      BY <1>1, <3>3
  <2>7. QED
    BY <2>5, <2>6
<1>5. ReadySucceeds(new)
  <2>1. SUFFICES ASSUME NEW i \in DOMAIN new, NEW j \in DOMAIN new, i < j,
                        new[i].type \in {"COMPLETED", "BLOCKED"}, new[j].type = "READY"
                 PROVE  \E k \in (i + 1)..(j - 1) :
                          new[k].type \in {"SUCCESSOR_BOUND", "ALL_RUNGS_EXHAUSTED"}
    BY DEF ReadySucceeds
  <2>2. i \in DOMAIN log /\ log[i].type \in {"COMPLETED", "BLOCKED"}
    BY <1>1, <2>1
  <2>3. CASE j = n + 1
    <3>1. ~s.pending /\ s.run.lease = NoClaim
      BY <1>1, <2>1, <2>3 DEF StrictFault, SuccessionFault, Claimed
    <3>2. PICK k \in DOMAIN log :
            k > i /\ log[k].type \in {"SUCCESSOR_BOUND", "ALL_RUNGS_EXHAUSTED"}
      BY <2>2, <3>1 DEF ResultsRead
    <3>3. QED
      BY <1>1, <2>2, <2>3, <3>2
  <2>4. CASE j # n + 1
    <3>1. j \in DOMAIN log /\ log[j].type = "READY"
      BY <1>1, <2>1, <2>4
    <3>2. PICK k \in (i + 1)..(j - 1) :
            log[k].type \in {"SUCCESSOR_BOUND", "ALL_RUNGS_EXHAUSTED"}
      BY <2>1, <2>2, <3>1 DEF ReadySucceeds
    <3>3. QED
      BY <1>1, <2>2, <3>1, <3>2
  <2>5. QED
    BY <2>3, <2>4
<1>6. QED
  BY <1>4, <1>5

LEMMA StillSince ==
  ASSUME NEW log \in Seq(LedgerEvents), NEW e \in LedgerEvents, NEW new, new = Append(log, e),
         NEW i \in DOMAIN log, NEW types, NoneSince(log, i, types)
  PROVE  /\ e.type \notin types => NoneSince(new, i, types)
         /\ NoneBetween(new, i, Len(log) + 1, types)
<1>1. /\ Len(log) \in Nat /\ DOMAIN log = 1 .. Len(log) /\ DOMAIN new = 1 .. (Len(log) + 1)
      /\ \A k \in DOMAIN log : new[k] = log[k]
      /\ new[Len(log) + 1] = e
  BY LedgerGrows
<1>2. QED
  BY <1>1 DEF NoneSince, NoneBetween

LEMMA ExhaustionStep ==
  ASSUME NEW log \in Seq(LedgerEvents), NEW e \in LedgerEvents, NEW new, new = Append(log, e),
         NEW s \in StrictReadings, ~StrictFault(s, e), ExhaustionRead(log, s.run.exhausted)
  PROVE  ExhaustionRead(new, StrictExhausted(s.run, e))
<1> DEFINE n == Len(log)
<1>1. /\ n \in Nat /\ DOMAIN log = 1 .. n /\ DOMAIN new = 1 .. (n + 1)
      /\ \A i \in DOMAIN log : new[i] = log[i]
      /\ new[n + 1] = e
  BY LedgerGrows
<1> HIDE DEF n
<1>2. SUFFICES ASSUME StrictExhausted(s.run, e) # Null
               PROVE  \E i \in DOMAIN new :
                        /\ new[i].type = "ALL_RUNGS_EXHAUSTED" /\ new[i].valid
                        /\ new[i].head = StrictExhausted(s.run, e)
                        /\ NoneSince(new, i, {"SUCCESSOR_BOUND"})
  BY DEF ExhaustionRead
<1>3. CASE e.type = "ALL_RUNGS_EXHAUSTED"
  <2>1. e.valid /\ StrictExhausted(s.run, e) = e.head
    BY <1>3 DEF StrictFault, SuccessionFault, StrictExhausted
  <2>2. NoneSince(new, n + 1, {"SUCCESSOR_BOUND"})
    BY <1>1 DEF NoneSince
  <2>3. QED
    BY <1>1, <1>3, <2>1, <2>2
<1>4. CASE e.type # "ALL_RUNGS_EXHAUSTED"
  <2>1. StrictExhausted(s.run, e) = s.run.exhausted /\ e.type \notin {"SUCCESSOR_BOUND"}
    BY <1>2, <1>4 DEF StrictExhausted
  <2>2. PICK i \in DOMAIN log : /\ log[i].type = "ALL_RUNGS_EXHAUSTED" /\ log[i].valid
                                /\ log[i].head = s.run.exhausted
                                /\ NoneSince(log, i, {"SUCCESSOR_BOUND"})
    BY <1>2, <2>1 DEF ExhaustionRead
  <2>3. NoneSince(new, i, {"SUCCESSOR_BOUND"})
    BY <2>1, <2>2, StillSince
  <2>4. QED
    BY <1>1, <2>1, <2>2, <2>3
<1>5. QED
  BY <1>3, <1>4

LEMMA IdleStep ==
  ASSUME NEW log \in Seq(LedgerEvents), NEW e \in LedgerEvents, NEW new, new = Append(log, e),
         NEW s \in StrictReadings, ~StrictFault(s, e), ClaimsRead(log, s.run.lease),
         ExhaustionRead(log, s.run.exhausted), IdleProven(log)
  PROVE  IdleProven(new)
<1> DEFINE n == Len(log)
<1>1. /\ n \in Nat /\ DOMAIN log = 1 .. n /\ DOMAIN new = 1 .. (n + 1)
      /\ \A i \in DOMAIN log : new[i] = log[i]
      /\ new[n + 1] = e /\ EventOK(e)
  BY LedgerGrows
<1>2. ASSUME NEW i \in DOMAIN log, NEW types, NoneSince(log, i, types)
      PROVE  NoneBetween(new, i, n + 1, types)
  BY <1>2, StillSince
<1> HIDE DEF n
<1>3. ASSUME NEW j \in DOMAIN new, new[j].type = "IDLE_VALID"
      PROVE  \E i \in 1..(j - 1) : /\ new[i].type = "ALL_RUNGS_EXHAUSTED" /\ new[i].valid
                                   /\ new[i].head = new[j].head
                                   /\ NoneBetween(new, i, j, {"SUCCESSOR_BOUND"})
  <2>1. CASE j = n + 1
    <3>1. s.run.exhausted = e.head /\ e.head # Null
      BY <1>1, <1>3, <2>1, LedgerAssumption DEF StrictFault, SuccessionFault, EventOK
    <3>2. PICK i \in DOMAIN log : /\ log[i].type = "ALL_RUNGS_EXHAUSTED" /\ log[i].valid
                                  /\ log[i].head = s.run.exhausted
                                  /\ NoneSince(log, i, {"SUCCESSOR_BOUND"})
      BY <3>1 DEF ExhaustionRead
    <3>3. NoneBetween(new, i, j, {"SUCCESSOR_BOUND"})
      BY <1>2, <2>1, <3>2
    <3>4. i \in 1..(j - 1) /\ new[i] = log[i] /\ new[j] = e
      BY <1>1, <2>1
    <3>5. QED
      BY <3>1, <3>2, <3>3, <3>4
  <2>2. CASE j # n + 1
    <3>1. j \in DOMAIN log /\ log[j].type = "IDLE_VALID" /\ new[j] = log[j]
      BY <1>1, <1>3, <2>2
    <3>2. PICK i \in 1..(j - 1) : /\ log[i].type = "ALL_RUNGS_EXHAUSTED" /\ log[i].valid
                                  /\ log[i].head = log[j].head
                                  /\ NoneBetween(log, i, j, {"SUCCESSOR_BOUND"})
      BY <3>1 DEF IdleProven
    <3>3. i \in DOMAIN log /\ new[i] = log[i]
      BY <1>1, <3>1
    <3>4. NoneBetween(new, i, j, {"SUCCESSOR_BOUND"})
      BY <3>1, <3>2, <3>3, StillBetween
    <3>5. QED
      BY <3>1, <3>2, <3>3, <3>4
  <2>3. QED
    BY <2>1, <2>2
<1>4. ASSUME NEW j \in DOMAIN new, new[j].type = "IDLE_VALID",
             NEW i \in 1..(j - 1), new[i].type = "CLAIMED"
      PROVE  \E k \in (i + 1)..(j - 1) : new[k].type \in Terminal
  <2>1. i \in DOMAIN log /\ log[i].type = "CLAIMED"
    BY <1>1, <1>4
  <2>2. CASE j = n + 1
    <3>1. s.run.lease = NoClaim
      BY <1>1, <1>4, <2>2 DEF StrictFault, SuccessionFault, Claimed
    <3>2. Claim(log[i]) # NoClaim
      BY <2>1, ClaimIsOne, LedgerGrows
    <3>3. PICK k \in DOMAIN log : Releases(log, i, k)
      BY <2>1, <3>1, <3>2 DEF ClaimsRead
    <3>4. k \in (i + 1)..(j - 1) /\ new[k].type \in Terminal
      BY <1>1, <2>1, <2>2, <3>3 DEF Releases
    <3>5. QED
      BY <3>4
  <2>3. CASE j # n + 1
    <3>1. j \in DOMAIN log /\ log[j].type = "IDLE_VALID"
      BY <1>1, <1>4, <2>3
    <3>2. PICK k \in (i + 1)..(j - 1) : log[k].type \in Terminal
      BY <1>4, <2>1, <3>1 DEF IdleProven
    <3>3. k \in DOMAIN log
      BY <1>1, <2>1, <3>1
    <3>4. QED
      BY <1>1, <3>2, <3>3
  <2>4. QED
    BY <2>2, <2>3
<1>5. QED
  BY <1>3, <1>4 DEF IdleProven

-----------------------------------------------------------------------------
(* Ledger: where the kernel is the stricter program                        *)

LEMMA KeysStep ==
  ASSUME NEW log \in Seq(LedgerEvents), NEW e \in LedgerEvents, NEW new, new = Append(log, e),
         NEW r \in Readings, NEW reused, KeysRead(log, r.keys)
  PROVE  KeysRead(new, Remember(r, e, reused))
<1>1. /\ Len(log) \in Nat /\ DOMAIN log = 1 .. Len(log) /\ DOMAIN new = 1 .. (Len(log) + 1)
      /\ \A k \in DOMAIN log : new[k] = log[k]
      /\ new[Len(log) + 1] = e /\ EventOK(e)
  BY LedgerGrows
<1>2. SUFFICES ASSUME NEW key \in Keys, Remember(r, e, reused)[key] # NoClaim
               PROVE  \E i \in DOMAIN new :
                        /\ new[i].type = "CLAIMED" /\ new[i].key = key
                        /\ new[i].lease = Remember(r, e, reused)[key].lease
  BY DEF KeysRead
<1>3. CASE e.type = "CLAIMED" /\ ~reused /\ e.key = key
  <2>1. Remember(r, e, reused)[key] = Claim(e)
    BY <1>3 DEF Remember, Readings
  <2>2. QED
    BY <1>1, <1>3, <2>1 DEF Claim
<1>4. CASE ~(e.type = "CLAIMED" /\ ~reused /\ e.key = key)
  <2>1. Remember(r, e, reused)[key] = r.keys[key]
    BY <1>4 DEF Remember, Readings
  <2>2. PICK i \in DOMAIN log : /\ log[i].type = "CLAIMED" /\ log[i].key = key
                                /\ log[i].lease = r.keys[key].lease
    BY <1>2, <2>1 DEF KeysRead
  <2>3. QED
    BY <1>1, <2>1, <2>2
<1>5. QED
  BY <1>3, <1>4

LEMMA NamedBefore ==
  ASSUME NEW log \in Seq(LedgerEvents), NEW e \in LedgerEvents, NEW new, new = Append(log, e),
         Named(new)
  PROVE  /\ Named(log)
         /\ e.type \in Working \union Terminal => e.lease # Null /\ ~e.reconciled
         /\ \A i \in DOMAIN log :
              log[i].type = "CLAIMED" /\ e.type = "CLAIMED" /\ log[i].key = e.key =>
                log[i].lease = e.lease
<1>1. /\ Len(log) \in Nat /\ DOMAIN log = 1 .. Len(log) /\ DOMAIN new = 1 .. (Len(log) + 1)
      /\ \A k \in DOMAIN log : new[k] = log[k]
      /\ new[Len(log) + 1] = e
  BY LedgerGrows
<1>2. QED
  BY <1>1 DEF Named

\* What the kernel accepts is no fault of the watchdog's.
LEMMA AgreeStep ==
  ASSUME NEW log \in Seq(LedgerEvents), NEW e \in LedgerEvents, NEW new, new = Append(log, e),
         NEW s \in LiveReadings, NEW t \in StrictReadings, KeysRead(log, t.run.keys),
         Named(new), Agrees(s, t), ~StrictFault(t, e)
  PROVE  Agrees(LiveStep(s, e), StrictStep(t, e))
<1>1. EventOK(e) /\ s.run \in Readings /\ t.run \in Readings
  BY EventsAreOK DEF LiveReadings, StrictReadings
<1>2. /\ e.type \in Working \union Terminal => e.lease # Null /\ ~e.reconciled
      /\ \A i \in DOMAIN log :
           log[i].type = "CLAIMED" /\ e.type = "CLAIMED" /\ log[i].key = e.key =>
             log[i].lease = e.lease
  BY NamedBefore
<1>3. /\ s.run.lease = t.run.lease /\ s.run.keys = t.run.keys /\ s.run.last = t.run.last
      /\ s.run.opened = t.run.opened /\ s.run.closed = t.run.closed /\ s.run.clean
      /\ t.run.exhausted # Null => s.run.exhausted = t.run.exhausted
      /\ t.pending => s.terminal
  BY DEF Agrees
<1>4. ASSUME e.type = "CLAIMED" PROVE ~LiveReuse(s.run, e) /\ ~StrictReuse(t.run, e)
  <2>1. ~StrictReuse(t.run, e) /\ e.key \in Keys
    BY <1>1, <1>4 DEF StrictFault, StrictClaimFault, EventOK
  <2>2. ASSUME t.run.keys[e.key] # NoClaim
        PROVE  SameWork(t.run.keys[e.key], e) /\ t.run.keys[e.key].lease = e.lease
    <3>1. PICK i \in DOMAIN log : /\ log[i].type = "CLAIMED" /\ log[i].key = e.key
                                  /\ log[i].lease = t.run.keys[e.key].lease
      BY <2>1, <2>2 DEF KeysRead
    <3>2. QED
      BY <1>2, <1>4, <2>1, <2>2, <3>1 DEF StrictReuse
  <2>3. QED
    BY <1>3, <2>1, <2>2 DEF LiveReuse
<1>5. StrictMatch(t.run, e) /\ e.type \in Working \union Terminal => LiveMatch(s.run, e)
  BY <1>2, <1>3 DEF StrictMatch, LiveMatch, Claimed
<1>6. e.type \in Working \union Terminal => StrictMatch(t.run, e)
  BY <1>2 DEF StrictFault, StrictClaimFault, StrictMatch
<1>7. ~LiveFault(s, e)
  <2>1. ~Disorder(s.run, e)
    BY <1>3 DEF StrictFault, Disorder
  <2>2. ~(e.type = "CLAIMED" /\ (LiveReuse(s.run, e) \/ Claimed(s.run)))
    BY <1>3, <1>4 DEF StrictFault, StrictClaimFault, Claimed
  <2>3. ~(e.type \in Working \union Terminal /\ ~LiveMatch(s.run, e))
    BY <1>5, <1>6
  <2>4. ~(e.type = "RETRY" /\ RetryFault(e))
    BY DEF StrictFault
  <2>5. /\ ~(e.type = "ALL_RUNGS_EXHAUSTED" /\ ~e.valid)
        /\ ~(e.type = "IDLE_VALID" /\ s.run.exhausted # e.head)
        /\ ~(e.type = "SUCCESSOR_BOUND" /\ ~s.terminal)
        /\ ~(e.type = "SHIFT_CLOSE" /\ Claimed(s.run))
    BY <1>1, <1>3, LedgerAssumption DEF StrictFault, SuccessionFault, Claimed, EventOK
  <2>6. QED
    BY <2>1, <2>2, <2>3, <2>4, <2>5 DEF LiveFault
<1>8. LiveLease(s.run, e) = StrictLease(t.run, e)
  <2>1. CASE e.type = "CLAIMED"
    BY <1>3, <2>1 DEF LiveLease, StrictLease, StrictFault, StrictClaimFault, Claimed
  <2>2. CASE e.type # "CLAIMED"
    BY <1>3, <1>5, <1>6, <2>2 DEF LiveLease, StrictLease
  <2>3. QED
    BY <2>1, <2>2
<1>9. Remember(s.run, e, e.type = "CLAIMED" /\ LiveReuse(s.run, e))
        = Remember(t.run, e, e.type = "CLAIMED" /\ StrictReuse(t.run, e))
  BY <1>3, <1>4 DEF Remember
<1> DEFINE u == LiveStep(s, e)
           v == StrictStep(t, e)
<1>10. u = LiveStep(s, e) /\ v = StrictStep(t, e)
  OBVIOUS
<1> HIDE DEF u, v
<1>11. /\ u.run.clean <=> s.run.clean /\ ~LiveFault(s, e)
       /\ u.run.opened <=> s.run.opened \/ e.type = "SHIFT_OPEN"
       /\ u.run.closed <=> s.run.closed \/ e.type = "SHIFT_CLOSE"
       /\ u.run.last = e.at /\ u.run.lease = LiveLease(s.run, e)
       /\ u.run.keys = Remember(s.run, e, e.type = "CLAIMED" /\ LiveReuse(s.run, e))
       /\ u.run.exhausted = IF e.type = "ALL_RUNGS_EXHAUSTED" THEN e.head ELSE s.run.exhausted
       /\ u.terminal <=> s.terminal \/ (e.type \in Terminal /\ LiveMatch(s.run, e))
       /\ u.run \in Readings
  BY <1>10, LiveReads DEF LiveReadings
<1>12. /\ v.run.opened <=> t.run.opened \/ e.type = "SHIFT_OPEN"
       /\ v.run.closed <=> t.run.closed \/ e.type = "SHIFT_CLOSE"
       /\ v.run.last = e.at /\ v.run.lease = StrictLease(t.run, e)
       /\ v.run.keys = Remember(t.run, e, e.type = "CLAIMED" /\ StrictReuse(t.run, e))
       /\ v.run.exhausted = StrictExhausted(t.run, e)
       /\ v.pending <=>
            \/ e.type \in Terminal /\ StrictMatch(t.run, e)
            \/ /\ t.pending
               /\ e.type \notin {"CLAIMED", "SUCCESSOR_BOUND", "ALL_RUNGS_EXHAUSTED"}
       /\ v \in StrictReadings
  BY <1>10, StrictReads
<1>13. u.run.opened = v.run.opened /\ u.run.closed = v.run.closed
  BY <1>3, <1>11, <1>12 DEF Readings, StrictReadings
<1>14. v.run.exhausted # Null => u.run.exhausted = v.run.exhausted
  BY <1>3, <1>11, <1>12 DEF StrictExhausted
<1>15. v.pending => u.terminal
  BY <1>3, <1>5, <1>11, <1>12
<1>16. Agrees(u, v)
  BY <1>3, <1>7, <1>8, <1>9, <1>11, <1>12, <1>13, <1>14, <1>15 DEF Agrees
<1>17. QED
  BY <1>10, <1>16

-----------------------------------------------------------------------------
(* Ledger: the invariant holds                                             *)

LEMMA LedgerStarts ==
  ASSUME LedgerInit
  PROVE  LedgerInv
<1>1. ledger = <<>> /\ DOMAIN ledger = {}
  BY DEF LedgerInit
<1>2. /\ live.run = Fresh /\ strict.run = Fresh
      /\ strict.pending = FALSE
      /\ strict.retry = [d \in Dependencies |-> [attempt |-> 0, budget |-> 0]]
      /\ strict.circuit = [d \in Dependencies |-> "CLOSED"]
  BY DEF LedgerInit
<1>3. Fresh \in Readings /\ Fresh.lease = NoClaim /\ Fresh.exhausted = Null
        /\ \A k \in Keys : Fresh.keys[k] = NoClaim
  BY NoClaimIsRecord DEF Fresh, Readings
<1>4. live \in LiveReadings /\ strict \in StrictReadings
  BY <1>3 DEF LedgerInit, LiveReadings, StrictReadings
<1>5. ClaimsRead(ledger, NoClaim) /\ ReleasedInTurn(ledger)
  BY <1>1 DEF ClaimsRead, ReleasedInTurn
<1>6. WorkNamed(ledger) /\ WorkTimed(ledger) /\ CircuitsEarned(ledger) /\ ReadySucceeds(ledger)
        /\ IdleProven(ledger)
  BY <1>1 DEF WorkNamed, WorkTimed, CircuitsEarned, ReadySucceeds, IdleProven
<1>7. RetriesRead(ledger, strict) /\ CircuitsRead(ledger, strict) /\ ResultsRead(ledger, strict)
  BY <1>1, <1>2 DEF RetriesRead, CircuitsRead, StandsBy, ResultsRead
<1>8. ExhaustionRead(ledger, strict.run.exhausted) /\ KeysRead(ledger, strict.run.keys)
  BY <1>2, <1>3 DEF ExhaustionRead, KeysRead
<1>9. Agrees(live, strict)
  BY <1>2, <1>3 DEF Agrees, Fresh
<1>10. ledger \in Seq(LedgerEvents)
  BY <1>1
<1>11. QED
  BY <1>2, <1>3, <1>4, <1>5, <1>6, <1>7, <1>8, <1>9, <1>10
     DEF LedgerInv, LiveInv, StrictInv, AgreeInv

LEMMA LedgerSteps ==
  ASSUME LedgerInv, NEW e \in LedgerEvents, Write(e)
  PROVE  LedgerInv'
<1>1. /\ ledger \in Seq(LedgerEvents) /\ live \in LiveReadings /\ strict \in StrictReadings
      /\ LiveInv(ledger, live) /\ StrictInv(ledger, strict)
      /\ KeysRead(ledger, strict.run.keys) /\ AgreeInv(ledger, live, strict)
  BY DEF LedgerInv
<1>2. /\ ledger' = Append(ledger, e)
      /\ live' = LiveStep(live, e) /\ strict' = StrictStep(strict, e)
  BY DEF Write
<1>3. ledger' \in Seq(LedgerEvents)
  BY <1>1, <1>2, LedgerGrows
<1>4. /\ live' \in LiveReadings
      /\ live'.run.clean <=> live.run.clean /\ ~LiveFault(live, e)
      /\ live'.run.lease = LiveLease(live.run, e)
  BY <1>1, <1>2, LiveReads
<1>5. /\ strict' \in StrictReadings
      /\ strict'.run.clean <=> strict.run.clean /\ ~StrictFault(strict, e)
      /\ strict'.run.lease = StrictLease(strict.run, e)
      /\ strict'.run.keys
           = Remember(strict.run, e, e.type = "CLAIMED" /\ StrictReuse(strict.run, e))
      /\ strict'.run.exhausted = StrictExhausted(strict.run, e)
  BY <1>1, <1>2, StrictReads
<1>6. ASSUME live'.run.clean
      PROVE  ClaimsRead(ledger', live'.run.lease) /\ ReleasedInTurn(ledger') /\ WorkNamed(ledger')
  <2>1. /\ ~LiveFault(live, e)
        /\ ClaimsRead(ledger, live.run.lease) /\ ReleasedInTurn(ledger) /\ WorkNamed(ledger)
    BY <1>1, <1>4, <1>6 DEF LiveInv
  <2>2. /\ LeaseMoves(live.run.lease, e, LiveLease(live.run, e))
        /\ e.type \in Working \union Terminal =>
             /\ live.run.lease # NoClaim /\ SameWork(live.run.lease, e)
             /\ live.run.lease.key = e.key /\ live.run.lease.lease = e.lease
    BY <1>1, <2>1, LiveMoves
  <2>3. ClaimsRead(ledger', LiveLease(live.run, e)) /\ ReleasedInTurn(ledger')
    <3> DEFINE old == live.run.lease
               lease == LiveLease(live.run, e)
    <3>1. LeaseMoves(old, e, lease) /\ ClaimsRead(ledger, old)
      BY <2>1, <2>2
    <3> HIDE DEF old, lease
    <3>2. ClaimsRead(ledger', lease) /\ ReleasedInTurn(ledger')
      BY ONLY <1>1, <1>2, <2>1, <3>1, ClaimsStep
    <3>3. QED
      BY <3>2 DEF lease
  <2>4. WorkNamed(ledger')
    BY ONLY <1>1, <1>2, <2>1, <2>2, WorkNamedStep
  <2>5. QED
    BY <1>4, <2>3, <2>4
<1>7. ASSUME strict'.run.clean
      PROVE  /\ ClaimsRead(ledger', strict'.run.lease) /\ ReleasedInTurn(ledger')
             /\ WorkTimed(ledger')
             /\ RetriesRead(ledger', strict') /\ CircuitsRead(ledger', strict')
             /\ CircuitsEarned(ledger')
             /\ ResultsRead(ledger', strict') /\ ReadySucceeds(ledger')
             /\ ExhaustionRead(ledger', strict'.run.exhausted) /\ IdleProven(ledger')
  <2>1. ~StrictFault(strict, e) /\ strict.run.clean
    BY <1>5, <1>7
  <2>2. /\ ClaimsRead(ledger, strict.run.lease) /\ ReleasedInTurn(ledger) /\ WorkTimed(ledger)
        /\ RetriesRead(ledger, strict) /\ CircuitsRead(ledger, strict) /\ CircuitsEarned(ledger)
        /\ ResultsRead(ledger, strict) /\ ReadySucceeds(ledger)
        /\ ExhaustionRead(ledger, strict.run.exhausted) /\ IdleProven(ledger)
    BY <1>1, <2>1 DEF StrictInv
  <2>3. /\ LeaseMoves(strict.run.lease, e, StrictLease(strict.run, e))
        /\ e.type \in Working \union {"COMPLETED", "BLOCKED"} =>
             /\ strict.run.lease # NoClaim /\ SameWork(strict.run.lease, e)
             /\ strict.run.lease.key = e.key /\ e.at <= strict.run.lease.expires
    BY <1>1, <2>1, StrictMoves
  <2>4. ClaimsRead(ledger', StrictLease(strict.run, e)) /\ ReleasedInTurn(ledger')
    <3> DEFINE old == strict.run.lease
               lease == StrictLease(strict.run, e)
    <3>1. LeaseMoves(old, e, lease) /\ ClaimsRead(ledger, old)
      BY <2>2, <2>3
    <3> HIDE DEF old, lease
    <3>2. ClaimsRead(ledger', lease) /\ ReleasedInTurn(ledger')
      BY ONLY <1>1, <1>2, <2>2, <3>1, ClaimsStep
    <3>3. QED
      BY <3>2 DEF lease
  <2>5. WorkTimed(ledger')
    BY ONLY <1>1, <1>2, <2>2, <2>3, WorkTimedStep
  <2>6. RetriesRead(ledger', strict')
    BY ONLY <1>1, <1>2, <2>1, <2>2, RetriesStep
  <2>7. CircuitsRead(ledger', strict')
    BY ONLY <1>1, <1>2, <2>2, CircuitsStep
  <2>8. CircuitsEarned(ledger')
    BY ONLY <1>1, <1>2, <2>1, <2>2, EarnedStep
  <2>9. ResultsRead(ledger', strict') /\ ReadySucceeds(ledger')
    BY ONLY <1>1, <1>2, <2>1, <2>2, ResultsStep
  <2>10. ExhaustionRead(ledger', strict'.run.exhausted)
    BY ONLY <1>1, <1>2, <1>5, <2>1, <2>2, ExhaustionStep
  <2>11. IdleProven(ledger')
    BY ONLY <1>1, <1>2, <2>1, <2>2, IdleStep
  <2>12. QED
    BY <1>5, <2>4, <2>5, <2>6, <2>7, <2>8, <2>9, <2>10, <2>11
<1>8. KeysRead(ledger', strict'.run.keys)
  <2>1. strict.run \in Readings
    BY <1>1 DEF StrictReadings
  <2>2. QED
    BY <1>1, <1>2, <1>5, <2>1, KeysStep
<1>9. ASSUME strict'.run.clean, Named(ledger')
      PROVE  Agrees(live', strict')
  <2>1. ~StrictFault(strict, e) /\ strict.run.clean
    BY <1>5, <1>9
  <2>2. Named(ledger)
    BY <1>1, <1>2, <1>9, NamedBefore
  <2>3. Agrees(live, strict)
    BY <1>1, <2>1, <2>2 DEF AgreeInv
  <2>4. QED
    BY ONLY <1>1, <1>2, <1>9, <2>1, <2>3, AgreeStep
<1>10. QED
  BY <1>3, <1>4, <1>5, <1>6, <1>7, <1>8, <1>9 DEF LedgerInv, LiveInv, StrictInv, AgreeInv

-----------------------------------------------------------------------------
(* Ledger: what the validators promise                                     *)

LEMMA LedgerConsistent ==
  ASSUME LedgerInv
  PROVE  LedgersAreConsistent
<1>1. /\ Len(ledger) \in Nat /\ DOMAIN ledger = 1 .. Len(ledger)
  BY DEF LedgerInv
<1>2. ClaimsAreReleased
  BY <1>1 DEF LedgerInv, LiveInv, StrictInv, ReleasedInTurn, Releases, ClaimsAreReleased, Positions,
     Is
<1>3. WorkNamesItsLease
  BY <1>1 DEF LedgerInv, LiveInv, WorkNamed, NoneBetween, WorkNamesItsLease, Positions, Is, Between
<1>4. WorkIsInTime
  BY <1>1 DEF LedgerInv, StrictInv, WorkTimed, NoneBetween, WorkIsInTime, Positions, Is, Between
<1>5. CircuitIsEarned
  BY <1>1 DEF LedgerInv, StrictInv, CircuitsEarned, Follows, LastBefore, CircuitIsEarned, Positions,
     Is
<1>6. ReadyHasSuccessor
  BY <1>1 DEF LedgerInv, StrictInv, ReadySucceeds, ReadyHasSuccessor, Positions, Is, Between
<1>7. IdleIsProven
  BY <1>1 DEF LedgerInv, StrictInv, IdleProven, NoneBetween, IdleIsProven, Positions, Is, Between
<1>8. StricterWhereNamed
  BY DEF LedgerInv, AgreeInv, Named, Agrees, StricterWhereNamed, Positions, Is
<1>9. QED
  BY <1>2, <1>3, <1>4, <1>5, <1>6, <1>7, <1>8 DEF LedgersAreConsistent

\* Of every ledger that the two validators accept so far: a claim is released, by its own
\* work, head and key, before the next one; work names the lease of the last claim and lies
\* inside it and inside its time; circuits open, are tried and close in turn; READY and
\* idleness follow a successor or a proof of exhaustion; and what the kernel accepts the
\* watchdog accepts where leases are named.
THEOREM LedgersStayConsistent == LedgerSpec => []LedgersAreConsistent
<1>1. LedgerInit => LedgerInv
  BY LedgerStarts
<1>2. LedgerInv /\ [LedgerNext]_ledgerVars => LedgerInv'
  <2>1. SUFFICES ASSUME LedgerInv, [LedgerNext]_ledgerVars
                 PROVE  LedgerInv'
    OBVIOUS
  <2>2. CASE LedgerNext
    <3>1. PICK e \in LedgerEvents : Write(e)
      BY <2>2 DEF LedgerNext
    <3>2. QED
      BY <2>1, <3>1, LedgerSteps
  <2>3. CASE UNCHANGED ledgerVars
    BY <2>1, <2>3 DEF ledgerVars, LedgerInv
  <2>4. QED
    BY <2>1, <2>2, <2>3
<1>3. LedgerInv => LedgersAreConsistent
  BY LedgerConsistent
<1>4. QED
  BY <1>1, <1>2, <1>3, PTL DEF LedgerSpec
==============================================================================
