--------------------------- MODULE ActiveWorkPacket ---------------------------
(***************************************************************************)
(* The active-work packet and the operations on it                         *)
(* (control-gateway/src/active-work-state.js): which operation of a        *)
(* workstream is current, the receipts of the ones that ended, the         *)
(* successors that are offered, the standing of the current one and the    *)
(* authority under which it works.                                         *)
(*                                                                         *)
(* The three standings (qualification, admission, A-01) count by what they *)
(* make of the packet: RECONCILE where one is failed, denied, stale or     *)
(* blocked, else PASSED where it is qualified and admitted, else PENDING.  *)
(* A packet whose A-01 standing is blocked may be qualified and admitted   *)
(* all the same.  The authority is its subject, which stands for   *)
(* repository, branch and scope as well.  The next legal operation is      *)
(* derived, and a packet that stores another is refused.                   *)
(***************************************************************************)
EXTENDS Naturals, Sequences, FiniteSets

CONSTANTS
  Operations,   \* operation ids
  ReceiptIds,   \* receipt ids
  Subjects,     \* what may be authoritative
  Offers,       \* sets of successors that a caller offers
  Edges,        \* the dependency graph: Edges[o] are the receipts it may require
  First,        \* packets that a history may be requested to begin with
  MaxEpoch,     \* bound on the rebinds
  MaxLength,    \* bound on a history
  None          \* no receipt, no id

Standings == {"PENDING", "PASSED", "RECONCILE"}

Receipt ==
  [id : ReceiptIds, op : Operations, outcome : {"SUCCEEDED", "FAILED"}, satisfies : BOOLEAN]

Candidate ==
  [op : Operations, pred : ReceiptIds, needs : SUBSET ReceiptIds, standing : Standings]

Packet ==
  [op : Operations, state : {"ACTIVE", "BLOCKED", "TERMINAL"}, pred : ReceiptIds \union {None},
   last : Receipt \union {None}, receipts : SUBSET Receipt, candidates : SUBSET Candidate,
   standing : Standings, epoch : Nat \ {0}, rebind : ReceiptIds \union {None}, subject : Subjects]

ASSUME PacketAssumption ==
  /\ Edges \in [Operations -> SUBSET ReceiptIds]
  /\ {} \in Offers /\ \A offer \in Offers : offer \subseteq Candidate
  /\ None \notin ReceiptIds /\ None \notin Receipt
  /\ First \subseteq Packet

Known(p, id) == \E r \in p.receipts : r.id = id

\* A receipt of success that others may depend on.
Earned(p, id) ==
  \E r \in p.receipts : r.id = id /\ r.outcome = "SUCCEEDED" /\ r.satisfies

Satisfied(p, id) == \E r \in p.receipts : r.id = id /\ r.satisfies

\* validatePacketBase
Valid(p) ==
  /\ \A r, s \in p.receipts : r.id = s.id => r = s
  /\ p.last # None => p.last \in p.receipts
  /\ p.state = "TERMINAL" => p.last # None /\ p.last.op = p.op
  /\ \A c, d \in p.candidates : c.op = d.op => c = d
  /\ \A c \in p.candidates : c.needs \subseteq Edges[c.op]
  /\ p.rebind # None => Earned(p, p.rebind)

\* The successors whose predecessor and requirements are there.
Eligible(p) ==
  {c \in p.candidates : c.pred = p.last.id /\ \A id \in c.needs : Satisfied(p, id)}

NextLegal(p) ==
  CASE p.state # "TERMINAL" /\ (p.standing = "RECONCILE" \/ p.state = "BLOCKED") ->
         "RECONCILE_CURRENT"
    [] p.state = "ACTIVE" /\ p.standing # "RECONCILE" -> "CONTINUE_CURRENT"
    [] p.state = "TERMINAL" /\ Cardinality(Eligible(p)) = 0 -> "NO_LEGAL_SUCCESSOR"
    [] p.state = "TERMINAL" /\ Cardinality(Eligible(p)) = 1 -> "START_SUCCESSOR"
    [] OTHER -> "AMBIGUOUS_SUCCESSORS"

-----------------------------------------------------------------------------
(* The operations: the packets that each may make of p                     *)

\* finalizeActiveWorkPacket: what is not valid is not made.
Finalized(packets) == {q \in packets : Valid(q)}

UpdateStanding(p, standing) == Finalized({[p EXCEPT !.standing = standing]})

\* BLOCKED and ACTIVE in turn; successors may be offered with it.
Interrupt(p) ==
  Finalized({[p EXCEPT !.state = IF @ = "ACTIVE" THEN "BLOCKED" ELSE "ACTIVE",
                       !.candidates = offer] :
             offer \in {o \in Offers : p.state # "TERMINAL"}})

Terminated(p, r, offer) ==
  [p EXCEPT !.state = "TERMINAL", !.last = r, !.candidates = offer,
            !.receipts = @ \union {r}]

Terminate(p) ==
  Finalized({Terminated(p, r, offer) :
             r \in {r \in Receipt : p.state # "TERMINAL" /\ r.op = p.op /\ ~Known(p, r.id)},
             offer \in Offers})

Started(p, c, offer) ==
  [p EXCEPT !.op = c.op, !.state = "ACTIVE", !.pred = c.pred,
            !.standing = c.standing, !.candidates = offer]

Start(p) ==
  Finalized({Started(p, c, offer) :
             c \in {c \in p.candidates : NextLegal(p) = "START_SUCCESSOR" /\ c \in Eligible(p)},
             offer \in Offers})

Bound(p, id, subject) == [p EXCEPT !.epoch = @ + 1, !.rebind = id, !.subject = subject]

Rebind(p) ==
  Finalized({Bound(p, id, s) : id \in {id \in ReceiptIds : Earned(p, id)}, s \in Subjects})

-----------------------------------------------------------------------------
(* What a history of packets keeps                                         *)

\* An operation that is no longer current left a receipt.
NothingIsDropped(log) ==
  \A i, j \in DOMAIN log :
    i < j /\ log[i].op # log[j].op => \E r \in log[j].receipts : r.op = log[i].op

ReceiptsStay(log) ==
  \A i, j \in DOMAIN log : i < j => log[i].receipts \subseteq log[j].receipts

\* An epoch names one authority.
EpochNamesAuthority(log) ==
  \A i, j \in DOMAIN log : log[i].epoch = log[j].epoch => log[i].subject = log[j].subject

\* The epoch goes up by one exactly where the authority changes.
EpochCountsChanges(log) ==
  \A i \in DOMAIN log \ {1} :
    log[i].epoch = log[i - 1].epoch + (IF log[i].subject = log[i - 1].subject THEN 0 ELSE 1)

\* Another authority than the first has a receipt of success behind it.
AuthorityIsEarned(log) ==
  \A i \in DOMAIN log :
    log[i].subject # log[1].subject => Earned(log[i], log[i].rebind)

\* Work that was begun as a successor follows from a receipt in the packet.
SuccessorsAreFounded(log) ==
  \A i \in DOMAIN log : log[i].op # log[1].op => Known(log[i], log[i].pred)
=============================================================================
