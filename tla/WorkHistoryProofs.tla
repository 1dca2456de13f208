--------------------------- MODULE WorkHistoryProofs ---------------------------
(***************************************************************************)
(* Proofs about histories of packets, for any operations, successors and   *)
(* authorities: those of WorkLog and of ActiveWorkStore.  An operation     *)
(* makes a packet that Follows the one it was made from, and to follow is  *)
(* transitive; so each packet of a history that is Chained follows all     *)
(* before it, which is what the properties of a history ask of two of its  *)
(* packets.                                                                *)
(***************************************************************************)
EXTENDS WorkLog, ActiveWorkStore, SequenceTheorems, TLAPS

Follows(p, q) ==
  /\ p.receipts \subseteq q.receipts
  /\ p.op # q.op => \E r \in q.receipts : r.op = p.op
  /\ (q.op = p.op /\ q.pred = p.pred) \/ Known(q, q.pred)
  /\ \/ q.epoch = p.epoch /\ q.subject = p.subject /\ q.rebind = p.rebind
     \/ q.epoch > p.epoch /\ q.rebind # None

Proper(p) == p \in Packet /\ Valid(p)

Chained(h) ==
  /\ h \in Seq(Packet)
  /\ \A i \in DOMAIN h : Valid(h[i])
  /\ \A i, j \in DOMAIN h : i < j => Follows(h[i], h[j])

-----------------------------------------------------------------------------

LEMMA FollowsRefl ==
  ASSUME NEW p
  PROVE  Follows(p, p)
  BY DEF Follows

LEMMA FollowsTrans ==
  ASSUME NEW p \in Packet, NEW q \in Packet, NEW r \in Packet, Follows(p, q), Follows(q, r)
  PROVE  Follows(p, r)
<1>1. p.receipts \subseteq r.receipts
  BY DEF Follows
<1>2. p.op # r.op => \E x \in r.receipts : x.op = p.op
  BY DEF Follows
<1>3. (r.op = p.op /\ r.pred = p.pred) \/ Known(r, r.pred)
  BY DEF Follows, Known
<1>4. p.epoch \in Nat /\ q.epoch \in Nat /\ r.epoch \in Nat
  BY DEF Packet
<1>5. \/ r.epoch = p.epoch /\ r.subject = p.subject /\ r.rebind = p.rebind
      \/ r.epoch > p.epoch /\ r.rebind # None
  BY <1>4 DEF Follows
<1> QED
  BY <1>1, <1>2, <1>3, <1>5 DEF Follows

LEMMA StandingFollows ==
  ASSUME NEW p, Proper(p), NEW standing \in Standings, NEW q \in UpdateStanding(p, standing)
  PROVE  Proper(q) /\ Follows(p, q)
<1>1. q = [p EXCEPT !.standing = standing] /\ Valid(q)
  BY DEF UpdateStanding, Finalized
<1> QED
  BY <1>1 DEF Proper, Follows, Packet

LEMMA InterruptFollows ==
  ASSUME NEW p, Proper(p), NEW q \in Interrupt(p)
  PROVE  Proper(q) /\ Follows(p, q)
<1> DEFINE state == IF p.state = "ACTIVE" THEN "BLOCKED" ELSE "ACTIVE"
<1>1. PICK offer \in Offers :
        q = [p EXCEPT !.state = state, !.candidates = offer] /\ Valid(q)
  BY DEF Interrupt, Finalized, Proper, Packet
<1>2. offer \in SUBSET Candidate
  BY PacketAssumption
<1> QED
  BY <1>1, <1>2 DEF Proper, Follows, Packet

LEMMA TerminateFollows ==
  ASSUME NEW p, Proper(p), NEW q \in Terminate(p)
  PROVE  Proper(q) /\ Follows(p, q)
<1>1. PICK r \in Receipt, offer \in Offers :
        q = Terminated(p, r, offer) /\ Valid(q)
  BY DEF Terminate, Finalized
<1>2. offer \in SUBSET Candidate
  BY PacketAssumption
<1> QED
  BY <1>1, <1>2 DEF Proper, Follows, Packet, Terminated

LEMMA StartFollows ==
  ASSUME NEW p, Proper(p), NEW q \in Start(p)
  PROVE  Proper(q) /\ Follows(p, q)
<1>1. PICK c \in p.candidates, offer \in Offers :
        /\ NextLegal(p) = "START_SUCCESSOR" /\ c \in Eligible(p)
        /\ q = Started(p, c, offer) /\ Valid(q)
  BY DEF Start, Finalized
<1>2. offer \in SUBSET Candidate /\ c \in Candidate
  BY PacketAssumption DEF Proper, Packet
<1>3. Proper(q)
  BY <1>1, <1>2 DEF Proper, Started, Packet, Candidate
<1>4. p.state = "TERMINAL"
  BY <1>1 DEF NextLegal
<1>5. p.last \in p.receipts /\ p.last.op = p.op
  BY <1>4 DEF Proper, Valid
<1>6. /\ q.receipts = p.receipts /\ q.epoch = p.epoch /\ q.subject = p.subject
      /\ q.rebind = p.rebind /\ q.pred = c.pred
  BY <1>1 DEF Started, Proper, Packet
<1>7. Known(q, q.pred)
  BY <1>1, <1>5, <1>6 DEF Known, Eligible
<1> QED
  BY <1>3, <1>5, <1>6, <1>7 DEF Follows

LEMMA RebindFollows ==
  ASSUME NEW p, Proper(p), NEW q \in Rebind(p)
  PROVE  Proper(q) /\ Follows(p, q)
<1>1. PICK id \in ReceiptIds, s \in Subjects : q = Bound(p, id, s) /\ Valid(q)
  BY DEF Rebind, Finalized
<1>2. q = [p EXCEPT !.epoch = @ + 1, !.rebind = id, !.subject = s] /\ id # None
  BY <1>1, PacketAssumption DEF Bound
<1>3. p \in Packet /\ p.epoch \in Nat
  BY DEF Proper, Packet
<1>4. Proper(q)
  <2>1. PICK e \in Nat \ {0} : e = p.epoch + 1
    BY <1>3
  <2>2. q = [p EXCEPT !.epoch = e, !.rebind = id, !.subject = s]
    BY <1>2, <2>1
  <2>3. q \in Packet
    BY <1>3, <2>2 DEF Packet
  <2> QED
    BY <1>1, <2>3 DEF Proper
<1>5. /\ q.receipts = p.receipts /\ q.op = p.op /\ q.pred = p.pred
      /\ q.epoch = p.epoch + 1 /\ q.rebind = id
  BY <1>2, <1>3 DEF Packet
<1> QED
  BY <1>2, <1>3, <1>4, <1>5 DEF Follows

LEMMA AuthorizeAndStartFollows ==
  ASSUME NEW p, Proper(p), NEW q \in AuthorizeAndStart(p)
  PROVE  Proper(q) /\ Follows(p, q)
<1>1. PICK b \in Rebind(p), c \in UNION Offers :
        Valid(OfferedAlone(b, c)) /\ q \in Start(OfferedAlone(b, c))
  BY DEF AuthorizeAndStart, Finalized
<1> DEFINE s == OfferedAlone(b, c)
<1>2. Proper(b) /\ Follows(p, b)
  BY RebindFollows
<1>3. c \in Candidate
  BY PacketAssumption
<1>4. Proper(s) /\ Follows(b, s)
  BY <1>1, <1>2, <1>3 DEF Proper, Follows, Packet, OfferedAlone
<1>5. Proper(q) /\ Follows(s, q)
  BY <1>1, <1>4, StartFollows
<1> QED
  BY <1>2, <1>4, <1>5, FollowsTrans DEF Proper

LEMMA TransitionFollows ==
  ASSUME NEW p, Proper(p), NEW q \in Transitions(p)
  PROVE  Proper(q) /\ Follows(p, q)
<1>1. q \in Terminate(p) \/ q \in Rebind(p) \/ q \in RecordPass(p) \/ q \in AuthorizeAndStart(p)
  BY DEF Transitions
<1>2. q \in RecordPass(p) => "PASSED" \in Standings /\ q \in UpdateStanding(p, "PASSED")
  BY DEF RecordPass, Standings
<1> QED
  BY <1>1, <1>2, TerminateFollows, RebindFollows, StandingFollows, AuthorizeAndStartFollows

-----------------------------------------------------------------------------
(* Histories                                                               *)

LEMMA ChainedFirst ==
  ASSUME NEW p, Proper(p)
  PROVE  Chained(<<p>>)
<1>1. p \in Packet /\ <<p>> \in Seq(Packet) /\ DOMAIN <<p>> = {1} /\ <<p>>[1] = p
  BY DEF Proper
<1> QED
  BY <1>1 DEF Chained, Proper

LEMMA ChainedAppend ==
  ASSUME NEW h, Chained(h), h # << >>, NEW q, Proper(q), Follows(h[Len(h)], q)
  PROVE  Chained(Append(h, q))
<1> DEFINE n == Len(h)
           g == Append(h, q)
<1>1. n \in Nat \ {0} /\ n \in DOMAIN h /\ DOMAIN h = 1..n
  BY EmptySeq DEF Chained
<1>2. h \in Seq(Packet) /\ q \in Packet
  BY DEF Chained, Proper
<1>3. g \in Seq(Packet) /\ Len(g) = n + 1 /\ g[n + 1] = q
  BY <1>2, AppendProperties
<1>4. \A i \in 1..n : g[i] = h[i]
  BY <1>2, AppendProperties
<1>5. DOMAIN g = 1..(n + 1)
  BY <1>3, LenProperties
<1> HIDE DEF g
<1>6. \A i \in DOMAIN g : Valid(g[i])
  BY <1>1, <1>3, <1>4, <1>5 DEF Chained, Proper
<1>7. ASSUME NEW i \in DOMAIN g, NEW j \in DOMAIN g, i < j
      PROVE  Follows(g[i], g[j])
  <2>1. i \in 1..n /\ g[i] = h[i]
    BY <1>1, <1>4, <1>5, <1>7
  <2>2. CASE j # n + 1
    BY <1>1, <1>4, <1>5, <1>7, <2>1, <2>2 DEF Chained
  <2>3. CASE j = n + 1 /\ i = n
    BY <1>3, <2>1, <2>3
  <2>4. CASE j = n + 1 /\ i # n
    <3>1. Follows(h[i], h[n])
      BY <1>1, <2>1, <2>4 DEF Chained
    <3>2. h[i] \in Packet /\ h[n] \in Packet
      BY <1>1, <1>2, <2>1
    <3> QED
      BY <1>2, <1>3, <2>1, <2>4, <3>1, <3>2, FollowsTrans
  <2> QED
    BY <2>2, <2>3, <2>4
<1>8. Chained(g)
  BY <1>3, <1>6, <1>7 DEF Chained
<1> QED
  BY <1>8 DEF g

LEMMA ChainedKeeps ==
  ASSUME NEW h, Chained(h)
  PROVE  /\ NothingIsDropped(h) /\ ReceiptsStay(h) /\ SuccessorsAreFounded(h)
         /\ EpochNamesAuthority(h) /\ AuthorityIsEarned(h)
<1>1. h \in Seq(Packet) /\ DOMAIN h = 1..Len(h) /\ Len(h) \in Nat
  BY DEF Chained
<1>2. \A i, j \in DOMAIN h : i < j => Follows(h[i], h[j])
  BY DEF Chained
<1>3. NothingIsDropped(h) /\ ReceiptsStay(h)
  BY <1>2 DEF NothingIsDropped, ReceiptsStay, Follows
<1>4. \A i \in DOMAIN h : Follows(h[1], h[i]) /\ Proper(h[i])
  BY <1>1, <1>2, FollowsRefl DEF Chained, Proper
<1>5. SuccessorsAreFounded(h)
  BY <1>4 DEF SuccessorsAreFounded, Follows
<1>6. AuthorityIsEarned(h)
  BY <1>4 DEF AuthorityIsEarned, Follows, Proper, Valid
<1>7. \A i \in DOMAIN h : i \in Nat /\ h[i].epoch \in Nat
  BY <1>1, <1>4 DEF Proper, Packet
<1>8. EpochNamesAuthority(h)
  <2> SUFFICES ASSUME NEW i \in DOMAIN h, NEW j \in DOMAIN h, h[i].epoch = h[j].epoch
               PROVE  h[i].subject = h[j].subject
    BY DEF EpochNamesAuthority
  <2>1. i = j \/ i < j \/ j < i
    BY <1>7
  <2> QED
    BY <1>2, <1>7, <2>1 DEF Follows
<1> QED
  BY <1>3, <1>5, <1>6, <1>8

-----------------------------------------------------------------------------
(* The log                                                                 *)

LEMMA LogStaysChained == Chained(log) /\ [Next]_log => Chained(log)'
<1> SUFFICES ASSUME Chained(log), [Next]_log PROVE Chained(log')
  BY DEF Chained
<1>1. CASE Begin
  <2>1. log' = <<log'[1]>> /\ Proper(log'[1])
    BY <1>1 DEF Begin, Genesis, Proper
  <2>2. PICK p \in Packet : log' = <<p>> /\ Proper(p)
    BY <2>1 DEF Proper
  <2> QED
    BY <2>2, ChainedFirst
<1>2. CASE Advance
  <2>1. PICK q \in Transitions(log[Len(log)]) : log # << >> /\ log' = Append(log, q)
    BY <1>2 DEF Advance
  <2>2. Len(log) \in DOMAIN log
    BY <2>1, EmptySeq DEF Chained
  <2>3. Proper(log[Len(log)])
    BY <2>2 DEF Chained, Proper
  <2>4. Proper(q) /\ Follows(log[Len(log)], q)
    BY <2>1, <2>3, TransitionFollows
  <2> QED
    BY <2>1, <2>4, ChainedAppend
<1>3. CASE UNCHANGED log
  BY <1>3
<1> QED
  BY <1>1, <1>2, <1>3 DEF Next

\* What a log keeps: see the operators of ActiveWorkPacket.
Kept ==
  /\ NothingIsDropped(log) /\ ReceiptsStay(log) /\ SuccessorsAreFounded(log)
  /\ EpochNamesAuthority(log) /\ AuthorityIsEarned(log)

\* Every log keeps its receipts, drops no operation, and knows an earned authority by
\* its epoch.
THEOREM LogIsKept == Spec => []Kept
<1>1. Init => Chained(log)
  BY DEF Init, Chained
<1>2. Chained(log) /\ [Next]_log => Chained(log)'
  BY LogStaysChained
<1>3. Chained(log) => Kept
  BY ChainedKeeps DEF Kept
<1> QED
  BY <1>1, <1>2, <1>3, PTL DEF Spec

-----------------------------------------------------------------------------
(* The store                                                               *)

Draft == [base : Nat, packet : Packet \union {None}, edits : Nat]

StoreTypeOK ==
  /\ workHistory \in Seq(Packet) /\ workHead = Len(workHistory)
  /\ draft \in [Writers -> Draft]

\* What a writer works on follows the revision that it read.
DraftsFollow ==
  \A w \in Writers :
    draft[w] # NoDraft =>
      /\ draft[w].base \in 1 .. Len(workHistory)
      /\ Proper(draft[w].packet) /\ Follows(workHistory[draft[w].base], draft[w].packet)

StoreInv ==
  /\ StoreTypeOK /\ DraftsFollow
  /\ Chained(workHistory) /\ EpochCountsChanges(workHistory)

LEMMA StoreInitInv == StoreInit => StoreInv
<1> SUFFICES ASSUME StoreInit PROVE StoreInv
  OBVIOUS
<1>1. StoreTypeOK
  BY DEF StoreInit, StoreTypeOK, NoDraft, Draft
<1>2. DraftsFollow /\ Chained(workHistory) /\ EpochCountsChanges(workHistory)
  BY DEF StoreInit, DraftsFollow, Chained, EpochCountsChanges
<1> QED
  BY <1>1, <1>2 DEF StoreInv

LEMMA PutInitialInv ==
  ASSUME StoreInv, NEW packet \in First, PutInitial(packet)
  PROVE  StoreInv'
<1>1. packet \in Packet /\ Proper(packet)
  BY PacketAssumption DEF PutInitial, Proper
<1>2. /\ workHistory = << >> /\ workHistory' = <<packet>> /\ workHead' = 1
      /\ draft' = draft
  BY EmptySeq DEF PutInitial, StoreInv, StoreTypeOK
<1>3. StoreTypeOK'
  BY <1>1, <1>2 DEF StoreInv, StoreTypeOK
<1>4. DraftsFollow'
  BY <1>2 DEF StoreInv, DraftsFollow
<1>5. Chained(<<packet>>)
  BY <1>1, ChainedFirst
<1>6. EpochCountsChanges(<<packet>>)
  BY DEF EpochCountsChanges
<1> QED
  BY <1>2, <1>3, <1>4, <1>5, <1>6 DEF StoreInv, Chained, EpochCountsChanges

LEMMA ReadHeadInv ==
  ASSUME StoreInv, NEW w \in Writers, ReadHead(w)
  PROVE  StoreInv'
<1> DEFINE r == [base |-> workHead, packet |-> workHistory[workHead], edits |-> 0]
<1>1. /\ draft' = [draft EXCEPT ![w] = r] /\ workHead # 0
      /\ UNCHANGED <<workHistory, workHead>>
  BY DEF ReadHead
<1>2. /\ workHead \in 1 .. Len(workHistory) /\ workHead \in DOMAIN workHistory
      /\ workHead \in Nat
  BY <1>1 DEF StoreInv, StoreTypeOK
<1>3. Proper(workHistory[workHead])
  BY <1>2 DEF StoreInv, Chained, Proper
<1>4. StoreTypeOK'
  BY <1>1, <1>2, <1>3 DEF StoreInv, StoreTypeOK, Draft, Proper
<1>5. draft'[w] = r /\ \A v \in Writers \ {w} : draft'[v] = draft[v]
  BY <1>1 DEF StoreInv, StoreTypeOK
<1>6. DraftsFollow'
  BY <1>1, <1>2, <1>3, <1>5, FollowsRefl DEF StoreInv, DraftsFollow
<1> QED
  BY <1>1, <1>4, <1>6 DEF StoreInv, Chained, EpochCountsChanges

\* One operation on the copy.
LEMMA EditFollows ==
  ASSUME NEW p, Proper(p),
         NEW q \in (UNION {UpdateStanding(p, s) : s \in Standings}) \union Interrupt(p)
                     \union Terminate(p) \union Start(p) \union Rebind(p)
  PROVE  Proper(q) /\ Follows(p, q)
<1> DEFINE updates == UNION {UpdateStanding(p, s) : s \in Standings}
<1>1. q \in updates => Proper(q) /\ Follows(p, q)
  BY StandingFollows
<1> HIDE DEF updates
<1>2. CASE q \in Interrupt(p)
  BY <1>2, InterruptFollows
<1>3. CASE q \in Terminate(p)
  BY <1>3, TerminateFollows
<1>4. CASE q \in Start(p)
  BY <1>4, StartFollows
<1>5. CASE q \in Rebind(p)
  BY <1>5, RebindFollows
<1>6. q \in updates \union Interrupt(p) \union Terminate(p) \union Start(p) \union Rebind(p)
  BY DEF updates
<1> QED
  BY <1>1, <1>2, <1>3, <1>4, <1>5, <1>6

LEMMA EditInv ==
  ASSUME StoreInv, NEW w \in Writers, Edit(w)
  PROVE  StoreInv'
<1> DEFINE p == draft[w].packet
<1>1. PICK q \in (UNION {UpdateStanding(p, s) : s \in Standings}) \union Interrupt(p)
                   \union Terminate(p) \union Start(p) \union Rebind(p) :
        draft' = [draft EXCEPT ![w].packet = q, ![w].edits = @ + 1]
  BY DEF Edit
<1>2. draft[w] # NoDraft /\ UNCHANGED <<workHistory, workHead>>
  BY DEF Edit
<1>3. /\ draft[w] \in Draft /\ draft[w].base \in 1 .. Len(workHistory)
      /\ Proper(p) /\ Follows(workHistory[draft[w].base], p)
  BY <1>2 DEF StoreInv, StoreTypeOK, DraftsFollow
<1>4. Proper(q) /\ Follows(p, q)
  BY <1>3, EditFollows
<1>5. workHistory[draft[w].base] \in Packet
  BY <1>3 DEF StoreInv, StoreTypeOK
<1>6. Follows(workHistory[draft[w].base], q)
  BY <1>3, <1>4, <1>5, FollowsTrans DEF Proper
<1>7. /\ draft'[w].base = draft[w].base /\ draft'[w].packet = q
      /\ \A v \in Writers \ {w} : draft'[v] = draft[v]
      /\ draft' \in [Writers -> Draft]
  <2> DEFINE e == draft[w].edits + 1
             d == [draft[w] EXCEPT !.packet = q, !.edits = e]
  <2>1. draft \in [Writers -> Draft] /\ q \in Packet /\ e \in Nat
    BY <1>3, <1>4 DEF StoreInv, StoreTypeOK, Draft, Proper
  <2>2. draft' = [draft EXCEPT ![w] = d]
    BY <1>1, <2>1
  <2> HIDE DEF e
  <2>3. d \in Draft /\ d.base = draft[w].base /\ d.packet = q
    BY <1>3, <2>1 DEF Draft
  <2> HIDE DEF d
  <2> QED
    BY <2>1, <2>2, <2>3
<1>8. StoreTypeOK'
  BY <1>2, <1>7 DEF StoreInv, StoreTypeOK
<1>9. DraftsFollow'
  BY <1>2, <1>3, <1>4, <1>6, <1>7 DEF StoreInv, DraftsFollow
<1> QED
  BY <1>2, <1>8, <1>9 DEF StoreInv, Chained, EpochCountsChanges

\* What the authority check asks of one revision and the next is what makes the epoch count.
LEMMA AppendCounts ==
  ASSUME NEW h \in Seq(Packet), h # << >>, EpochCountsChanges(h), NEW q \in Packet,
         AuthorityTransition(h[Len(h)], q)
  PROVE  EpochCountsChanges(Append(h, q))
<1> DEFINE n == Len(h)
           g == Append(h, q)
<1>1. n \in Nat \ {0} /\ DOMAIN h = 1 .. n
  BY EmptySeq
<1>2. /\ DOMAIN g = 1 .. (n + 1) /\ g[n + 1] = q
      /\ \A i \in 1 .. n : g[i] = h[i]
  BY AppendProperties, LenProperties
<1> HIDE DEF g
<1>3. \A i \in 1 .. n : h[i].epoch \in Nat
  <2>1. \A p \in Packet : p.epoch \in Nat
    BY DEF Packet
  <2>2. \A i \in 1 .. n : h[i] \in Packet
    BY <1>1
  <2> QED
    BY <2>1, <2>2
<1>4. SUFFICES ASSUME NEW i \in (1 .. (n + 1)) \ {1}
               PROVE  g[i].epoch = g[i - 1].epoch
                                   + (IF g[i].subject = g[i - 1].subject THEN 0 ELSE 1)
  BY <1>2 DEF EpochCountsChanges, g
<1>5. CASE i = n + 1
  <2>1. g[i] = q /\ g[i - 1] = h[n] /\ h[n].epoch \in Nat
    BY <1>1, <1>2, <1>3, <1>5
  <2> QED
    BY <2>1 DEF AuthorityTransition
<1>6. CASE i # n + 1
  <2>1. i \in DOMAIN h \ {1} /\ i - 1 \in 1 .. n /\ g[i] = h[i] /\ g[i - 1] = h[i - 1]
    BY <1>1, <1>2, <1>4, <1>6
  <2> QED
    BY <2>1 DEF EpochCountsChanges
<1> QED
  BY <1>5, <1>6

LEMMA DraftGone ==
  ASSUME StoreInv, NEW w \in Writers, draft' = [draft EXCEPT ![w] = NoDraft]
  PROVE  /\ draft' \in [Writers -> Draft] /\ draft'[w] = NoDraft
         /\ \A v \in Writers \ {w} : draft'[v] = draft[v]
  BY DEF StoreInv, StoreTypeOK, NoDraft, Draft

LEMMA CompareAndSwapInv ==
  ASSUME StoreInv, NEW w \in Writers, CompareAndSwap(w)
  PROVE  StoreInv'
<1>1. draft[w] # NoDraft /\ draft' = [draft EXCEPT ![w] = NoDraft]
  BY DEF CompareAndSwap
<1>2. /\ draft' \in [Writers -> Draft] /\ draft'[w] = NoDraft
      /\ \A v \in Writers \ {w} : draft'[v] = draft[v]
  BY <1>1, DraftGone
<1>3. CASE UNCHANGED <<workHistory, workHead>>
  <2>1. StoreTypeOK' /\ DraftsFollow'
    BY <1>2, <1>3 DEF StoreInv, StoreTypeOK, DraftsFollow
  <2> QED
    BY <1>3, <2>1 DEF StoreInv, Chained, EpochCountsChanges
<1>4. CASE /\ HeadIsAsRead(w) /\ AuthorityTransition(workHistory[workHead], draft[w].packet)
           /\ workHistory' = Append(workHistory, draft[w].packet) /\ workHead' = workHead + 1
  <2> DEFINE q == draft[w].packet
             n == Len(workHistory)
  <2>1. /\ workHistory \in Seq(Packet) /\ workHead = n /\ n \in Nat
        /\ draft[w].base = n /\ n \in 1 .. n
        /\ Proper(q) /\ Follows(workHistory[n], q)
    BY <1>1, <1>4 DEF StoreInv, StoreTypeOK, DraftsFollow, HeadIsAsRead
  <2>2. workHistory # << >> /\ q \in Packet
    BY <2>1 DEF Proper
  <2>3. /\ workHistory' \in Seq(Packet) /\ Len(workHistory') = n + 1
        /\ \A i \in 1 .. n : workHistory'[i] = workHistory[i]
    BY <1>4, <2>1, <2>2, AppendProperties
  <2>4. StoreTypeOK'
    BY <1>2, <1>4, <2>1, <2>3 DEF StoreTypeOK
  <2>5. DraftsFollow'
    <3> SUFFICES ASSUME NEW v \in Writers, draft'[v] # NoDraft
                 PROVE  /\ draft'[v].base \in 1 .. Len(workHistory')
                        /\ Proper(draft'[v].packet)
                        /\ Follows(workHistory'[draft'[v].base], draft'[v].packet)
      BY DEF DraftsFollow
    <3>1. draft'[v] = draft[v] /\ draft[v] # NoDraft
      BY <1>2
    <3>2. /\ draft[v].base \in 1 .. n /\ Proper(draft[v].packet)
          /\ Follows(workHistory[draft[v].base], draft[v].packet)
      BY <3>1 DEF StoreInv, DraftsFollow
    <3> QED
      BY <2>1, <2>3, <3>1, <3>2
  <2>6. Chained(Append(workHistory, q))
    BY <2>1, <2>2, ChainedAppend DEF StoreInv
  <2>7. EpochCountsChanges(Append(workHistory, q))
    BY <1>4, <2>1, <2>2, AppendCounts DEF StoreInv
  <2> QED
    BY <1>4, <2>4, <2>5, <2>6, <2>7 DEF StoreInv, Chained, EpochCountsChanges
<1> QED
  BY <1>3, <1>4 DEF CompareAndSwap

LEMMA DropDraftInv ==
  ASSUME StoreInv, NEW w \in Writers, DropDraft(w)
  PROVE  StoreInv'
<1>1. draft' = [draft EXCEPT ![w] = NoDraft] /\ UNCHANGED <<workHistory, workHead>>
  BY DEF DropDraft
<1>2. /\ draft' \in [Writers -> Draft] /\ draft'[w] = NoDraft
      /\ \A v \in Writers \ {w} : draft'[v] = draft[v]
  BY <1>1, DraftGone
<1>3. StoreTypeOK' /\ DraftsFollow'
  BY <1>1, <1>2 DEF StoreInv, StoreTypeOK, DraftsFollow
<1> QED
  BY <1>1, <1>3 DEF StoreInv, Chained, EpochCountsChanges

LEMMA StoreNextInv == StoreInv /\ [StoreNext]_workVars => StoreInv'
<1> SUFFICES ASSUME StoreInv, [StoreNext]_workVars PROVE StoreInv'
  OBVIOUS
<1>1. ASSUME NEW packet \in First, PutInitial(packet) PROVE StoreInv'
  BY <1>1, PutInitialInv
<1>2. ASSUME NEW w \in Writers, ReadHead(w) PROVE StoreInv'
  BY <1>2, ReadHeadInv
<1>3. ASSUME NEW w \in Writers, Edit(w) PROVE StoreInv'
  BY <1>3, EditInv
<1>4. ASSUME NEW w \in Writers, CompareAndSwap(w) PROVE StoreInv'
  BY <1>4, CompareAndSwapInv
<1>5. ASSUME NEW w \in Writers, DropDraft(w) PROVE StoreInv'
  BY <1>5, DropDraftInv
<1>6. CASE UNCHANGED workVars
  BY <1>6 DEF workVars, StoreInv, StoreTypeOK, DraftsFollow, Chained, EpochCountsChanges
<1> QED
  BY <1>1, <1>2, <1>3, <1>4, <1>5, <1>6 DEF StoreNext

\* However many writers work on copies, of whatever revision and with any operations in
\* any order: what the store holds drops no receipt and no operation, its successors are
\* founded, and its epoch goes up by one exactly where the authority changes, on a receipt
\* of success.
THEOREM StoredWorkIsAccounted == StoreSpec => []WorkIsAccounted
<1>1. StoreSpec => []StoreInv
  BY StoreInitInv, StoreNextInv, PTL DEF StoreSpec
<1>2. StoreInv => WorkIsAccounted
  BY ChainedKeeps DEF StoreInv, WorkIsAccounted, StoredWorkIsKept, EpochCountsAuthorities
<1> QED
  BY <1>1, <1>2, PTL

=============================================================================
