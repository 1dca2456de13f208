------------------------------ MODULE ChatProofs ------------------------------
(***************************************************************************)
(* Theorems about what stands between a chat and the repository: the       *)
(* admission of sessions (ChatSessions), for any number of calls under     *)
(* way, any claims on paths of any depth and any authorities in any order; *)
(* the recovery of successors (ChatRecovery), for any number of runs,      *)
(* published packets and commits; and the closure of evidence              *)
(* (ValidatorEvidence).                                                    *)
(***************************************************************************)
EXTENDS ChatSessions, ChatRecovery, ValidatorEvidence, SequenceTheorems, TLAPS

-----------------------------------------------------------------------------
(* Sessions: paths. The comparison of two claims is of their paths only,   *)
(* while what they are about are the files below; the lemmas on prefixes   *)
(* say that this is enough. A call keeps the moment at which it read the   *)
(* authority, and authorities are only added, so the moment is still there *)
(* when the call is answered.                                              *)

Path == Seq(Segments)

LEMMA PrefixIsPointwise ==
  ASSUME NEW s \in Path, NEW t \in Path
  PROVE  IsPrefix(s, t) <=> Len(s) <= Len(t) /\ \A i \in 1 .. Len(s) : s[i] = t[i]
<1> USE DEF Path
<1>1. SUFFICES ASSUME Len(s) <= Len(t)
               PROVE  SubSeq(s, 1, Len(s)) = SubSeq(t, 1, Len(s))
                        <=> \A i \in 1 .. Len(s) : s[i] = t[i]
  BY DEF IsPrefix
<1> DEFINE n == Len(s)
           u == SubSeq(t, 1, n)
<1>2. n \in Nat /\ Len(t) \in Nat /\ SubSeq(s, 1, n) = s
  BY SubSeqFull
<1>3. u \in Path /\ Len(u) = n /\ \A i \in 1 .. n : u[i] = t[i]
  <2>1. \A i \in 1 .. n : t[i] \in Segments
    BY <1>1, <1>2
  <2>2. u \in Path
    BY <1>1, <1>2, <2>1, SubSeqProperties
  <2>3. Len(u) = IF 1 <= n THEN n - 1 + 1 ELSE 0
    BY <1>1, <1>2, <2>1, SubSeqProperties
  <2>4. \A i \in 1 .. n - 1 + 1 : u[i] = t[1 + i - 1]
    BY <1>1, <1>2, <2>1, SubSeqProperties
  <2> QED
    BY <1>2, <2>2, <2>3, <2>4
<1>4. ASSUME \A i \in 1 .. n : s[i] = t[i]
      PROVE  s = u
  BY <1>2, <1>3, <1>4, SeqEqual
<1> QED
  BY <1>2, <1>3, <1>4

LEMMA WithinIsTransitive ==
  ASSUME NEW s \in Path, NEW t \in Path, NEW u \in Path, Within(u, t), Within(t, s)
  PROVE  Within(u, s)
<1>1. Len(s) \in Nat /\ Len(t) \in Nat /\ Len(u) \in Nat
  BY DEF Path
<1>2. Len(s) <= Len(t) /\ \A i \in 1 .. Len(s) : s[i] = t[i]
  BY PrefixIsPointwise DEF Within
<1>3. Len(t) <= Len(u) /\ \A i \in 1 .. Len(t) : t[i] = u[i]
  BY PrefixIsPointwise DEF Within
<1>4. Len(s) <= Len(u) /\ \A i \in 1 .. Len(s) : s[i] = u[i]
  BY <1>1, <1>2, <1>3
<1> QED
  BY <1>4, PrefixIsPointwise DEF Within

\* Two paths that a file is below overlap.
LEMMA CommonFileOverlaps ==
  ASSUME NEW s \in Path, NEW t \in Path, NEW f \in Path, Within(f, s), Within(f, t)
  PROVE  PathsOverlap(s, t)
<1>1. Len(s) \in Nat /\ Len(t) \in Nat /\ Len(f) \in Nat
  BY DEF Path
<1>2. Len(s) <= Len(f) /\ \A i \in 1 .. Len(s) : s[i] = f[i]
  BY PrefixIsPointwise DEF Within
<1>3. Len(t) <= Len(f) /\ \A i \in 1 .. Len(t) : t[i] = f[i]
  BY PrefixIsPointwise DEF Within
<1>4. CASE Len(s) <= Len(t)
  <2>1. \A i \in 1 .. Len(s) : s[i] = t[i]
    BY <1>1, <1>2, <1>3, <1>4
  <2> QED
    BY <1>4, <2>1, PrefixIsPointwise DEF PathsOverlap, Within
<1>5. CASE Len(t) <= Len(s)
  <2>1. \A i \in 1 .. Len(t) : t[i] = s[i]
    BY <1>1, <1>2, <1>3, <1>5
  <2> QED
    BY <1>5, <2>1, PrefixIsPointwise DEF PathsOverlap, Within
<1> QED
  BY <1>1, <1>4, <1>5

\* What the gate compares of two claims decides about the files below their paths.
LEMMA ApartIsDisjoint ==
  ASSUME NEW c \in SessionClaims, NEW d \in SessionClaims, ~ScopesOverlap(c, d)
  PROVE  Covers(c.paths) \cap Covers(d.paths) = {} /\ c.effects \cap d.effects = {}
<1>1. c.effects \cap d.effects = {}
  BY DEF ScopesOverlap
<1>2. ASSUME NEW f \in Covers(c.paths) \cap Covers(d.paths)
      PROVE  FALSE
  <2>1. PICK left \in c.paths, right \in d.paths :
          f \in Covered /\ Within(f, left) /\ Within(f, right)
    BY <1>2 DEF Covers
  <2>2. left \in Path /\ right \in Path /\ f \in Path
    BY <2>1, SessionAssumption DEF Path
  <2>3. PathsOverlap(left, right)
    BY <2>1, <2>2, CommonFileOverlaps
  <2> QED
    BY <2>1, <2>3 DEF ScopesOverlap
<1> QED
  BY <1>1, <1>2

\* A claim that an authority allows covers no file that the authority does not.
LEMMA AllowedIsCovered ==
  ASSUME NEW a \in Authorities, NEW c \in SessionClaims, Authorizes(a, c)
  PROVE  Covers(c.paths) \subseteq Covers(a.paths \union a.trees)
<1> SUFFICES ASSUME NEW f \in Covers(c.paths)
             PROVE  f \in Covers(a.paths \union a.trees)
  OBVIOUS
<1>1. PICK path \in c.paths : f \in Covered /\ Within(f, path)
  BY DEF Covers
<1>2. CASE path \in a.paths
  BY <1>1, <1>2 DEF Covers
<1>3. CASE \E tree \in a.trees : Within(path, tree)
  <2>1. PICK tree \in a.trees : Within(path, tree)
    BY <1>3
  <2>2. path \in Path /\ tree \in Path /\ f \in Path
    BY <1>1, <2>1, SessionAssumption DEF Path
  <2>3. Within(f, tree)
    BY <1>1, <2>1, <2>2, WithinIsTransitive
  <2> QED
    BY <1>1, <2>1, <2>3 DEF Covers
<1> QED
  BY <1>1, <1>2, <1>3 DEF Authorizes

-----------------------------------------------------------------------------
(* The invariant                                                           *)

Request == [claim : SessionClaims, since : Nat, read : Nat]

Outcome == [claim : SessionClaims, since : Nat, decision : {"GRANTED", "DENIED", "FAILED"}]

SessionTypeOK ==
  /\ history \in Seq(Authorities) /\ history # << >>
  /\ call \in [Calls -> Request \union {Nothing}]
  /\ stored \subseteq SessionClaims
  /\ answer \in Outcome \union {Nothing}

\* What a call read was read since it was made, and is still in the history.
ReadInTime ==
  \A p \in Calls :
    call[p] # Nothing => /\ 1 <= call[p].since /\ call[p].since <= Len(history)
                         /\ call[p].read <= Len(history)
                         /\ call[p].read # 0 => call[p].since <= call[p].read

SessionInv == SessionTypeOK /\ ReadInTime /\ ClaimsAreDisjoint /\ GrantsStoodWhole

LEMMA SessionInitInv == SessionInit => SessionInv
<1> SUFFICES ASSUME SessionInit PROVE SessionInv
  OBVIOUS
<1>1. SessionTypeOK
  BY SessionAssumption DEF SessionInit, SessionTypeOK
<1>2. ReadInTime /\ ClaimsAreDisjoint /\ GrantsStoodWhole
  BY DEF SessionInit, ReadInTime, ClaimsAreDisjoint, GrantsStoodWhole
<1> QED
  BY <1>1, <1>2 DEF SessionInv

LEMMA AskInv ==
  ASSUME SessionInv, NEW p \in Calls, NEW c \in SessionClaims, Ask(p, c)
  PROVE  SessionInv'
<1> DEFINE r == [claim |-> c, since |-> Len(history), read |-> 0]
<1>1. r \in Request /\ Len(history) \in Nat \ {0}
  BY EmptySeq DEF SessionInv, SessionTypeOK, Request
<1>2. call' = [call EXCEPT ![p] = r] /\ answer' = Nothing /\ UNCHANGED <<history, stored>>
  BY DEF Ask
<1>3. SessionTypeOK'
  BY <1>1, <1>2 DEF SessionInv, SessionTypeOK
<1>4. ReadInTime'
  BY <1>1, <1>2 DEF SessionInv, SessionTypeOK, ReadInTime
<1>5. ClaimsAreDisjoint' /\ GrantsStoodWhole'
  BY <1>2 DEF SessionInv, ClaimsAreDisjoint, GrantsStoodWhole
<1> QED
  BY <1>3, <1>4, <1>5 DEF SessionInv

LEMMA ReconstructInv ==
  ASSUME SessionInv, NEW p \in Calls, Reconstruct(p)
  PROVE  SessionInv'
<1>1. /\ call[p] \in Request /\ Len(history) \in Nat
      /\ 1 <= call[p].since /\ call[p].since <= Len(history)
  BY DEF SessionInv, SessionTypeOK, ReadInTime, Reconstruct
<1>2. /\ call' = [call EXCEPT ![p].read = Len(history)]
      /\ answer' = Nothing /\ UNCHANGED <<history, stored>>
  BY DEF Reconstruct
<1>3. /\ call'[p] \in Request /\ call'[p].read = Len(history)
      /\ call'[p].since = call[p].since /\ \A q \in Calls \ {p} : call'[q] = call[q]
  BY <1>1, <1>2 DEF SessionInv, SessionTypeOK, Request
<1>4. SessionTypeOK'
  BY <1>2, <1>3 DEF SessionInv, SessionTypeOK
<1>5. ReadInTime'
  BY <1>1, <1>2, <1>3 DEF SessionInv, ReadInTime
<1>6. ClaimsAreDisjoint' /\ GrantsStoodWhole'
  BY <1>2 DEF SessionInv, ClaimsAreDisjoint, GrantsStoodWhole
<1> QED
  BY <1>4, <1>5, <1>6 DEF SessionInv

\* An answer says of its call what the call was, and ends it.
LEMMA Answers ==
  ASSUME SessionInv, NEW p \in Calls, call[p] # Nothing, call[p].read # 0,
         NEW decision \in {"GRANTED", "DENIED", "FAILED"}, Answer(p, decision)
  PROVE  /\ call[p] \in Request /\ history' = history
         /\ answer'.claim = call[p].claim /\ answer'.since = call[p].since
         /\ answer'.decision = decision
         /\ answer' \in Outcome /\ call' \in [Calls -> Request \union {Nothing}]
         /\ ReadInTime'
<1>1. call[p] \in Request
  BY DEF SessionInv, SessionTypeOK
<1>2. /\ answer' = [claim |-> call[p].claim, since |-> call[p].since, decision |-> decision]
      /\ call' = [call EXCEPT ![p] = Nothing] /\ history' = history
  BY DEF Answer
<1>3. answer' \in Outcome
  BY <1>1, <1>2 DEF Outcome, Request
<1>4. call' \in [Calls -> Request \union {Nothing}]
  BY <1>2 DEF SessionInv, SessionTypeOK
<1>5. ReadInTime'
  BY <1>2 DEF SessionInv, SessionTypeOK, ReadInTime
<1> QED
  BY <1>1, <1>2, <1>3, <1>4, <1>5

LEMMA RefuseInv ==
  ASSUME SessionInv, NEW p \in Calls, Refuse(p)
  PROVE  SessionInv'
<1>1. call[p] # Nothing /\ call[p].read # 0 /\ Answer(p, "FAILED") /\ stored' = stored
  BY DEF Refuse
<1>2. /\ history' = history /\ answer'.decision = "FAILED" /\ answer' \in Outcome
      /\ call' \in [Calls -> Request \union {Nothing}] /\ ReadInTime'
  BY <1>1, Answers
<1>3. SessionTypeOK' /\ ClaimsAreDisjoint' /\ GrantsStoodWhole'
  BY <1>1, <1>2 DEF SessionInv, SessionTypeOK, ClaimsAreDisjoint, GrantsStoodWhole
<1> QED
  BY <1>2, <1>3 DEF SessionInv

LEMMA DenyInv ==
  ASSUME SessionInv, NEW p \in Calls, Deny(p)
  PROVE  SessionInv'
<1>1. call[p] # Nothing /\ call[p].read # 0 /\ Answer(p, "DENIED") /\ stored' = stored
  BY DEF Deny
<1>2. /\ history' = history /\ answer'.decision = "DENIED" /\ answer' \in Outcome
      /\ call' \in [Calls -> Request \union {Nothing}] /\ ReadInTime'
  BY <1>1, Answers
<1>3. SessionTypeOK' /\ ClaimsAreDisjoint' /\ GrantsStoodWhole'
  BY <1>1, <1>2 DEF SessionInv, SessionTypeOK, ClaimsAreDisjoint, GrantsStoodWhole
<1> QED
  BY <1>2, <1>3 DEF SessionInv

\* A claim that is stored is of a lane of its own and apart from those of the others.
LEMMA GrantKeepsClaimsDisjoint ==
  ASSUME SessionInv, NEW p \in Calls, call[p] \in Request, Grant(p)
  PROVE  ClaimsAreDisjoint'
<1> DEFINE c == call[p].claim
<1>1. c \in SessionClaims /\ stored \subseteq SessionClaims /\ stored' = stored \union {c}
  BY DEF Grant, Request, SessionInv, SessionTypeOK
<1>2. ASSUME NEW d \in stored, d # c, d.op = c.op
      PROVE  /\ d.session # c.session
             /\ Covers(d.paths) \cap Covers(c.paths) = {} /\ d.effects \cap c.effects = {}
  <2>1. CASE Repeated(c)
    BY <1>2, <2>1 DEF Repeated, SessionInv, ClaimsAreDisjoint
  <2>2. CASE Holder(c) = {} /\ \A e \in Others(c) : e.session # c.session /\ ~ScopesOverlap(c, e)
    <3>1. d \in Others(c)
      BY <1>2, <2>2 DEF Holder, Others
    <3> QED
      BY <1>1, <2>2, <3>1, ApartIsDisjoint
  <2> QED
    BY <2>1, <2>2 DEF Grant
<1> QED
  BY <1>1, <1>2 DEF SessionInv, ClaimsAreDisjoint, Covers

LEMMA GrantInv ==
  ASSUME SessionInv, NEW p \in Calls, Grant(p)
  PROVE  SessionInv'
<1> DEFINE c == call[p].claim
           i == call[p].read
<1>1. call[p] # Nothing /\ i # 0 /\ Answer(p, "GRANTED") /\ stored' = stored \union {c}
  BY DEF Grant
<1>2. /\ call[p] \in Request /\ history' = history
      /\ answer'.claim = c /\ answer'.since = call[p].since
      /\ answer' \in Outcome /\ call' \in [Calls -> Request \union {Nothing}] /\ ReadInTime'
  BY <1>1, Answers
<1>3. c \in SessionClaims
  BY <1>2 DEF Request
<1>4. SessionTypeOK'
  BY <1>1, <1>2, <1>3 DEF SessionInv, SessionTypeOK
<1>5. ClaimsAreDisjoint'
  BY <1>2, GrantKeepsClaimsDisjoint
<1>6. GrantsStoodWhole'
  <2>1. i \in Nat /\ call[p].since \in Nat /\ Len(history) \in Nat
    BY <1>2 DEF Request, SessionInv, SessionTypeOK
  <2>2. i \in call[p].since .. Len(history) /\ i \in 1 .. Len(history)
    BY <1>1, <2>1 DEF SessionInv, ReadInTime
  <2>3. history[i] \in Authorities
    BY <2>2 DEF SessionInv, SessionTypeOK
  <2>4. Authorizes(history[i], c)
    BY DEF Grant
  <2>5. Covers(c.paths) \subseteq Covers(history[i].paths \union history[i].trees)
    BY <1>3, <2>3, <2>4, AllowedIsCovered
  <2>6. c.epoch = history[i].epoch /\ c.op = history[i].op /\ c.effects \subseteq history[i].effects
    BY <2>4 DEF Authorizes
  <2> QED
    BY <1>2, <2>2, <2>5, <2>6 DEF GrantsStoodWhole, Covers
<1> QED
  BY <1>2, <1>4, <1>5, <1>6 DEF SessionInv

LEMMA MoveInv ==
  ASSUME SessionInv, NEW a \in Authorities, Move(a)
  PROVE  SessionInv'
<1>1. history' = Append(history, a) /\ answer' = Nothing /\ UNCHANGED <<call, stored>>
  BY DEF Move
<1>2. history' \in Seq(Authorities) /\ Len(history') = Len(history) + 1 /\ Len(history) \in Nat
  BY <1>1 DEF SessionInv, SessionTypeOK
<1>3. SessionTypeOK'
  BY <1>1, <1>2 DEF SessionInv, SessionTypeOK
<1>4. ReadInTime'
  <2> SUFFICES ASSUME NEW p \in Calls, call[p] # Nothing
               PROVE  /\ 1 <= call[p].since /\ call[p].since <= Len(history')
                      /\ call[p].read <= Len(history')
                      /\ call[p].read # 0 => call[p].since <= call[p].read
    BY <1>1 DEF ReadInTime
  <2>1. call[p].since \in Nat /\ call[p].read \in Nat
    BY DEF SessionInv, SessionTypeOK, Request
  <2> QED
    BY <1>2, <2>1 DEF SessionInv, ReadInTime
<1>5. ClaimsAreDisjoint' /\ GrantsStoodWhole'
  BY <1>1 DEF SessionInv, ClaimsAreDisjoint, GrantsStoodWhole
<1> QED
  BY <1>3, <1>4, <1>5 DEF SessionInv

LEMMA SessionNextInv == SessionInv /\ [SessionNext]_sessionVars => SessionInv'
<1> SUFFICES ASSUME SessionInv, [SessionNext]_sessionVars PROVE SessionInv'
  OBVIOUS
<1>1. ASSUME NEW p \in Calls, NEW c \in SessionClaims, Ask(p, c) PROVE SessionInv'
  BY <1>1, AskInv
<1>2. ASSUME NEW p \in Calls, Reconstruct(p) PROVE SessionInv'
  BY <1>2, ReconstructInv
<1>3. ASSUME NEW p \in Calls, Refuse(p) PROVE SessionInv'
  BY <1>3, RefuseInv
<1>4. ASSUME NEW p \in Calls, Deny(p) PROVE SessionInv'
  BY <1>4, DenyInv
<1>5. ASSUME NEW p \in Calls, Grant(p) PROVE SessionInv'
  BY <1>5, GrantInv
<1>6. ASSUME NEW a \in Authorities, Move(a) PROVE SessionInv'
  BY <1>6, MoveInv
<1>7. CASE UNCHANGED sessionVars
  BY <1>7 DEF sessionVars, SessionInv, SessionTypeOK, ReadInTime, ClaimsAreDisjoint,
              GrantsStoodWhole, Covers
<1> QED
  BY <1>1, <1>2, <1>3, <1>4, <1>5, <1>6, <1>7 DEF SessionNext

-----------------------------------------------------------------------------
(* The theorems                                                            *)

LEMMA SessionInvariant == SessionSpec => []SessionInv
  BY SessionInitInv, SessionNextInv, PTL DEF SessionSpec

\* Calls, claims and answers are well typed in every reachable state.
THEOREM SessionTypeCorrect == SessionSpec => []SessionTypeOK
<1>1. SessionInv => SessionTypeOK
  BY DEF SessionInv
<1> QED
  BY <1>1, SessionInvariant, PTL

\* No step answers a claim that is stored with a denial.
LEMMA StoredIsNotDenied ==
  ASSUME SessionInv, [SessionNext]_sessionVars,
         answer' # Nothing, answer'.decision = "DENIED", answer'.claim \in stored
  PROVE  UNCHANGED sessionVars
<1> SUFFICES ASSUME SessionNext PROVE FALSE
  OBVIOUS
<1>1. ASSUME NEW p \in Calls, Deny(p) PROVE FALSE
  <2>1. call[p] # Nothing /\ call[p].read # 0 /\ Answer(p, "DENIED")
    BY <1>1 DEF Deny
  <2>2. answer'.claim = call[p].claim
    BY <2>1, Answers
  <2>3. call[p].claim \notin stored
    BY <1>1 DEF Deny, Repeated, Holder
  <2> QED
    BY <2>2, <2>3
<1>2. ASSUME NEW p \in Calls, Refuse(p) PROVE FALSE
  <2>1. call[p] # Nothing /\ call[p].read # 0 /\ Answer(p, "FAILED")
    BY <1>2 DEF Refuse
  <2> QED
    BY <2>1, Answers
<1>3. ASSUME NEW p \in Calls, Grant(p) PROVE FALSE
  <2>1. call[p] # Nothing /\ call[p].read # 0 /\ Answer(p, "GRANTED")
    BY <1>3 DEF Grant
  <2> QED
    BY <2>1, Answers
<1>4. ASSUME NEW p \in Calls, Reconstruct(p) \/ \E c \in SessionClaims : Ask(p, c)
      PROVE  FALSE
  BY <1>4 DEF Reconstruct, Ask
<1>5. ASSUME NEW a \in Authorities, Move(a) PROVE FALSE
  BY <1>5 DEF Move
<1> QED
  BY <1>1, <1>2, <1>3, <1>4, <1>5 DEF SessionNext

\* Whatever calls are under way together, and however authority moves while they wait:
\* no file and no effect of an operation comes into two hands, every grant was all
\* within the authority of one moment since it was asked for, and a claim that is held
\* is granted again to the session that holds it.
THEOREM ClaimsExclusive == SessionSpec => ClaimsAreExclusive
<1>1. SessionInv => ClaimsAreDisjoint /\ GrantsStoodWhole
  BY DEF SessionInv
<1>2. SessionInv /\ [SessionNext]_sessionVars
        => [answer' # Nothing /\ answer'.decision = "DENIED" => answer'.claim \notin stored]_sessionVars
  BY StoredIsNotDenied
<1> QED
  BY <1>1, <1>2, SessionInvariant, PTL DEF SessionSpec, ClaimsAreExclusive, RetriesAreNotDenied

-----------------------------------------------------------------------------
(* Recovery: the invariant                                                 *)

Contracts == [pub : 1 .. Len(pubs), head : 1 .. Len(commits)]

Commit == [packet : Publishable, merge : BOOLEAN, parent : Nat]

Gate == {"ADMIT", "VALIDATE", "EXECUTE"}

Run == [kind : Gate \union {"NONE"}, step : 1 .. 5, reads : 0 .. 4, pub : Nat, head : Nat,
        asked : [pub : Nat, head : Nat], unanswered : BOOLEAN, refused : BOOLEAN]

Execution == [run : Recoveries, op : OpIds, asked : [pub : Nat, head : Nat],
              recovered : BOOLEAN, refused : BOOLEAN, found : Nat \union {Absent}]

RecoveryTypeOK ==
  /\ pubs \in Seq(Publishable) /\ Len(pubs) > 0
  /\ commits \in Seq(Commit) /\ head \in 1 .. Len(commits)
  /\ successor \in [OpIds -> Nat \union {Absent}]
  /\ recoveries \in [Recoveries -> Run]
  /\ grants \subseteq [kind : Gate, asked : Contracts]
  /\ executions \subseteq Execution
  /\ moments \subseteq Contracts

\* A contract that its publication and its head vouch for, and that allows what is asked.
Backed(kind, c) ==
  /\ c \in moments /\ commits[c.head].packet = pubs[c.pub]
  /\ Allowed(kind, c.pub)

\* A head that was read after a publication: they have stood together unless there is
\* another publication by now, which the last read will see.
ReadTogether(x) ==
  /\ x.head \in 1 .. Len(commits) /\ commits[x.head].packet = pubs[x.pub]
  /\ x.pub = Len(pubs) => [pub |-> x.pub, head |-> x.head] \in moments

RunOK(x) ==
  x.kind # "NONE" =>
    /\ x.asked \in Contracts
    /\ x.step > 1 => Backed(x.kind, x.asked)
    /\ x.reads > 0 => x.pub \in 1 .. Len(pubs)
    /\ x.reads > 2 => ReadTogether(x)

ReceiptsBacked ==
  /\ \A g \in grants : Backed(g.kind, g.asked)
  /\ \A e \in executions :
       /\ e.asked \in Contracts /\ Backed("EXECUTE", e.asked)
       /\ e.op = pubs[e.asked.pub].op /\ e.found = e.asked.head

\* A run that was told that it created its branch, and has not said so yet.
Outright(x) == x.kind = "EXECUTE" /\ x.step = 5 /\ ~x.unanswered /\ ~x.refused

SingleCreator ==
  /\ \A r \in Recoveries : Outright(recoveries[r]) => successor[Op(r)] # Absent
  /\ \A e \in executions : ~e.recovered => successor[e.op] # Absent
  /\ \A r, s \in Recoveries :
       Outright(recoveries[r]) /\ Outright(recoveries[s]) /\ Op(r) = Op(s) => r = s
  /\ \A r \in Recoveries, e \in executions :
       Outright(recoveries[r]) /\ ~e.recovered => Op(r) # e.op
  /\ CreatedByOne

RecoveryInv ==
  /\ RecoveryTypeOK
  /\ [pub |-> Len(pubs), head |-> head] \in moments
  /\ \A r \in Recoveries : RunOK(recoveries[r])
  /\ ReceiptsBacked
  /\ SingleCreator

-----------------------------------------------------------------------------
(* Recovery: what the steps have in common                                 *)

LEMMA StepOf ==
  ASSUME NEW r \in Recoveries, recoveries[r] \in Run, NEW step, Does(r, step)
  PROVE  LET x == recoveries[r] IN
         /\ x.kind \in Gate
         /\ step = "RECOVER" => x.step < 5 /\ (x.kind = "EXECUTE" => x.step < 3)
         /\ step \in {"ABSENT", "PUBLICATION"} =>
              x.step \in 2 .. 4 /\ (x.kind = "EXECUTE" => x.step = 3)
         /\ step = "GRANT" => x.step = 5 /\ x.kind # "EXECUTE"
         /\ step = "CREATE" => x.step = 4 /\ x.kind = "EXECUTE"
         /\ step = "OBSERVE" => x.step = 5 /\ x.kind = "EXECUTE"
<1> DEFINE x == recoveries[r]
<1>1. x.kind \in Gate /\ x.step \in 1 .. 5 /\ Program[x.kind][x.step] = step
  BY DEF Does, Run
<1>2. x.step = 1 \/ x.step = 2 \/ x.step = 3 \/ x.step = 4 \/ x.step = 5
  BY <1>1
<1>3. CASE x.kind = "ADMIT"
  <2>1. Program[x.kind] = <<"RECOVER", "ABSENT", "RECOVER", "ABSENT", "GRANT">>
    BY <1>3 DEF Program
  <2> QED
    BY <1>1, <1>2, <1>3, <2>1
<1>4. CASE x.kind = "VALIDATE"
  <2>1. Program[x.kind] = <<"RECOVER", "PUBLICATION", "RECOVER", "PUBLICATION", "GRANT">>
    BY <1>4 DEF Program
  <2> QED
    BY <1>1, <1>2, <1>4, <2>1
<1>5. CASE x.kind = "EXECUTE"
  <2>1. Program[x.kind] = <<"RECOVER", "RECOVER", "ABSENT", "CREATE", "OBSERVE">>
    BY <1>5 DEF Program
  <2> QED
    BY <1>1, <1>2, <1>5, <2>1
<1> QED
  BY <1>1, <1>3, <1>4, <1>5 DEF Gate

LEMMA IdleRun == NoRun \in Run /\ NoRun.kind = "NONE" /\ RunOK(NoRun) /\ ~Outright(NoRun)
  BY DEF NoRun, Run, RunOK, Outright

LEMMA RecoveryInitInv == RecoveryInit => RecoveryInv
<1> SUFFICES ASSUME RecoveryInit PROVE RecoveryInv
  OBVIOUS
<1>1. PICK p \in Publishable : pubs = <<p>>
  BY DEF RecoveryInit
<1>2. pubs \in Seq(Publishable) /\ Len(pubs) = 1 /\ pubs[1] \in Publishable
  BY <1>1
<1> DEFINE c == [packet |-> pubs[1], merge |-> FALSE, parent |-> 0]
<1>3. c \in Commit /\ commits = <<c>> /\ head = 1
  BY <1>2 DEF RecoveryInit, Commit
<1>4. commits \in Seq(Commit) /\ Len(commits) = 1
  BY <1>3
<1>5. RecoveryTypeOK
  BY <1>2, <1>3, <1>4, IdleRun DEF RecoveryInit, RecoveryTypeOK, Contracts
<1>6. /\ [pub |-> Len(pubs), head |-> head] \in moments
      /\ \A r \in Recoveries : recoveries[r] = NoRun
  BY <1>2, <1>3 DEF RecoveryInit
<1> QED
  BY <1>5, <1>6, IdleRun DEF RecoveryInit, RecoveryInv, ReceiptsBacked, SingleCreator, CreatedByOne

\* The world only grows: what a contract names stays what it was.
WorldGrows ==
  /\ pubs' \in Seq(Publishable) /\ Len(pubs') >= Len(pubs)
  /\ \A i \in 1 .. Len(pubs) : pubs'[i] = pubs[i]
  /\ commits' \in Seq(Commit) /\ Len(commits') >= Len(commits)
  /\ \A i \in 1 .. Len(commits) : commits'[i] = commits[i]
  /\ head' \in 1 .. Len(commits')
  /\ moments' = moments \union {[pub |-> Len(pubs'), head |-> head']}
  /\ successor' \in [OpIds -> Nat \union {Absent}]
  /\ \A o \in OpIds : successor[o] # Absent => successor'[o] # Absent

LEMMA GrowthKeeps ==
  ASSUME RecoveryTypeOK, WorldGrows
  PROVE  /\ moments \subseteq moments' /\ Contracts \subseteq Contracts'
         /\ moments' \subseteq Contracts'
         /\ \A kind \in Gate, c \in Contracts : Backed(kind, c) => Backed(kind, c)'
         /\ \A x \in Run : RunOK(x) => RunOK(x)'
<1>1. Len(pubs) \in Nat /\ Len(pubs') \in Nat /\ Len(commits) \in Nat /\ Len(commits') \in Nat
  BY DEF RecoveryTypeOK, WorldGrows
<1>2. moments \subseteq moments' /\ Contracts \subseteq Contracts' /\ moments' \subseteq Contracts'
  BY <1>1 DEF RecoveryTypeOK, WorldGrows, Contracts
<1>3. ASSUME NEW kind \in Gate, NEW c \in Contracts, Backed(kind, c)
      PROVE  Backed(kind, c)'
  <2>1. c.pub \in 1 .. Len(pubs) /\ c.head \in 1 .. Len(commits)
    BY DEF Contracts
  <2>2. pubs'[c.pub] = pubs[c.pub] /\ commits'[c.head] = commits[c.head]
    BY <2>1 DEF WorldGrows
  <2>3. Allowed(kind, c.pub)'
    BY <1>3, <2>2 DEF Backed, Allowed, Startable, Continuable
  <2> QED
    BY <1>2, <1>3, <2>2, <2>3 DEF Backed
<1>4. ASSUME NEW x \in Run, RunOK(x), x.kind # "NONE"
      PROVE  RunOK(x)'
  <2>1. x.asked \in Contracts' /\ (x.step > 1 => Backed(x.kind, x.asked)')
    BY <1>2, <1>3, <1>4 DEF RunOK, Run
  <2>2. x.reads > 0 => x.pub \in 1 .. Len(pubs')
    BY <1>1, <1>4 DEF RunOK, WorldGrows
  <2>3. ASSUME x.reads > 2
        PROVE  ReadTogether(x)'
    <3>1. x.reads \in 0 .. 4 /\ x.pub \in 1 .. Len(pubs) /\ ReadTogether(x)
      BY <1>4, <2>3 DEF RunOK, Run
    <3>2. pubs'[x.pub] = pubs[x.pub] /\ commits'[x.head] = commits[x.head]
      BY <3>1 DEF WorldGrows, ReadTogether
    <3>3. x.pub = Len(pubs') => x.pub = Len(pubs)
      BY <1>1, <3>1 DEF WorldGrows
    <3>4. x.head \in 1 .. Len(commits')
      BY <1>1, <3>1 DEF WorldGrows, ReadTogether
    <3> QED
      BY <1>2, <3>1, <3>2, <3>3, <3>4 DEF ReadTogether
  <2> QED
    BY <2>1, <2>2, <2>3 DEF RunOK
<1> QED
  BY <1>2, <1>3, <1>4 DEF RunOK

LEMMA WorldInv ==
  ASSUME RecoveryInv, WorldGrows, UNCHANGED <<recoveries, grants, executions>>
  PROVE  RecoveryInv'
<1>1. RecoveryTypeOK
  BY DEF RecoveryInv
<1>2. RecoveryTypeOK'
  <2>1. Len(pubs') > 0
    BY <1>1 DEF RecoveryTypeOK, WorldGrows
  <2>2. grants \subseteq [kind : Gate, asked : Contracts']
    BY <1>1, GrowthKeeps DEF RecoveryTypeOK
  <2> QED
    BY <1>1, <2>1, <2>2, GrowthKeeps DEF RecoveryTypeOK, WorldGrows
<1>3. \A r \in Recoveries : RunOK(recoveries[r])'
  BY <1>1, GrowthKeeps DEF RecoveryInv, RecoveryTypeOK
<1>4. ReceiptsBacked'
  <2>1. ASSUME NEW g \in grants PROVE Backed(g.kind, g.asked)'
    BY <1>1, GrowthKeeps DEF RecoveryInv, ReceiptsBacked, RecoveryTypeOK
  <2>2. ASSUME NEW e \in executions
        PROVE  /\ e.asked \in Contracts' /\ Backed("EXECUTE", e.asked)'
               /\ e.op = pubs'[e.asked.pub].op /\ e.found = e.asked.head
    <3>1. e.asked \in Contracts /\ Backed("EXECUTE", e.asked)
      BY DEF RecoveryInv, ReceiptsBacked
    <3>2. pubs'[e.asked.pub] = pubs[e.asked.pub]
      BY <3>1 DEF Contracts, WorldGrows
    <3> QED
      BY <1>1, <3>1, <3>2, GrowthKeeps DEF RecoveryInv, ReceiptsBacked, Gate
  <2> QED
    BY <2>1, <2>2 DEF ReceiptsBacked
<1>5. SingleCreator'
  <2>1. ASSUME NEW r \in Recoveries, Outright(recoveries[r]) PROVE Op(r)' = Op(r) /\ Op(r) \in OpIds
    <3>1. recoveries[r].asked.pub \in 1 .. Len(pubs)
      BY <2>1 DEF RecoveryInv, RunOK, Outright, Contracts
    <3>2. pubs[recoveries[r].asked.pub] \in PublishedPacket
      BY <1>1, <3>1, RecoveryAssumption DEF RecoveryTypeOK
    <3> QED
      BY <3>1, <3>2 DEF WorldGrows, Op, PublishedPacket
  <2>2. \A e \in executions : e.op \in OpIds
    BY <1>1 DEF RecoveryTypeOK, Execution
  <2> QED
    BY <2>1, <2>2 DEF RecoveryInv, SingleCreator, WorldGrows, CreatedByOne, Outright
<1> QED
  BY <1>2, <1>3, <1>4, <1>5 DEF RecoveryInv, WorldGrows

LEMMA PublishInv ==
  ASSUME RecoveryInv, NEW packet \in Publishable, Publish(packet)
  PROVE  RecoveryInv'
<1>1. RecoveryTypeOK
  BY DEF RecoveryInv
<1>2. /\ pubs' = Append(pubs, packet) /\ moments' = moments \union {[pub |-> Len(pubs) + 1, head |-> head]}
      /\ UNCHANGED <<commits, head, successor, recoveries, grants, executions>>
  BY DEF Publish, Stand
<1>3. /\ pubs' \in Seq(Publishable) /\ Len(pubs') = Len(pubs) + 1
      /\ \A i \in 1 .. Len(pubs) : pubs'[i] = pubs[i]
  BY <1>1, <1>2, AppendProperties DEF RecoveryTypeOK
<1>4. WorldGrows
  BY <1>1, <1>2, <1>3 DEF RecoveryTypeOK, WorldGrows
<1> QED
  BY <1>2, <1>4, WorldInv

LEMMA CommitGrows ==
  ASSUME RecoveryTypeOK, NEW i \in 1 .. Len(pubs), NEW merge \in BOOLEAN, NEW parent \in Nat,
         commits' = Append(commits, [packet |-> pubs[i], merge |-> merge, parent |-> parent])
  PROVE  /\ commits' \in Seq(Commit) /\ Len(commits') = Len(commits) + 1
         /\ \A j \in 1 .. Len(commits) : commits'[j] = commits[j]
<1> DEFINE c == [packet |-> pubs[i], merge |-> merge, parent |-> parent]
<1>1. c \in Commit
  BY DEF Commit, RecoveryTypeOK
<1>2. commits \in Seq(Commit)
  BY DEF RecoveryTypeOK
<1> HIDE DEF c
<1>3. commits' = Append(commits, c)
  BY DEF c
<1> QED
  BY <1>1, <1>2, <1>3, AppendProperties

LEMMA PushInv ==
  ASSUME RecoveryInv, PushCommit
  PROVE  RecoveryInv'
<1>1. RecoveryTypeOK
  BY DEF RecoveryInv
<1>2. PICK i \in 1 .. Len(pubs), merge \in BOOLEAN :
        commits' = Append(commits, [packet |-> pubs[i], merge |-> merge, parent |-> head])
  <2>1. DOMAIN pubs = 1 .. Len(pubs)
    BY <1>1 DEF RecoveryTypeOK
  <2>2. QED
    BY <2>1 DEF PushCommit
<1>3. /\ commits' \in Seq(Commit) /\ Len(commits') = Len(commits) + 1
      /\ \A j \in 1 .. Len(commits) : commits'[j] = commits[j]
  <2>1. head \in Nat
    BY <1>1 DEF RecoveryTypeOK
  <2>2. QED
    BY <1>1, <1>2, <2>1, CommitGrows
<1>4. WorldGrows
  BY <1>1, <1>3 DEF RecoveryTypeOK, WorldGrows, PushCommit, Stand
<1> QED
  BY <1>4, WorldInv DEF PushCommit

LEMMA ResetInv ==
  ASSUME RecoveryInv, Reset
  PROVE  RecoveryInv'
<1>1. RecoveryTypeOK
  BY DEF RecoveryInv
<1>2. head' \in 1 .. Len(commits)
  BY <1>1 DEF Reset, RecoveryTypeOK
<1>3. WorldGrows
  BY <1>1, <1>2 DEF RecoveryTypeOK, WorldGrows, Reset, Stand
<1> QED
  BY <1>3, WorldInv DEF Reset

LEMMA WorkOnTargetInv ==
  ASSUME RecoveryInv, NEW o \in OpIds, WorkOnTarget(o)
  PROVE  RecoveryInv'
<1>1. RecoveryTypeOK
  BY DEF RecoveryInv
<1>2. successor[o] \in Nat /\ 1 \in 1 .. Len(pubs)
  BY <1>1 DEF WorkOnTarget, RecoveryTypeOK
<1>3. commits' = Append(commits, [packet |-> pubs[1], merge |-> FALSE, parent |-> successor[o]])
  BY DEF WorkOnTarget
<1>4. /\ commits' \in Seq(Commit) /\ Len(commits') = Len(commits) + 1
      /\ \A j \in 1 .. Len(commits) : commits'[j] = commits[j]
  BY <1>1, <1>2, <1>3, CommitGrows
<1>5. /\ successor' \in [OpIds -> Nat \union {Absent}]
      /\ \A p \in OpIds : successor[p] # Absent => successor'[p] # Absent
  BY <1>1, RecoveryAssumption DEF RecoveryTypeOK, WorkOnTarget
<1>6. WorldGrows
  BY <1>1, <1>4, <1>5 DEF RecoveryInv, RecoveryTypeOK, WorldGrows, WorkOnTarget
<1> QED
  BY <1>6, WorldInv DEF WorkOnTarget

-----------------------------------------------------------------------------
(* Recovery: the gates                                                     *)

\* A step of one run that leaves the world as it is.
LEMMA RunInv ==
  ASSUME RecoveryInv, NEW r \in Recoveries, NEW x \in Run, RunOK(x), ~Outright(x),
         recoveries' = [recoveries EXCEPT ![r] = x],
         UNCHANGED <<pubs, commits, head, moments, successor, executions>>,
         grants' \subseteq [kind : Gate, asked : Contracts],
         \A g \in grants' : Backed(g.kind, g.asked)
  PROVE  RecoveryInv'
<1>1. RecoveryTypeOK
  BY DEF RecoveryInv
<1>2. /\ recoveries' \in [Recoveries -> Run] /\ recoveries'[r] = x
      /\ \A s \in Recoveries \ {r} : recoveries'[s] = recoveries[s]
  BY <1>1 DEF RecoveryTypeOK
<1>3. RecoveryTypeOK'
  BY <1>1, <1>2 DEF RecoveryTypeOK, Contracts
<1>4. \A c : \A kind \in Gate : Backed(kind, c)' <=> Backed(kind, c)
  BY DEF Backed, Allowed, Startable, Continuable
<1>5. \A s \in Recoveries : RunOK(recoveries[s])'
  <2>1. \A y \in Run : RunOK(y) => RunOK(y)'
    BY <1>4 DEF RunOK, Contracts, ReadTogether, Run
  <2> QED
    BY <1>1, <1>2, <2>1 DEF RecoveryInv, RecoveryTypeOK
<1>6. ReceiptsBacked'
  BY <1>1, <1>4 DEF RecoveryInv, ReceiptsBacked, Contracts, Gate, RecoveryTypeOK
<1>7. SingleCreator'
  <2>1. \A s \in Recoveries : Outright(recoveries[s])' => s # r /\ Outright(recoveries[s]) /\ Op(s)' = Op(s)
    BY <1>2 DEF Outright, Op
  <2> QED
    BY <2>1 DEF RecoveryInv, SingleCreator, CreatedByOne
<1> QED
  BY <1>3, <1>5, <1>6, <1>7 DEF RecoveryInv

\* What a run does within its program: it stays the run it was, and its step follows.
LEMMA ReadingRun ==
  ASSUME RecoveryInv, NEW r \in Recoveries, recoveries[r].kind # "NONE"
  PROVE  LET x == recoveries[r] IN
         /\ x \in Run /\ x.asked \in Contracts
         /\ recoveries \in [Recoveries -> Run] /\ RunOK(x)
         /\ Len(pubs) \in Nat /\ Len(pubs) > 0 /\ head \in 1 .. Len(commits)
         /\ [pub |-> Len(pubs), head |-> head] \in moments
  BY DEF RecoveryInv, RecoveryTypeOK, RunOK

\* A run that ends, or that has no more to do, leaves nothing of itself.
LEMMA FinishInv ==
  ASSUME RecoveryInv, NEW r \in Recoveries, Finish(r),
         UNCHANGED <<pubs, commits, head, moments, successor, executions>>,
         grants' \subseteq [kind : Gate, asked : Contracts],
         \A g \in grants' : Backed(g.kind, g.asked)
  PROVE  RecoveryInv'
  BY IdleRun, RunInv DEF Finish

LEMMA GrantsStay ==
  ASSUME RecoveryInv, UNCHANGED grants
  PROVE  /\ grants' \subseteq [kind : Gate, asked : Contracts]
         /\ \A g \in grants' : Backed(g.kind, g.asked)
  BY DEF RecoveryInv, RecoveryTypeOK, ReceiptsBacked

LEMMA StartInv ==
  ASSUME RecoveryInv, NEW r \in Recoveries, NEW kind \in DOMAIN Program,
         NEW n \in DOMAIN pubs, NEW h \in DOMAIN commits,
         StartRecovery(r, kind, [pub |-> n, head |-> h])
  PROVE  RecoveryInv'
<1> DEFINE asked == [pub |-> n, head |-> h]
           x == [NoRun EXCEPT !.kind = kind, !.asked = asked]
<1>1. kind \in Gate
  BY DEF Program, Gate
<1>2. asked \in Contracts /\ Contracts \subseteq [pub : Nat, head : Nat]
  BY DEF RecoveryInv, RecoveryTypeOK, Contracts
<1>3. x \in Run /\ x.step = 1 /\ x.reads = 0 /\ x.asked = asked
  BY <1>1, <1>2, IdleRun DEF NoRun, Run
<1>4. RunOK(x) /\ ~Outright(x)
  BY <1>2, <1>3 DEF RunOK, Outright
<1>5. recoveries' = [recoveries EXCEPT ![r] = x]
  BY DEF StartRecovery
<1> HIDE DEF x, asked
<1> QED
  BY <1>3, <1>4, <1>5, RunInv, GrantsStay DEF StartRecovery

LEMMA RecoverInv ==
  ASSUME RecoveryInv, NEW r \in Recoveries, Recover(r)
  PROVE  RecoveryInv'
<1> DEFINE x == recoveries[r]
<1>1. /\ UNCHANGED <<pubs, commits, head, moments, successor, executions, grants>>
      /\ Does(r, "RECOVER") /\ x.kind # "NONE"
  BY DEF Recover, Does
<1>2. /\ x \in Run /\ x.asked \in Contracts /\ recoveries \in [Recoveries -> Run] /\ RunOK(x)
      /\ Len(pubs) \in Nat /\ Len(pubs) > 0 /\ head \in 1 .. Len(commits)
      /\ [pub |-> Len(pubs), head |-> head] \in moments
  BY <1>1, ReadingRun
<1>3. x.kind \in Gate /\ x.step < 5 /\ (x.kind = "EXECUTE" => x.step < 3)
  BY <1>1, <1>2, StepOf
<1>4. ASSUME Finish(r) PROVE RecoveryInv'
  BY <1>1, <1>4, FinishInv, GrantsStay
<1>5. ASSUME NEW pub \in 1 .. Len(pubs), NEW h \in Nat, ReadOn(r, pub, h), x.reads < 4,
             x.reads > 1 => /\ h \in 1 .. Len(commits) /\ commits[h].packet = pubs[pub]
                            /\ pub = Len(pubs) => [pub |-> pub, head |-> h] \in moments
      PROVE  RecoveryInv'
  <2> DEFINE y == [x EXCEPT !.reads = @ + 1, !.pub = pub, !.head = h]
  <2>1. /\ y \in Run /\ y.kind = x.kind /\ y.step = x.step /\ y.asked = x.asked
        /\ y.reads = x.reads + 1 /\ y.pub = pub /\ y.head = h
    <3>1. x \in Run /\ x.reads + 1 \in 0 .. 4 /\ pub \in Nat
      BY <1>2, <1>5 DEF Run
    <3>2. y = [x EXCEPT !.reads = x.reads + 1, !.pub = pub, !.head = h]
      OBVIOUS
    <3> HIDE DEF x, y
    <3>3. y \in Run
      BY <1>5, <3>1, <3>2 DEF Run
    <3>4. y.kind = x.kind /\ y.step = x.step /\ y.asked = x.asked
      BY <3>1, <3>2 DEF Run
    <3>5. y.reads = x.reads + 1 /\ y.pub = pub /\ y.head = h
      BY <3>1, <3>2 DEF Run
    <3> QED
      BY <3>3, <3>4, <3>5
  <2>2. RunOK(y) /\ ~Outright(y)
    <3>1. x.reads \in 0 .. 4
      BY <1>2 DEF Run
    <3>2. y.asked \in Contracts /\ (y.step > 1 => Backed(y.kind, y.asked))
      <4> HIDE DEF x, y
      <4> QED
        BY <1>2, <1>3, <2>1 DEF RunOK, Gate
    <3> HIDE DEF x, y
    <3>3. y.pub \in 1 .. Len(pubs) /\ (y.reads > 2 => x.reads > 1)
      <4>1. y.pub = pub /\ y.reads = x.reads + 1
        BY <2>1
      <4> QED
        BY <3>1, <4>1
    <3>4. ASSUME x.reads > 1
          PROVE  ReadTogether(y)
      <4>1. y.head \in 1 .. Len(commits) /\ commits[y.head].packet = pubs[y.pub]
        BY <1>5, <2>1, <3>4
      <4>2. y.pub = Len(pubs) => [pub |-> y.pub, head |-> y.head] \in moments
        BY <1>5, <2>1, <3>4
      <4> QED
        BY <4>1, <4>2 DEF ReadTogether
    <3>5. RunOK(y)
      BY <3>2, <3>3, <3>4 DEF RunOK
    <3>6. ~Outright(y)
      BY <1>3, <2>1 DEF Outright
    <3> QED
      BY <3>5, <3>6
  <2>3. recoveries' = [recoveries EXCEPT ![r] = y]
    BY <1>5 DEF ReadOn
  <2> HIDE DEF y
  <2> QED
    BY <1>1, <2>1, <2>2, <2>3, RunInv, GrantsStay
<1>6. ASSUME Proceed(r), Backed(x.kind, x.asked) PROVE RecoveryInv'
  <2> DEFINE y == [x EXCEPT !.step = @ + 1, !.reads = 0]
  <2>1. /\ y \in Run /\ y.kind = x.kind /\ y.step = x.step + 1 /\ y.asked = x.asked /\ y.reads = 0
    <3>1. x \in Run /\ x.step + 1 \in 1 .. 5 /\ 0 \in 0 .. 4
      BY <1>2, <1>3 DEF Run
    <3>2. y = [x EXCEPT !.step = x.step + 1, !.reads = 0]
      OBVIOUS
    <3> HIDE DEF x, y
    <3> QED
      BY <3>1, <3>2 DEF Run
  <2>2. RunOK(y) /\ ~Outright(y)
    BY <1>2, <1>3, <1>6, <2>1 DEF RunOK, Outright, Run
  <2>3. recoveries' = [recoveries EXCEPT ![r] = y]
    BY <1>6 DEF Proceed
  <2> HIDE DEF y
  <2> QED
    BY <1>1, <2>1, <2>2, <2>3, RunInv, GrantsStay
<1>7. CASE x.reads = 0 /\ ReadOn(r, Len(pubs), 0)
  BY <1>2, <1>5, <1>7
<1>8. CASE x.reads = 1 /\ IF Len(pubs) = x.pub THEN ReadOn(r, x.pub, 0) ELSE Finish(r)
  BY <1>2, <1>4, <1>5, <1>8
<1>9. CASE x.reads = 2 /\ IF RecoverableAt(x.pub, head) THEN ReadOn(r, x.pub, head) ELSE Finish(r)
  <2>1. CASE RecoverableAt(x.pub, head)
    <3>1. x.pub \in 1 .. Len(pubs) /\ commits[head].packet = pubs[x.pub] /\ head \in Nat
      BY <1>1, <1>2, <1>9, <2>1 DEF RunOK, RecoverableAt, RecoveryInv, RecoveryTypeOK
    <3>2. ReadOn(r, x.pub, head) /\ x.reads = 2
      BY <1>9, <2>1
    <3>3. x.pub = Len(pubs) => [pub |-> x.pub, head |-> head] \in moments
      BY <1>2
    <3> QED
      BY <1>2, <1>5, <3>1, <3>2, <3>3
  <2> QED
    BY <1>4, <1>9, <2>1
<1>10. CASE x.reads = 3 /\ IF head = x.head THEN ReadOn(r, x.pub, head) ELSE Finish(r)
  BY <1>1, <1>2, <1>4, <1>5, <1>10 DEF RunOK, ReadTogether
<1>11. CASE x.reads = 4 /\ IF /\ PublicationUnmoved(r)
                              /\ [pub |-> x.pub, head |-> x.head] = x.asked
                              /\ Allowed(x.kind, x.pub)
                           THEN Proceed(r) ELSE Finish(r)
  <2>1. CASE PublicationUnmoved(r) /\ [pub |-> x.pub, head |-> x.head] = x.asked /\ Allowed(x.kind, x.pub)
    <3>1. ReadTogether(x) /\ x.pub = Len(pubs)
      BY <1>1, <1>2, <1>11, <2>1 DEF RunOK, PublicationUnmoved
    <3>2. Backed(x.kind, x.asked)
      BY <1>2, <2>1, <3>1 DEF Backed, ReadTogether, Run
    <3> QED
      BY <1>6, <1>11, <2>1, <3>2
  <2> QED
    BY <1>4, <1>11, <2>1
<1> QED
  BY <1>7, <1>8, <1>9, <1>10, <1>11 DEF Recover, AsAsked

\* A check between two recoveries.
LEMMA CheckInv ==
  ASSUME RecoveryInv, NEW r \in Recoveries, Does(r, "ABSENT") \/ Does(r, "PUBLICATION"),
         Proceed(r) \/ Finish(r),
         UNCHANGED <<pubs, commits, head, moments, successor, executions, grants>>
  PROVE  RecoveryInv'
<1> DEFINE x == recoveries[r]
           y == [x EXCEPT !.step = @ + 1, !.reads = 0]
<1>1. x \in Run /\ x.asked \in Contracts /\ recoveries \in [Recoveries -> Run] /\ RunOK(x)
  BY ReadingRun DEF Does
<1>2. x.kind \in Gate /\ x.step \in 2 .. 4 /\ (x.kind = "EXECUTE" => x.step = 3)
  BY <1>1, StepOf
<1>3. /\ y \in Run /\ y.kind = x.kind /\ y.step = x.step + 1 /\ y.asked = x.asked /\ y.reads = 0
  <2>1. x \in Run /\ x.step + 1 \in 1 .. 5 /\ 0 \in 0 .. 4
    BY <1>1, <1>2
  <2>2. y = [x EXCEPT !.step = x.step + 1, !.reads = 0]
    OBVIOUS
  <2> HIDE DEF x, y
  <2> QED
    BY <2>1, <2>2 DEF Run
<1>4. RunOK(y) /\ ~Outright(y)
  BY <1>1, <1>2, <1>3 DEF RunOK, Outright, Gate
<1>5. CASE Proceed(r)
  <2>1. recoveries' = [recoveries EXCEPT ![r] = y]
    BY <1>5 DEF Proceed
  <2> HIDE DEF y
  <2> QED
    BY <1>3, <1>4, <2>1, RunInv, GrantsStay
<1>6. CASE Finish(r)
  BY <1>6, FinishInv, GrantsStay
<1> QED
  BY <1>5, <1>6

LEMMA GrantRunInv ==
  ASSUME RecoveryInv, NEW r \in Recoveries, GrantRun(r)
  PROVE  RecoveryInv'
<1> DEFINE x == recoveries[r]
           g == [kind |-> x.kind, asked |-> x.asked]
<1>1. x \in Run /\ x.asked \in Contracts /\ RunOK(x)
  BY ReadingRun DEF GrantRun, Does
<1>2. x.kind \in Gate /\ x.kind # "NONE" /\ x.step = 5
  BY <1>1, StepOf DEF GrantRun, Gate
<1>3. g \in [kind : Gate, asked : Contracts] /\ Backed(g.kind, g.asked)
  BY <1>1, <1>2 DEF RunOK
<1>4. grants' = grants \union {g} /\ Finish(r)
  BY DEF GrantRun
<1>5. /\ grants' \subseteq [kind : Gate, asked : Contracts]
      /\ \A c \in grants' : Backed(c.kind, c.asked)
  BY <1>3, <1>4 DEF RecoveryInv, RecoveryTypeOK, ReceiptsBacked
<1> QED
  BY <1>4, <1>5, FinishInv DEF GrantRun

\* A run that has asked for the branch: the branch goes from absent to the base, and then
\* this run alone may say that it created it outright.
LEMMA CreateRefInv ==
  ASSUME RecoveryInv, NEW r \in Recoveries, CreateRef(r)
  PROVE  RecoveryInv'
<1> DEFINE x == recoveries[r]
<1>1. /\ UNCHANGED <<pubs, commits, head, moments, executions, grants>>
      /\ Does(r, "CREATE") /\ x.kind # "NONE"
  BY DEF CreateRef, Does
<1>2. /\ x \in Run /\ x.asked \in Contracts /\ recoveries \in [Recoveries -> Run] /\ RunOK(x)
  BY <1>1, ReadingRun
<1>3. x.step = 4 /\ x.kind = "EXECUTE"
  BY <1>1, <1>2, StepOf
<1>4. Op(r) \in OpIds
  BY <1>2, RecoveryAssumption DEF RecoveryInv, RecoveryTypeOK, Contracts, Op, PublishedPacket
<1>5. PICK unanswered \in BOOLEAN, refused \in BOOLEAN :
        /\ recoveries' = [recoveries EXCEPT ![r].step = @ + 1, ![r].unanswered = unanswered,
                                            ![r].refused = refused]
        /\ \/ successor[Op(r)] = Absent /\ successor' = [successor EXCEPT ![Op(r)] = x.asked.head]
           \/ (unanswered \/ refused) /\ UNCHANGED successor
  BY Zenon DEF CreateRef
<1> DEFINE y == [x EXCEPT !.step = @ + 1, !.unanswered = unanswered, !.refused = refused]
<1>6. /\ y \in Run /\ y.kind = x.kind /\ y.step = 5 /\ y.asked = x.asked /\ y.reads = x.reads
      /\ y.pub = x.pub /\ y.head = x.head /\ y.unanswered = unanswered /\ y.refused = refused
  <2>1. x \in Run /\ y = [x EXCEPT !.step = 5, !.unanswered = unanswered, !.refused = refused]
    BY <1>2, <1>3
  <2> HIDE DEF x, y
  <2>2. y = [kind |-> x.kind, step |-> 5, reads |-> x.reads, pub |-> x.pub, head |-> x.head,
             asked |-> x.asked, unanswered |-> unanswered, refused |-> refused]
    BY <2>1 DEF Run
  <2>3. y \in Run
    BY <2>1, <2>2 DEF Run
  <2> QED
    BY <1>3, <2>2, <2>3
<1>7. /\ recoveries' = [recoveries EXCEPT ![r] = y]
  BY <1>5
<1> HIDE DEF y
<1>8. /\ recoveries' \in [Recoveries -> Run] /\ recoveries'[r] = y
      /\ \A s \in Recoveries \ {r} : recoveries'[s] = recoveries[s]
  BY <1>2, <1>6, <1>7
<1>9. /\ successor' \in [OpIds -> Nat \union {Absent}]
      /\ \A o \in OpIds : successor[o] # Absent => successor'[o] # Absent
      /\ Outright(y) => successor[Op(r)] = Absent /\ successor'[Op(r)] # Absent
  <2>1. x.asked.head \in Nat /\ x.asked.head # Absent
    BY <1>2, RecoveryAssumption DEF Run
  <2>2. successor \in [OpIds -> Nat \union {Absent}]
    BY DEF RecoveryInv, RecoveryTypeOK
  <2> QED
    BY <1>4, <1>5, <1>6, <2>1, <2>2 DEF Outright
<1>10. RecoveryTypeOK'
  BY <1>1, <1>8, <1>9 DEF RecoveryInv, RecoveryTypeOK, Contracts
<1>11. \A c : \A kind \in Gate : Backed(kind, c)' <=> Backed(kind, c)
  BY <1>1 DEF Backed, Allowed, Startable, Continuable
<1>12. \A s \in Recoveries : RunOK(recoveries[s])'
  <2>1. \A z \in Run : RunOK(z) => RunOK(z)'
    BY <1>1, <1>11 DEF RunOK, Contracts, ReadTogether, Run
  <2>2. RunOK(y)
    BY <1>2, <1>3, <1>6 DEF RunOK, ReadTogether
  <2> QED
    BY <1>2, <1>6, <1>8, <2>1, <2>2 DEF RecoveryInv, RecoveryTypeOK
<1>13. ReceiptsBacked'
  BY <1>1, <1>11 DEF RecoveryInv, ReceiptsBacked, Contracts, Gate, RecoveryTypeOK
<1>14. SingleCreator'
  <2>1. \A s \in Recoveries : Op(s)' = Op(s)
    BY <1>1, <1>6, <1>8 DEF Op
  <2>2. \A s \in Recoveries : Outright(recoveries[s])' => s = r \/ Outright(recoveries[s])
    BY <1>8 DEF Outright
  <2>3. Outright(recoveries[r])' => Outright(y)
    BY <1>8 DEF Outright
  <2>4. ASSUME NEW s \in Recoveries, Outright(recoveries[s]) PROVE Op(s) \in OpIds
    BY <2>4, RecoveryAssumption
       DEF RecoveryInv, RecoveryTypeOK, RunOK, Contracts, Op, PublishedPacket, Outright
  <2>5. \A e \in executions : e.op \in OpIds
    BY DEF RecoveryInv, RecoveryTypeOK, Execution
  <2>6. SingleCreator
    BY DEF RecoveryInv
  <2> QED
    BY <1>1, <1>9, <2>1, <2>2, <2>3, <2>4, <2>5, <2>6 DEF SingleCreator, CreatedByOne
<1> QED
  BY <1>1, <1>10, <1>12, <1>13, <1>14 DEF RecoveryInv

\* The receipt of a created branch: its run has named it, and ends.
LEMMA ObserveRefInv ==
  ASSUME RecoveryInv, NEW r \in Recoveries, ObserveRef(r)
  PROVE  RecoveryInv'
<1> DEFINE x == recoveries[r]
           e == [run |-> r, op |-> Op(r), asked |-> x.asked, recovered |-> Threw(r),
                 refused |-> x.refused, found |-> successor[Op(r)]]
<1>1. /\ UNCHANGED <<pubs, commits, head, moments, successor, grants>>
      /\ Does(r, "OBSERVE") /\ x.kind # "NONE" /\ Finish(r)
      /\ executions' = IF Created(r) THEN executions \union {e} ELSE executions
  BY DEF ObserveRef, Does
<1>2. /\ x \in Run /\ x.asked \in Contracts /\ recoveries \in [Recoveries -> Run] /\ RunOK(x)
  BY <1>1, ReadingRun
<1>3. x.step = 5 /\ x.kind = "EXECUTE"
  BY <1>1, <1>2, StepOf
<1>4. CASE ~Created(r)
  BY <1>1, <1>4, FinishInv, GrantsStay
<1>5. CASE Created(r)
  <2>1. Op(r) \in OpIds
    BY <1>2, RecoveryAssumption DEF RecoveryInv, RecoveryTypeOK, Contracts, Op, PublishedPacket
  <2>2. Threw(r) \in BOOLEAN /\ (~Threw(r) => Outright(x))
    BY <1>2, <1>3 DEF Threw, Outright, Run
  <2>3. e \in Execution /\ e.op = Op(r) /\ e.asked = x.asked /\ e.recovered = Threw(r)
        /\ e.found = x.asked.head
    BY <1>2, <1>5, <2>1, <2>2 DEF Execution, Run, RecoveryInv, RecoveryTypeOK, Created
  <2>4. Backed("EXECUTE", e.asked) /\ e.op = pubs[e.asked.pub].op
    BY <1>2, <1>3, <2>3 DEF RunOK, Op
  <2>5. executions' = executions \union {e}
    BY <1>1, <1>5
  <2> HIDE DEF e
  <2>6. /\ recoveries' \in [Recoveries -> Run] /\ recoveries'[r] = NoRun
        /\ \A s \in Recoveries \ {r} : recoveries'[s] = recoveries[s]
    BY <1>1, <1>2, IdleRun DEF Finish
  <2>7. RecoveryTypeOK'
    BY <1>1, <2>3, <2>5, <2>6 DEF RecoveryInv, RecoveryTypeOK, Contracts
  <2>8. \A c : \A kind \in Gate : Backed(kind, c)' <=> Backed(kind, c)
    BY <1>1 DEF Backed, Allowed, Startable, Continuable
  <2>9. \A s \in Recoveries : RunOK(recoveries[s])'
    <3>1. \A z \in Run : RunOK(z) => RunOK(z)'
      BY <1>1, <2>8 DEF RunOK, Contracts, ReadTogether, Run
    <3> QED
      BY <2>6, <3>1, IdleRun DEF RecoveryInv, RecoveryTypeOK
  <2>10. ReceiptsBacked'
    <3>1. \A g \in grants : Backed(g.kind, g.asked)'
      BY <2>8 DEF RecoveryInv, ReceiptsBacked, RecoveryTypeOK
    <3>2. "EXECUTE" \in Gate
      BY DEF Gate
    <3>3. Contracts' = Contracts
      BY <1>1 DEF Contracts
    <3>4. ASSUME NEW f \in executions'
          PROVE  /\ f.asked \in Contracts' /\ Backed("EXECUTE", f.asked)'
                 /\ f.op = pubs'[f.asked.pub].op /\ f.found = f.asked.head
      <4>1. /\ f.asked \in Contracts /\ Backed("EXECUTE", f.asked)
            /\ f.op = pubs[f.asked.pub].op /\ f.found = f.asked.head
        <5>1. CASE f = e
          BY <1>2, <2>3, <2>4, <5>1
        <5>2. CASE f \in executions
          BY <5>2 DEF RecoveryInv, ReceiptsBacked
        <5> QED
          BY <2>5, <5>1, <5>2
      <4> QED
        BY <1>1, <2>8, <3>2, <3>3, <4>1
    <3> QED
      BY <1>1, <3>1, <3>4 DEF ReceiptsBacked
  <2>11. SingleCreator'
    <3>1. \A s \in Recoveries : Outright(recoveries[s])' => s # r /\ Outright(recoveries[s]) /\ Op(s)' = Op(s)
      BY <1>1, <2>6, IdleRun DEF Outright, Op
    <3>2. ~e.recovered => Outright(recoveries[r])
      BY <2>2, <2>3
    <3>3. SingleCreator
      BY DEF RecoveryInv
    <3>4. \A f \in executions : ~e.recovered /\ ~f.recovered => e.op # f.op
      BY <2>3, <3>2, <3>3 DEF SingleCreator
    <3>5. ~e.recovered => successor[e.op] # Absent
      BY <2>3, <3>2, <3>3 DEF SingleCreator
    <3>6. \A s \in Recoveries : Outright(recoveries[s])' /\ ~e.recovered => Op(s)' # e.op
      BY <2>3, <3>1, <3>2, <3>3 DEF SingleCreator
    <3> QED
      BY <1>1, <2>5, <3>1, <3>3, <3>4, <3>5, <3>6 DEF SingleCreator, CreatedByOne
  <2> QED
    BY <1>1, <2>7, <2>9, <2>10, <2>11 DEF RecoveryInv
<1> QED
  BY <1>4, <1>5

LEMMA RecoveryNextInv == RecoveryInv /\ [RecoveryNext]_recoveryVars => RecoveryInv'
<1> SUFFICES ASSUME RecoveryInv, [RecoveryNext]_recoveryVars PROVE RecoveryInv'
  OBVIOUS
<1>1. ASSUME NEW packet \in Publishable, Publish(packet) PROVE RecoveryInv'
  BY <1>1, PublishInv
<1>2. CASE PushCommit
  BY <1>2, PushInv
<1>3. CASE Reset
  BY <1>3, ResetInv
<1>4. ASSUME NEW o \in OpIds, WorkOnTarget(o) PROVE RecoveryInv'
  BY <1>4, WorkOnTargetInv
<1>5. ASSUME NEW r \in Recoveries, NEW kind \in DOMAIN Program, NEW n \in DOMAIN pubs,
             NEW h \in DOMAIN commits, StartRecovery(r, kind, [pub |-> n, head |-> h])
      PROVE  RecoveryInv'
  BY <1>5, StartInv
<1>6. ASSUME NEW r \in Recoveries, Recover(r) PROVE RecoveryInv'
  BY <1>6, RecoverInv
<1>7. ASSUME NEW r \in Recoveries, CheckAbsent(r) PROVE RecoveryInv'
  BY <1>7, CheckInv DEF CheckAbsent
<1>8. ASSUME NEW r \in Recoveries, CheckPublication(r) PROVE RecoveryInv'
  BY <1>8, CheckInv DEF CheckPublication
<1>9. ASSUME NEW r \in Recoveries, GrantRun(r) PROVE RecoveryInv'
  BY <1>9, GrantRunInv
<1>10. ASSUME NEW r \in Recoveries, CreateRef(r) PROVE RecoveryInv'
  BY <1>10, CreateRefInv
<1>11. ASSUME NEW r \in Recoveries, ObserveRef(r) PROVE RecoveryInv'
  BY <1>11, ObserveRefInv
<1>12. ASSUME NEW r \in Recoveries, CrashRecovery(r) PROVE RecoveryInv'
  BY <1>12, FinishInv, GrantsStay DEF CrashRecovery
<1>13. CASE UNCHANGED recoveryVars
  BY <1>13 DEF recoveryVars, RecoveryInv, RecoveryTypeOK, Contracts, RunOK, ReadTogether, Backed,
     Allowed, Startable, Continuable, ReceiptsBacked, SingleCreator, CreatedByOne, Op, Outright
<1> QED
  BY <1>1, <1>2, <1>3, <1>4, <1>5, <1>6, <1>7, <1>8, <1>9, <1>10, <1>11, <1>12, <1>13 DEF RecoveryNext

\* Every reachable state of the recoveries satisfies the invariant.
THEOREM RecoveryInvariant == RecoverySpec => []RecoveryInv
<1>1. RecoveryInit => RecoveryInv
  BY RecoveryInitInv
<1>2. RecoveryInv /\ [RecoveryNext]_recoveryVars => RecoveryInv'
  BY RecoveryNextInv
<1> QED
  BY <1>1, <1>2, PTL DEF RecoverySpec

\* Chat recovery: a contract that was read part by part stood as a whole at one moment, and
\* a branch is created only at a head that the work branch had while the publication that
\* names its operation was current; of two that say they created it, one recovered.
THEOREM RecoveriesHaveAuthority == RecoverySpec => []RecoveryHasAuthority
<1>1. RecoveryInv => RecoveryHasAuthority
  <2> SUFFICES ASSUME RecoveryInv PROVE RecoveryHasAuthority
    OBVIOUS
  <2>1. ContractsStoodWhole
    BY DEF RecoveryInv, ContractsStoodWhole, RunOK, Backed
  <2>2. ASSUME NEW e \in executions
        PROVE  \E m \in moments :
                 /\ pubs[m.pub].mode = "START_SUCCESSOR" /\ pubs[m.pub].standing = "PASSED"
                 /\ pubs[m.pub].op = e.op /\ e.found = m.head
                 /\ commits[m.head].packet = pubs[m.pub]
    <3>1. /\ Backed("EXECUTE", e.asked) /\ e.op = pubs[e.asked.pub].op /\ e.found = e.asked.head
      BY DEF RecoveryInv, ReceiptsBacked
    <3>2. e.asked \in moments
      BY <3>1 DEF Backed
    <3> QED
      BY <3>1, <3>2 DEF Backed, Allowed, Startable
  <2>3. BranchesHaveAuthority
    BY <2>2 DEF RecoveryInv, ReceiptsBacked, Backed, BranchesHaveAuthority
  <2> QED
    BY <2>1, <2>3 DEF RecoveryInv, SingleCreator, RecoveryHasAuthority
<1> QED
  BY <1>1, RecoveryInvariant, PTL

-----------------------------------------------------------------------------
(* Evidence: what is granted is shown.  The gate looks at the request as it*)
(* is then, so what it found must still be so of the request as it is now, *)
(* and every artifact must declare what its kind asks for at least.        *)

Declared(S) == \A a \in S : KindMinimum(a.kind) \subseteq a.families

GrantStands ==
  granted => FullyCovered /\ NoOrphans /\ \A e \in evidence : Resolved(e)

EvidenceInv == Declared(artifacts) /\ GrantStands

\* A request that is granted is not touched again.
LEMMA EvidenceKeepsGrants == EvidenceInv /\ [EvidenceNext]_evidenceVars => EvidenceInv'
<1> SUFFICES ASSUME EvidenceInv, [EvidenceNext]_evidenceVars
             PROVE  EvidenceInv'
  OBVIOUS
<1>1. CASE UNCHANGED evidenceVars
  BY <1>1 DEF evidenceVars, EvidenceInv, Declared, GrantStands, FullyCovered, NoOrphans,
              Resolved, About
<1>2. ASSUME NEW a, Declare(a)
      PROVE  EvidenceInv'
  <2>1. artifacts' = artifacts \union {a} /\ KindMinimum(a.kind) \subseteq a.families
    BY <1>2 DEF Declare, WellFormed
  <2>2. Declared(artifacts)'
    BY <2>1 DEF EvidenceInv, Declared
  <2>3. ~granted'
    BY <1>2 DEF Declare
  <2>4. QED
    BY <2>2, <2>3 DEF EvidenceInv, GrantStands
<1>3. ASSUME NEW e, Attach(e)
      PROVE  EvidenceInv'
  BY <1>3 DEF Attach, EvidenceInv, Declared, GrantStands
<1>4. CASE Validate
  <2>1. Declared(artifacts)'
    BY <1>4 DEF Validate, EvidenceInv, Declared
  <2>2. FullyCovered' /\ NoOrphans' /\ \A e \in evidence' : Resolved(e)'
    BY <1>4 DEF Validate, FullyCovered, NoOrphans, Resolved, About
  <2>3. QED
    BY <2>1, <2>2 DEF EvidenceInv, GrantStands
<1>5. QED
  BY <1>1, <1>2, <1>3, <1>4 DEF EvidenceNext

\* A workflow's route and code are among what an artifact of its kind must declare, and
\* what it declares has evidence of its bytes.
LEMMA GrantShowsTheRoute == EvidenceInv => WorkflowsShowTheirRoute
<1> SUFFICES ASSUME EvidenceInv, granted,
                    NEW a \in artifacts, a.kind = "WORKFLOW",
                    NEW family \in {"CODE", "ROUTING"}
             PROVE  \E e \in evidence :
                      e.family = family /\ e.path = a.path /\ e.digest = a.digest
  BY DEF WorkflowsShowTheirRoute
<1>1. family \in a.families /\ family # "DEPENDENCY"
  BY DEF EvidenceInv, Declared, KindMinimum
<1>2. /\ About(a, family) # {}
      /\ \A e \in About(a, family) : e.digest = a.digest
  BY <1>1 DEF EvidenceInv, GrantStands, FullyCovered
<1>3. QED
  BY <1>2 DEF About

\* A reference resolves to evidence of the request, and none of that is an orphan.
LEMMA GrantIsClosed == EvidenceInv => GrantsAreClosed
<1> SUFFICES ASSUME EvidenceInv, granted, NEW e \in evidence, NEW x \in e.refers
             PROVE  IF x[1] = "RECEIPT" THEN x[2] \in Earned
                    ELSE \E f \in evidence, a \in artifacts :
                           f.family = x[1] /\ f.id = x[2] /\ f.path = a.path
  BY DEF GrantsAreClosed
<1>1. Resolved(e) /\ NoOrphans
  BY DEF EvidenceInv, GrantStands
<1>2. CASE x[1] = "RECEIPT"
  BY <1>1, <1>2 DEF Resolved
<1>3. CASE x[1] # "RECEIPT"
  <2>1. PICK f \in evidence : f.family = x[1] /\ f.id = x[2]
    BY <1>1, <1>3 DEF Resolved
  <2>2. PICK a \in artifacts : a.path = f.path
    BY <1>1 DEF NoOrphans
  <2>3. QED
    BY <1>3, <2>1, <2>2
<1>4. QED
  BY <1>2, <1>3

\* A workflow that is granted has its route and its code shown of the bytes it has,
\* whatever its author declared, and the references of what is granted stay within the
\* request and the receipts of success (ValidatorClosureGate.validate).
THEOREM GrantsRestOnEvidence == EvidenceSpec => []GrantsAreShown
<1>1. EvidenceInit => EvidenceInv
  BY DEF EvidenceInit, EvidenceInv, Declared, GrantStands
<1>2. EvidenceInv => GrantsAreShown
  BY GrantShowsTheRoute, GrantIsClosed DEF GrantsAreShown
<1>3. QED
  BY <1>1, <1>2, EvidenceKeepsGrants, PTL DEF EvidenceSpec
==============================================================================
