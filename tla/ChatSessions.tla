------------------------------ MODULE ChatSessions ------------------------------
(***************************************************************************)
(* Which chat session may work on which part of an operation               *)
(* (control-gateway/src/chat-session-admission.js).  A session claims      *)
(* paths and effects for the operation that durable authority admits; the  *)
(* gate reads the authority, which takes a while, and then looks the claim *)
(* up and stores it in one go.  No claim is ever released.                 *)
(*                                                                         *)
(* A path is the sequence of its segments; authority allows single paths   *)
(* and whole trees.  A claim and its digest are one; the lane of a claim   *)
(* is its owner path and its operation, the workstream being the same for  *)
(* all.                                                                    *)
(***************************************************************************)
EXTENDS Naturals, FiniteSets, Sequences, SequencesExt

CONSTANTS
  Segments,        \* names of files and directories
  Covered,         \* the files there are
  Calls,           \* calls of acquire that may be under way at once
  SessionClaims,   \* the claims that sessions make: session, owner, op, epoch, paths, effects
  Authorities,     \* what durable authority may be: op, epoch, paths, trees, effects
  FirstAuthority,  \* the authority at first
  MaxHistory,      \* bound on the changes of authority
  Nothing

ASSUME SessionAssumption ==
  /\ Covered \subseteq Seq(Segments)
  /\ \A c \in SessionClaims : c.paths \subseteq Seq(Segments)
  /\ FirstAuthority \in Authorities
  /\ \A a \in Authorities : a.paths \union a.trees \subseteq Seq(Segments)

VARIABLES
  history,   \* the authorities up to now, the last one stands
  call,      \* what each call asked for, and the authority that it read
  stored,    \* the claims in the store, one for a lane
  answer     \* the answer that was given in the last step, if any

sessionVars == <<history, call, stored, answer>>

SessionInit ==
  /\ history = <<FirstAuthority>>
  /\ call = [p \in Calls |-> Nothing]
  /\ stored = {}
  /\ answer = Nothing

Lane(c) == <<c.owner, c.op>>

Within(path, prefix) == IsPrefix(prefix, path)

\* Faulty: the paths are compared as they are.
FaultyPathsOverlap(left, right) == left = right

PathsOverlap(left, right) == Within(left, right) \/ Within(right, left)

ScopesOverlap(c, d) ==
  \/ \E left \in c.paths, right \in d.paths : PathsOverlap(left, right)
  \/ c.effects \cap d.effects # {}

\* assertAuthorityBinding; a.op is the operation that is active, or the successor that
\* the next legal step starts, Nothing if there is neither
Authorizes(a, c) ==
  /\ c.epoch = a.epoch /\ c.op = a.op
  /\ \A path \in c.paths : path \in a.paths \/ \E tree \in a.trees : Within(path, tree)
  /\ c.effects \subseteq a.effects

Ask(p, c) ==
  /\ call[p] = Nothing
  /\ call' = [call EXCEPT ![p] = [claim |-> c, since |-> Len(history), read |-> 0]]
  /\ answer' = Nothing /\ UNCHANGED <<history, stored>>

Reconstruct(p) ==
  /\ call[p] # Nothing /\ call[p].read = 0
  /\ call' = [call EXCEPT ![p].read = Len(history)]
  /\ answer' = Nothing /\ UNCHANGED <<history, stored>>

Answer(p, decision) ==
  /\ answer' = [claim |-> call[p].claim, since |-> call[p].since, decision |-> decision]
  /\ call' = [call EXCEPT ![p] = Nothing]
  /\ UNCHANGED history

\* The claims of other lanes that are compared with c.
Others(c) == {d \in stored : d.op = c.op /\ Lane(d) # Lane(c)}

Holder(c) == {d \in stored : Lane(d) = Lane(c)}

\* The rest of acquire, after the authority was read.  The claims of other lanes are
\* gone through in the order they were stored, so that of several that speak against
\* c any one may decide.
Refuse(p) ==
  /\ call[p] # Nothing /\ call[p].read # 0
  /\ LET c == call[p].claim IN
       \/ ~Authorizes(history[call[p].read], c)
       \/ Holder(c) = {} /\ \E d \in Others(c) : d.session = c.session
  /\ Answer(p, "FAILED") /\ UNCHANGED stored

\* The same session with the same claim again.
Repeated(c) == c \in stored

Deny(p) ==
  /\ call[p] # Nothing /\ call[p].read # 0
  /\ LET c == call[p].claim IN
       /\ Authorizes(history[call[p].read], c)
       /\ \/ Holder(c) # {} /\ ~Repeated(c)
          \/ Holder(c) = {} /\ \E d \in Others(c) : d.session # c.session /\ ScopesOverlap(c, d)
  /\ Answer(p, "DENIED") /\ UNCHANGED stored

Grant(p) ==
  /\ call[p] # Nothing /\ call[p].read # 0
  /\ LET c == call[p].claim IN
       /\ Authorizes(history[call[p].read], c)
       /\ \/ Repeated(c)
          \/ Holder(c) = {} /\ \A d \in Others(c) : d.session # c.session /\ ~ScopesOverlap(c, d)
       /\ stored' = stored \union {c}
  /\ Answer(p, "GRANTED")

\* Durable authority goes on: another operation, another scope, another epoch.
Move(a) ==
  /\ Len(history) < MaxHistory /\ a # Last(history) /\ a.epoch >= Last(history).epoch
  /\ history' = Append(history, a)
  /\ answer' = Nothing /\ UNCHANGED <<call, stored>>

SessionNext ==
  \/ \E p \in Calls :
       Reconstruct(p) \/ Refuse(p) \/ Deny(p) \/ Grant(p) \/ \E c \in SessionClaims : Ask(p, c)
  \/ \E a \in Authorities : Move(a)

SessionSpec == SessionInit /\ [][SessionNext]_sessionVars
-----------------------------------------------------------------------------
(* Properties                                                              *)

Covers(paths) == {f \in Covered : \E path \in paths : Within(f, path)}

\* Whatever calls were under way together, no file and no effect of an operation is
\* in the hands of two claims, be they of other owners or of the same session.
ClaimsAreDisjoint ==
  \A c, d \in stored :
    c # d /\ c.op = d.op =>
      /\ c.session # d.session
      /\ Covers(c.paths) \cap Covers(d.paths) = {} /\ c.effects \cap d.effects = {}

\* What is granted was, at one moment since it was asked for, all within the authority
\* of that moment and made for its epoch.
GrantsStoodWhole ==
  answer # Nothing /\ answer.decision = "GRANTED" =>
    \E i \in answer.since .. Len(history) :
      /\ answer.claim.epoch = history[i].epoch /\ answer.claim.op = history[i].op
      /\ Covers(answer.claim.paths) \subseteq Covers(history[i].paths \union history[i].trees)
      /\ answer.claim.effects \subseteq history[i].effects

\* A session that lost the answer to its claim and asks again is not turned away by
\* what it holds itself.
RetriesAreNotDenied ==
  [][answer' # Nothing /\ answer'.decision = "DENIED" => answer'.claim \notin stored]_sessionVars

\* Session admission: the three together.
ClaimsAreExclusive ==
  [](ClaimsAreDisjoint /\ GrantsStoodWhole) /\ RetriesAreNotDenied
=============================================================================
