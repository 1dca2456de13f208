----------------------------- MODULE ChatRecovery -----------------------------
(***************************************************************************)
(* How a fresh process finds out what to go on with                        *)
(* (control-gateway/src/chat-recovery-gate.js) and the two gates that rest *)
(* on it: successor-ref-admission.js, which creates the branch of the next *)
(* operation, and validator-closure.js, which grants a validation.         *)
(*                                                                         *)
(* A recovery reads the publication of active work twice more than it      *)
(* needs it and the work branch twice; a gate recovers twice and looks at  *)
(* its own target in between.  The publication, the work branch and the    *)
(* target can move before every read.  A recovered contract is its         *)
(* publication and the head of the work branch: all else in it follows     *)
(* from these two, and so does its digest.                                 *)
(***************************************************************************)
EXTENDS Naturals, Sequences, FiniteSets

CONSTANTS
  Recoveries,    \* runs of the gates
  OpIds,
  Publishable,   \* the packets that may be published
  Absent,        \* a branch that does not exist
  MaxDepth,      \* maxAncestryDepth
  MaxPubs,       \* bound on the publications
  MaxCommits,    \* bound on the commits of the work branch
  MaxGrants      \* bound on the different grants

PublishedPacket ==
  [mode : {"CONTINUE_CURRENT", "START_SUCCESSOR", "REFUSED"}, op : OpIds,
   standing : {"PASSED", "PENDING", "DENIED"}, subject : Nat]

ASSUME RecoveryAssumption == Publishable \subseteq PublishedPacket /\ Absent \notin Nat

VARIABLES
  pubs,       \* the published packets; the last one is current
  commits,    \* commits[i]: its governance packet, whether it is a merge, its parent
  head,       \* head of the work branch
  successor,  \* successor[o]: the branch of operation o
  recoveries, \* recoveries[r]: the run r of a gate
  grants,     \* receipts of admissions and validations
  executions, \* receipts of created branches
  moments     \* the pairs of publication and head that have stood together

recoveryVars == <<pubs, commits, head, successor, recoveries, grants, executions, moments>>

\* The steps of SuccessorRefAdmissionGate.admit and executeGrant and of
\* ValidatorClosureGate.validate.
Program ==
  [ADMIT    |-> <<"RECOVER", "ABSENT", "RECOVER", "ABSENT", "GRANT">>,
   VALIDATE |-> <<"RECOVER", "PUBLICATION", "RECOVER", "PUBLICATION", "GRANT">>,
   EXECUTE  |-> <<"RECOVER", "RECOVER", "ABSENT", "CREATE", "OBSERVE">>]

NoRun == [kind |-> "NONE", step |-> 1, reads |-> 0, pub |-> 0, head |-> 0,
         asked |-> [pub |-> 0, head |-> 0], unanswered |-> FALSE, refused |-> FALSE]

RecoveryInit ==
  /\ pubs \in {<<p>> : p \in Publishable}
  /\ commits = <<[packet |-> pubs[1], merge |-> FALSE, parent |-> 0]>> /\ head = 1
  /\ successor = [o \in OpIds |-> Absent]
  /\ recoveries = [r \in Recoveries |-> NoRun]
  /\ grants = {} /\ executions = {} /\ moments = {[pub |-> 1, head |-> 1]}

Stand(n, h) == moments' = moments \union {[pub |-> n, head |-> h]}

-----------------------------------------------------------------------------
(* The world moves                                                         *)

Publish(packet) ==
  /\ Len(pubs) < MaxPubs
  /\ pubs' = Append(pubs, packet) /\ Stand(Len(pubs) + 1, head)
  /\ UNCHANGED <<commits, head, successor, recoveries, grants, executions>>

\* The work branch gets a commit, of either kind, that carries a published packet.
PushCommit ==
  /\ Len(commits) < MaxCommits
  /\ \E i \in DOMAIN pubs, merge \in BOOLEAN :
       commits' = Append(commits, [packet |-> pubs[i], merge |-> merge, parent |-> head])
  /\ head' = Len(commits) + 1 /\ Stand(Len(pubs), head')
  /\ UNCHANGED <<pubs, successor, recoveries, grants, executions>>

\* It is set back, or on again.
Reset ==
  /\ head' \in DOMAIN commits \ {head} /\ Stand(Len(pubs), head')
  /\ UNCHANGED <<pubs, commits, successor, recoveries, grants, executions>>

\* The next operation works on its branch.
WorkOnTarget(o) ==
  /\ successor[o] # Absent /\ Len(commits) < MaxCommits
  /\ commits' = Append(commits, [packet |-> pubs[1], merge |-> FALSE, parent |-> successor[o]])
  /\ successor' = [successor EXCEPT ![o] = Len(commits) + 1]
  /\ UNCHANGED <<pubs, head, recoveries, grants, executions, moments>>

-----------------------------------------------------------------------------
(* The gates                                                               *)

\* proveSingleParentAncestry: whether the subject is reached over single parents.
Reaches(h, subject) ==
  LET At[d \in 0..MaxDepth] ==
        IF d = 0 THEN h
        ELSE IF At[d - 1] = 0 \/ commits[At[d - 1]].merge THEN 0 ELSE commits[At[d - 1]].parent
  IN \E d \in 0..MaxDepth : At[d] = subject

\* continuationFor and the comparison of the work branch with the publication
RecoverableAt(n, h) ==
  /\ pubs[n].mode # "REFUSED" /\ commits[h].packet = pubs[n]
  /\ Reaches(h, pubs[n].subject)

\* bindRecovery of the successor gate
Startable(n) == pubs[n].mode = "START_SUCCESSOR" /\ pubs[n].standing = "PASSED"

\* bindContinuation of the validator gate
Continuable(n) == pubs[n].standing # "DENIED"

Allowed(kind, n) == IF kind = "VALIDATE" THEN Continuable(n) ELSE Startable(n)

\* A caller asks for a publication and a head, whether or not they ever went
\* together; to execute it needs the grant.
StartRecovery(r, kind, asked) ==
  /\ recoveries[r] = NoRun
  /\ kind = "EXECUTE" => [kind |-> "ADMIT", asked |-> asked] \in grants
  /\ recoveries' = [recoveries EXCEPT ![r] = [NoRun EXCEPT !.kind = kind, !.asked = asked]]
  /\ UNCHANGED <<pubs, commits, head, successor, grants, executions, moments>>

Does(r, step) == recoveries[r].kind # "NONE" /\ Program[recoveries[r].kind][recoveries[r].step] = step

Finish(r) == recoveries' = [recoveries EXCEPT ![r] = NoRun]
Proceed(r) == recoveries' = [recoveries EXCEPT ![r].step = @ + 1, ![r].reads = 0]
ReadOn(r, pub, h) ==
  recoveries' = [recoveries EXCEPT ![r].reads = @ + 1, ![r].pub = pub, ![r].head = h]

PublicationUnmoved(r) == Len(pubs) = recoveries[r].pub

\* Faulty: only the publication is compared, not the base.
FaultyAsAsked(run) == run.pub = run.asked.pub

\* The contract that was recovered is the one that was asked for.
AsAsked(run) == [pub |-> run.pub, head |-> run.head] = run.asked

\* recoverContinue, one read after the other.  The contract it ends in must be the
\* one that was asked for (bindRecovery, the second recovery of admit,
\* verifyRecoveryContractFresh).
Recover(r) ==
  /\ Does(r, "RECOVER")
  /\ LET run == recoveries[r] IN
     \/ run.reads = 0 /\ ReadOn(r, Len(pubs), 0)
     \/ run.reads = 1 /\ IF Len(pubs) = run.pub THEN ReadOn(r, run.pub, 0) ELSE Finish(r)
     \/ run.reads = 2 /\ IF RecoverableAt(run.pub, head) THEN ReadOn(r, run.pub, head) ELSE Finish(r)
     \/ run.reads = 3 /\ IF head = run.head THEN ReadOn(r, run.pub, head) ELSE Finish(r)
     \/ run.reads = 4 /\ IF /\ PublicationUnmoved(r)
                            /\ AsAsked(run)
                            /\ Allowed(run.kind, run.pub)
                         THEN Proceed(r) ELSE Finish(r)
  /\ UNCHANGED <<pubs, commits, head, successor, grants, executions, moments>>

Op(r) == pubs[recoveries[r].asked.pub].op

CheckAbsent(r) ==
  /\ Does(r, "ABSENT")
  /\ IF successor[Op(r)] = Absent THEN Proceed(r) ELSE Finish(r)
  /\ UNCHANGED <<pubs, commits, head, successor, grants, executions, moments>>

\* publisher.reconstruct of the validator gate
CheckPublication(r) ==
  /\ Does(r, "PUBLICATION")
  /\ IF Len(pubs) = recoveries[r].asked.pub THEN Proceed(r) ELSE Finish(r)
  /\ UNCHANGED <<pubs, commits, head, successor, grants, executions, moments>>

GrantRun(r) ==
  /\ Does(r, "GRANT") /\ Cardinality(grants) < MaxGrants
  /\ grants' = grants \union {[kind |-> recoveries[r].kind, asked |-> recoveries[r].asked]}
  /\ Finish(r)
  /\ UNCHANGED <<pubs, commits, head, successor, executions, moments>>

\* createRef creates and is answered, creates and is not, or creates nothing
\* because the branch is there or the request was lost.
CreateRef(r) ==
  /\ Does(r, "CREATE")
  /\ LET o == Op(r)
         Answered(unanswered, refused) ==
           recoveries' = [recoveries EXCEPT ![r].step = @ + 1, ![r].unanswered = unanswered,
                                ![r].refused = refused]
     IN \/ /\ successor[o] = Absent /\ successor' = [successor EXCEPT ![o] = recoveries[r].asked.head]
           /\ \E lost \in BOOLEAN : Answered(lost, FALSE)
        \/ /\ successor[o] # Absent /\ Answered(FALSE, TRUE) /\ UNCHANGED successor
        \/ /\ Answered(TRUE, FALSE) /\ UNCHANGED successor
  /\ UNCHANGED <<pubs, commits, head, grants, executions, moments>>

Created(r) == successor[Op(r)] = recoveries[r].asked.head

Threw(r) == recoveries[r].unanswered \/ recoveries[r].refused

\* Where createRef threw, the branch is looked at; in any case it must stand at the
\* base in the end.  (The two looks are one here: between them it can only move on.)
ObserveRef(r) ==
  /\ Does(r, "OBSERVE")
  /\ executions' = IF Created(r)
                   THEN executions \union
                     {[run |-> r, op |-> Op(r), asked |-> recoveries[r].asked,
                       recovered |-> Threw(r),
                       refused |-> recoveries[r].refused, found |-> successor[Op(r)]]}
                   ELSE executions
  /\ Finish(r)
  /\ UNCHANGED <<pubs, commits, head, successor, grants, moments>>

CrashRecovery(r) ==
  /\ recoveries[r] # NoRun /\ Finish(r)
  /\ UNCHANGED <<pubs, commits, head, successor, grants, executions, moments>>

RecoveryNext ==
  \/ \E packet \in Publishable : Publish(packet)
  \/ PushCommit \/ Reset
  \/ \E o \in OpIds : WorkOnTarget(o)
  \/ \E r \in Recoveries :
       \/ \E kind \in DOMAIN Program, n \in DOMAIN pubs, h \in DOMAIN commits :
            StartRecovery(r, kind, [pub |-> n, head |-> h])
       \/ Recover(r) \/ CheckAbsent(r) \/ CheckPublication(r) \/ GrantRun(r) \/ CreateRef(r)
       \/ ObserveRef(r) \/ CrashRecovery(r)

RecoverySpec == RecoveryInit /\ [][RecoveryNext]_recoveryVars

-----------------------------------------------------------------------------
(* Properties                                                              *)

\* A contract that a recovery has read stood as a whole at one moment, though its
\* parts were read one after the other and the branch may have been set to and fro.
ContractsStoodWhole ==
  \A r \in Recoveries :
    /\ recoveries[r].kind # "NONE" /\ recoveries[r].step > 1
    => recoveries[r].asked \in moments

\* Nothing is granted, and no branch created, but on the authority that was
\* published for exactly this: the branch starts at a head that was the head of the
\* work branch while a publication that names its operation as the one to start was
\* current, and that carries the packet of that publication.
BranchesHaveAuthority ==
  /\ \A g \in grants : g.asked \in moments
  /\ \A e \in executions :
       \E m \in moments :
         /\ pubs[m.pub].mode = "START_SUCCESSOR" /\ pubs[m.pub].standing = "PASSED"
         /\ pubs[m.pub].op = e.op /\ e.found = m.head
         /\ commits[m.head].packet = pubs[m.pub]

\* Of two that say they created a branch, one says that it recovered: whoever says
\* it did so outright did it.
CreatedByOne ==
  \A e, f \in executions :
    e.op = f.op /\ ~e.recovered /\ ~f.recovered => e = f

\* Chat recovery: a contract that was read part by part stood as a whole at one moment,
\* though the branch may have been set to and fro; a branch is created only at a head that
\* the work branch had while the publication that names its operation was current; and of
\* two that say they created one branch, one says that it recovered.
RecoveryHasAuthority == ContractsStoodWhole /\ BranchesHaveAuthority /\ CreatedByOne

=============================================================================
