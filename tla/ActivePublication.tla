--------------------------- MODULE ActivePublication ---------------------------
(***************************************************************************)
(* The publication of active work on a branch of its own                   *)
(* (control-gateway/src/github-active-work-publication.js,                 *)
(* github-genesis-publication-builder.js, github-authority-bootstrap.js    *)
(* and .github/scripts/control-gateway-active-work-publisher.js).          *)
(*                                                                         *)
(* The branch is created once, on a commit that holds the first packet;    *)
(* afterwards each run of the publisher takes a request that names the     *)
(* head it was made for, makes the next packet, commits it on that head    *)
(* and moves the branch if it still stands there.  Requests to GitHub can  *)
(* be lost, or be answered late: an update whose answer was lost may still *)
(* land.  The chain of commits below the head is the history that every    *)
(* reader verifies; a commit stands for its own SHA.                       *)
(***************************************************************************)
EXTENDS ActiveWorkPacket

CONSTANTS
  Procs,       \* runs that may be under way at once
  MaxLate      \* bound on the updates that are under way unanswered

VARIABLES
  chain,       \* the commits on the branch, none as long as it does not exist
  late,        \* updates that were sent and not answered
  runs,        \* runs[p]
  receipts     \* what runs have reported as done

vars == <<chain, late, runs, receipts>>

log == [i \in DOMAIN chain |-> chain[i].packet]

Log == INSTANCE WorkLog

NoCommit == [packet |-> None, below |-> 0, id |-> 0]
IdleRun == [pc |-> "IDLE", expected |-> 0, commit |-> NoCommit]

Init ==
  /\ chain = << >> /\ late = {} /\ receipts = {}
  /\ runs = [p \in Procs |-> IdleRun]

At(p, pc) == runs[p].pc = pc
Go(p, pc) == runs' = [runs EXCEPT ![p].pc = pc]
Fail(p) == runs' = [runs EXCEPT ![p] = IdleRun]

Tip == chain[Len(chain)]

Commits ==
  {chain[i] : i \in DOMAIN chain} \union late \union {runs[p].commit : p \in Procs}
    \union {r.commit : r \in receipts}

\* A commit of its own, also where another has the same packet and parent.
NewCommit(packet, below) ==
  LET Named(n) == [packet |-> packet, below |-> below, id |-> n]
  IN Named(CHOOSE n \in 1..(Cardinality(Commits) + 1) : Named(n) \notin Commits)

Sent(commit) == Cardinality(late) < MaxLate /\ late' = late \union {commit}

\* Faulty: the branch is known by the revision it shows.
FaultyShows(p) == Len(chain) = runs[p].expected + 1

\* The branch stands at the commit of the run.
Shows(p) == chain # << >> /\ Tip = runs[p].commit

-----------------------------------------------------------------------------
(* The first packet                                                        *)

\* The run is to create the branch on a commit.
Bootstrap(p, commit) ==
  runs' = [runs EXCEPT ![p] = [pc |-> "BOOTSTRAP", expected |-> 0, commit |-> commit]]

\* GitHubGenesisPublicationBuilder.build: the branch must not exist; the commit is
\* made beside it and read back.
BuildGenesis(p) ==
  /\ At(p, "IDLE") /\ chain = << >>
  /\ \E packet \in First :
       /\ Valid(packet) /\ packet.standing = "PASSED" /\ packet.state = "ACTIVE"
       /\ Bootstrap(p, NewCommit(packet, 0))
  /\ UNCHANGED <<chain, late, receipts>>

\* A request may also name the commit: one that another run built, or one that was made
\* in any other way.  Where the branch exists it fails.
RequestBootstrap(p) ==
  /\ At(p, "IDLE") /\ chain = << >>
  /\ \E commit \in (Commits \ {NoCommit}) \union {NewCommit(packet, 0) : packet \in First} :
       Bootstrap(p, commit)
  /\ UNCHANGED <<chain, late, receipts>>

\* assertEnvelopeMatchesRequest, after the commit was read as one of revision 1
FirstRevision(commit) ==
  /\ commit.below = 0
  /\ commit.packet \in Packet /\ Valid(commit.packet) /\ commit.packet.standing # "PENDING"

\* GitHubAuthorityBootstrapExecutor.execute up to the creation of the branch
CheckBootstrap(p) ==
  /\ At(p, "BOOTSTRAP")
  /\ IF chain = << >> /\ FirstRevision(runs[p].commit) THEN Go(p, "CREATE") ELSE Fail(p)
  /\ UNCHANGED <<chain, late, receipts>>

\* Faulty: a branch that exists by now is set to the new commit.
FaultyFastForward(commit) == commit.below <= Len(chain)

\* GitHub creates a branch only where there is none and moves it only to a
\* descendant of its head.
FastForward(commit) == commit.below = Len(chain)

Land(commit) == chain' = Append(SubSeq(chain, 1, commit.below), commit)

\* A refused creation, or one whose answer is lost, ends the run.
CreateGenesisRef(p) ==
  /\ At(p, "CREATE")
  /\ \/ /\ FastForward(runs[p].commit) /\ Land(runs[p].commit)
        /\ Go(p, "VERIFY") /\ UNCHANGED late
     \/ /\ ~FastForward(runs[p].commit) /\ Fail(p) /\ UNCHANGED <<chain, late>>
     \/ /\ Sent(runs[p].commit)
        /\ Fail(p) /\ UNCHANGED chain
  /\ UNCHANGED receipts

-----------------------------------------------------------------------------
(* A transition                                                            *)

\* A request is made for the head its caller sees.
StartRun(p) ==
  /\ At(p, "IDLE")
  /\ chain # << >>
  /\ runs' = [runs EXCEPT ![p] = [pc |-> "RECONSTRUCT", expected |-> Len(chain),
                                  commit |-> NoCommit]]
  /\ UNCHANGED <<chain, late, receipts>>

Expected(p) == Len(chain) = runs[p].expected

\* reconstruct, the comparison with the request, and the transition; publish then
\* reads the branch once more and commits on the expected head.
MakeCommit(p) ==
  /\ At(p, "RECONSTRUCT")
  /\ \/ /\ Expected(p) /\ Len(chain) < MaxLength
        /\ \E q \in Log!Transitions(Tip.packet) :
             runs' = [runs EXCEPT ![p] =
               [pc |-> "UPDATE", expected |-> runs[p].expected,
                commit |-> NewCommit(q, Len(chain))]]
     \/ Fail(p)
  /\ UNCHANGED <<chain, late, receipts>>

\* updateRefFastForward; a refusal is definite, a lost answer is not.
UpdateRef(p) ==
  /\ At(p, "UPDATE")
  /\ \/ /\ FastForward(runs[p].commit) /\ Land(runs[p].commit)
        /\ Go(p, "VERIFY") /\ UNCHANGED late
     \/ /\ ~FastForward(runs[p].commit) /\ Fail(p) /\ UNCHANGED <<chain, late>>
     \/ /\ Sent(runs[p].commit)
        /\ Go(p, "AMBIGUOUS") /\ UNCHANGED chain
  /\ UNCHANGED receipts

\* After a lost answer the run goes on only if the branch shows its commit.
Observe(p) ==
  /\ At(p, "AMBIGUOUS")
  /\ IF Shows(p) THEN Go(p, "VERIFY") ELSE Fail(p)
  /\ UNCHANGED <<chain, late, receipts>>

\* The history is read back from the branch and must end in the commit.
VerifyWritten(p) ==
  /\ At(p, "VERIFY")
  /\ receipts' = IF Shows(p)
                 THEN receipts \union {[revision |-> runs[p].expected + 1,
                                        commit |-> runs[p].commit]}
                 ELSE receipts
  /\ Fail(p)
  /\ UNCHANGED <<chain, late>>

CrashRun(p) == ~At(p, "IDLE") /\ Fail(p) /\ UNCHANGED <<chain, late, receipts>>

\* An update that was not answered lands after all, or never does.
LateUpdate ==
  \E commit \in late :
    /\ late' = late \ {commit}
    /\ IF FastForward(commit) THEN Land(commit) ELSE UNCHANGED chain
    /\ UNCHANGED <<runs, receipts>>

Next ==
  \/ \E p \in Procs :
       \/ BuildGenesis(p) \/ RequestBootstrap(p) \/ CheckBootstrap(p)
       \/ CreateGenesisRef(p) \/ StartRun(p) \/ MakeCommit(p) \/ UpdateRef(p)
       \/ Observe(p) \/ VerifyWritten(p) \/ CrashRun(p)
  \/ LateUpdate

Spec == Init /\ [][Next]_vars

-----------------------------------------------------------------------------
(* Properties                                                              *)

\* The branch is one history of packets: it is begun once and each revision is a
\* requested transition of the one before it, whatever answers are lost or late.
PublishesALog == Log!Spec

\* A run that reports success names a commit that is and stays in the history, at
\* the revision it reports.
ReceiptsAreTrue ==
  \A r \in receipts : Len(chain) >= r.revision /\ chain[r.revision] = r.commit

\* No operation of the workstream is left without a receipt, and none is lost.
WorkIsKept == NothingIsDropped(log) /\ ReceiptsStay(log)

\* The authority of the branch is known by its epoch and was earned.
AuthorityIsKept == EpochNamesAuthority(log) /\ AuthorityIsEarned(log)

\* The branch tells the truth: of what runs reported, of the work and of the authority.
BranchIsTrue == ReceiptsAreTrue /\ WorkIsKept /\ AuthorityIsKept
=============================================================================
