---------------------------- MODULE ActiveWorkStore ----------------------------
(***************************************************************************)
(* The SQLite store of active work                                         *)
(* (ActiveWorkStore in control-gateway/src/active-work-state.js).  A       *)
(* writer reads the head of a workstream, works on its packet in memory    *)
(* with any number of the packet operations and writes the result with     *)
(* compareAndSwap.  The transaction of a write is one step (BEGIN          *)
(* IMMEDIATE); a writer may give up, or its process end, at any point      *)
(* before it.  A revision and its digest stand for each other.             *)
(***************************************************************************)
EXTENDS ActiveWorkPacket

CONSTANTS
  Writers,
  MaxEdits     \* bound on the operations between a read and a write

VARIABLES
  workHistory,  \* active_work_history of the workstream, by revision
  workHead,     \* active_work_heads: the revision, zero before putInitial
  draft         \* draft[w]: the revision that was read, and the packet as worked on

workVars == <<workHistory, workHead, draft>>

NoDraft == [base |-> 0, packet |-> None, edits |-> 0]

StoreInit == workHistory = << >> /\ workHead = 0 /\ draft = [w \in Writers |-> NoDraft]

PutInitial(packet) ==
  /\ Valid(packet) /\ workHead = 0
  /\ workHistory' = <<packet>> /\ workHead' = 1
  /\ UNCHANGED draft

ReadHead(w) ==
  /\ draft[w] = NoDraft /\ workHead # 0
  /\ draft' = [draft EXCEPT ![w] =
                 [base |-> workHead, packet |-> workHistory[workHead], edits |-> 0]]
  /\ UNCHANGED <<workHistory, workHead>>

\* updateCurrentStanding, transitionCurrentOperation, startNextLegalOperation and
\* rebindAuthority, on the writer's own copy.
Edit(w) ==
  /\ draft[w] # NoDraft /\ draft[w].edits < MaxEdits
  /\ \E q \in (UNION {UpdateStanding(draft[w].packet, s) : s \in Standings})
               \union Interrupt(draft[w].packet) \union Terminate(draft[w].packet)
               \union Start(draft[w].packet) \union Rebind(draft[w].packet) :
       /\ q.epoch <= MaxEpoch
       /\ draft' = [draft EXCEPT ![w].packet = q, ![w].edits = @ + 1]
  /\ UNCHANGED <<workHistory, workHead>>

\* assertAuthorityTransition
AuthorityTransition(previous, next) ==
  IF previous.subject = next.subject
  THEN next.epoch = previous.epoch /\ next.rebind = previous.rebind
  ELSE next.epoch = previous.epoch + 1 /\ Earned(next, next.rebind)

\* Faulty: the write is made whatever the head has become since it was read.
FaultyHeadIsAsRead(w) == draft[w].base # 0

HeadIsAsRead(w) == draft[w].base = workHead

CompareAndSwap(w) ==
  /\ draft[w] # NoDraft /\ workHead < MaxLength
  /\ IF HeadIsAsRead(w) /\ AuthorityTransition(workHistory[workHead], draft[w].packet)
     THEN workHistory' = Append(workHistory, draft[w].packet) /\ workHead' = workHead + 1
     ELSE UNCHANGED <<workHistory, workHead>>
  /\ draft' = [draft EXCEPT ![w] = NoDraft]

DropDraft(w) ==
  /\ draft[w] # NoDraft /\ draft' = [draft EXCEPT ![w] = NoDraft]
  /\ UNCHANGED <<workHistory, workHead>>

StoreNext ==
  \/ \E packet \in First : PutInitial(packet)
  \/ \E w \in Writers : ReadHead(w) \/ Edit(w) \/ CompareAndSwap(w) \/ DropDraft(w)

StoreSpec == StoreInit /\ [][StoreNext]_workVars

-----------------------------------------------------------------------------
(* Properties                                                              *)

\* However two writers interleave, and whatever each does to its copy, an operation
\* that the stored history has left behind has its receipt in every later revision.
StoredWorkIsKept ==
  /\ NothingIsDropped(workHistory) /\ ReceiptsStay(workHistory)
  /\ SuccessorsAreFounded(workHistory)

\* The epoch goes up by one exactly where the authority changes, so that it counts
\* the changes, and each change has a receipt of success behind it.
EpochCountsAuthorities == EpochCountsChanges(workHistory) /\ AuthorityIsEarned(workHistory)

\* Work store: both.
WorkIsAccounted == StoredWorkIsKept /\ EpochCountsAuthorities
=============================================================================
