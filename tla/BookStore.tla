------------------------------- MODULE BookStore -------------------------------
(***************************************************************************)
(* Book's durable coordination store: the file adapter (temporary file,    *)
(* rename, directory sync) and, on top of it, the workflow state with its  *)
(* expected version, the checkpoint that is created once and the chain of  *)
(* evidence receipts (system-master/book-system/                           *)
(* book-workflow-durable-store.js, book-workflow-evidence-provenance.js).  *)
(*                                                                         *)
(* The store takes no lock: between its reads and its rename another       *)
(* process may run, and a process or the machine may stop at any step.     *)
(* Every record is identified by how it came about: a workflow state by    *)
(* the changes made to it, so that its version is their number and its     *)
(* digest is the sequence itself; a receipt by its id and the receipts     *)
(* before it.  The receipts are those of one workflow digest (the key of   *)
(* the chain); that a receipt fits its workflow, plan, task and provider   *)
(* is checked against what the caller passes and not against the store,    *)
(* and is taken as given.                                                  *)
(***************************************************************************)
EXTENDS Naturals, Sequences, SequencesExt

CONSTANTS
  Procs,      \* processes
  Changes,    \* changes of a workflow state, contents of the checkpoint, receipt ids
  InUse,      \* the kinds of record the processes use
  MaxLength   \* bound on the workflow's version and on the receipts

Keys == {"WORKFLOW", "CHECKPOINT", "RECEIPTS"}

ASSUME StoreAssumption == InUse \subseteq Keys

\* The file of a key that was never written.
Absent == << >>

VARIABLES
  files,   \* what a read of each key returns
  disk,    \* what the last sync of the directory made safe
  known,   \* known[p][k]: what p last read of k
  proc,    \* proc[p]: the call p is in
  acked,   \* acked[k]: what callers were told is persisted
  told,    \* the last record whose caller was told that it is there already, and its key
  root,    \* the directory: SAFE before the first write, MADE by it, or LOST since
  users    \* the processes that share the store's directory, as the deployment has them

storeVars == <<files, disk, known, proc, acked, told, root, users>>

NoCall == [pc |-> "IDLE", key |-> "WORKFLOW", expected |-> Absent, want |-> Absent,
         out |-> Absent]

NothingKnown == [k \in Keys |-> Absent]

StoreInit ==
  /\ files = [k \in Keys |-> Absent]
  /\ disk = [k \in Keys |-> Absent]
  /\ known = [p \in Procs |-> NothingKnown]
  /\ proc = [p \in Procs |-> NoCall]
  /\ acked = [k \in Keys |-> {}]
  /\ told = [key |-> "WORKFLOW", record |-> Absent]
  /\ root \in {"SAFE", "MADE"}
  /\ users \in SUBSET Procs

-----------------------------------------------------------------------------
(* Receipts                                                                *)

\* A receipt's digest covers its id and the digest of its parent.
Digest(r) == Append(r.parent, r.id)

TerminalDigest(chain) == IF chain = << >> THEN << >> ELSE Digest(Last(chain))

\* createReceipt by a caller that continues the chain it knows
NewReceipt(chain, id) ==
  [id |-> id, seq |-> Len(chain) + 1, parent |-> TerminalDigest(chain)]

ValidChain(chain) ==
  \A i \in 1..Len(chain) :
    /\ chain[i].seq = i
    /\ chain[i].parent = TerminalDigest(SubSeq(chain, 1, i - 1))
    /\ \A j \in 1..(i - 1) : chain[j].id # chain[i].id /\ Digest(chain[j]) # Digest(chain[i])

Appendable(chain, r) ==
  /\ ValidChain(chain)
  /\ r.seq = Len(chain) + 1
  /\ r.parent = TerminalDigest(chain)
  /\ \A i \in 1..Len(chain) : chain[i].id # r.id /\ Digest(chain[i]) # Digest(r)

-----------------------------------------------------------------------------
(* What a call decides from what it reads: REFUSED, KNOWN (the record is   *)
(* there already), AGAIN (read once more) or WRITE                         *)

CheckCheckpoint(current, want) ==
  IF current = Absent THEN "WRITE" ELSE IF current = want THEN "KNOWN" ELSE "REFUSED"

CheckReceipt(chain, r) ==
  IF r \in ToSet(chain) THEN "KNOWN" ELSE IF Appendable(chain, r) THEN "WRITE" ELSE "REFUSED"

\* saveWorkflow's first read only tells whether there is a state.
CheckFirstWorkflow(current, expected, want) ==
  IF current # Absent THEN "AGAIN"
  ELSE IF Len(want) = 1 /\ expected = Absent THEN "WRITE" ELSE "REFUSED"

\* The second, in loadWorkflow, is the one the caller's expectation is held to.
CheckWorkflow(current, expected, want) ==
  IF current = want THEN "KNOWN"
  ELSE IF expected # Absent /\ current = expected /\ Len(want) = Len(current) + 1
       THEN "WRITE" ELSE "REFUSED"

-----------------------------------------------------------------------------
(* Calls                                                                   *)

Free(p) == proc[p].pc \in {"IDLE", "FAILED", "REFUSED"}

\* loadWorkflow, loadCheckpoint, loadEvidenceReceipts
Load(p, k) ==
  /\ Free(p)
  /\ known' = [known EXCEPT ![p][k] = files[k]]
  /\ proc' = [proc EXCEPT ![p] = NoCall]
  /\ UNCHANGED <<files, disk, acked, told>>

BeginCall(p, k, want) ==
  /\ Free(p) /\ k \in InUse
  /\ proc' = [proc EXCEPT ![p] =
       [pc |-> "READ", key |-> k, expected |-> known[p][k], want |-> want, out |-> Absent]]
  /\ UNCHANGED <<files, disk, known, acked, told>>

\* A caller makes the next state from the one it knows.
SaveWorkflow(p, c) ==
  /\ Len(known[p].WORKFLOW) < MaxLength
  /\ BeginCall(p, "WORKFLOW", Append(known[p].WORKFLOW, c))

SaveCheckpoint(p, c) == BeginCall(p, "CHECKPOINT", <<c>>)

AppendEvidenceReceipt(p, c) ==
  /\ Len(known[p].RECEIPTS) < MaxLength
  /\ BeginCall(p, "RECEIPTS", <<NewReceipt(known[p].RECEIPTS, c)>>)

\* A call that failed is made again as it was.
Retry(p) ==
  /\ proc[p].pc = "FAILED"
  /\ proc' = [proc EXCEPT ![p].pc = "READ"]
  /\ UNCHANGED <<files, disk, known, acked, told>>

\* A record that is there already is answered as a success, and nothing is synced for it.
Decide(p, decision, out) ==
  LET k == proc[p].key
  IN /\ proc' = [proc EXCEPT
          ![p].pc = CASE decision = "KNOWN" -> "IDLE" [] OTHER -> decision,
          ![p].out = out]
     /\ IF decision = "KNOWN"
        THEN /\ known' = [known EXCEPT ![p][k] = files[k]]
             /\ told' = [key |-> k, record |-> files[k]]
        ELSE UNCHANGED <<known, told>>
     /\ UNCHANGED <<files, disk, acked>>

ReadRecord(p) ==
  LET k == proc[p].key
      want == proc[p].want
  IN /\ proc[p].pc = "READ"
     /\ CASE k = "WORKFLOW" ->
               Decide(p, CheckFirstWorkflow(files[k], proc[p].expected, want), want)
          [] k = "CHECKPOINT" -> Decide(p, CheckCheckpoint(files[k], want), want)
          [] k = "RECEIPTS" -> Decide(p, CheckReceipt(files[k], want[1]), files[k] \o want)

ReadWorkflowAgain(p) ==
  /\ proc[p].pc = "AGAIN"
  /\ Decide(p, CheckWorkflow(files.WORKFLOW, proc[p].expected, proc[p].want), proc[p].want)

\* Faulty: the caller is answered once the file is renamed.
FaultyRename(p) ==
  /\ proc[p].pc = "WRITE"
  /\ files' = [files EXCEPT ![proc[p].key] = proc[p].out]
  /\ acked' = [acked EXCEPT ![proc[p].key] = @ \union {proc[p].out}]
  /\ known' = [known EXCEPT ![p][proc[p].key] = proc[p].out]
  /\ proc' = [proc EXCEPT ![p].pc = "IDLE"]
  /\ UNCHANGED <<disk, told>>

\* The temporary file is complete and synced; it takes the record's name.
Rename(p) ==
  /\ proc[p].pc = "WRITE"
  /\ files' = [files EXCEPT ![proc[p].key] = proc[p].out]
  /\ proc' = [proc EXCEPT ![p].pc = "SYNC"]
  /\ UNCHANGED <<disk, known, acked, told>>

\* The directory is synced, and the caller is told that the record is persisted.
SyncDirectory(p) ==
  LET k == proc[p].key
  IN /\ proc[p].pc = "SYNC"
     /\ disk' = files
     /\ acked' = [acked EXCEPT ![k] = @ \union {proc[p].out}]
     /\ known' = [known EXCEPT ![p][k] = proc[p].out]
     /\ proc' = [proc EXCEPT ![p].pc = "IDLE"]
     /\ UNCHANGED <<files, told>>

\* Writing the temporary file fails, or syncing the directory after the rename does.
WriteFails(p) ==
  /\ proc[p].pc \in {"WRITE", "SYNC"}
  /\ proc' = [proc EXCEPT ![p].pc = "FAILED"]
  /\ UNCHANGED <<files, disk, known, acked, told>>

ProcessCrash(p) ==
  /\ proc[p] # NoCall \/ known[p] # NothingKnown
  /\ proc' = [proc EXCEPT ![p] = NoCall]
  /\ known' = [known EXCEPT ![p] = NothingKnown]
  /\ UNCHANGED <<files, disk, acked, told>>

\* The machine stops.  Of the renames since the last sync any may be lost, and with a directory
\* that the store made itself everything in it, as its own name was never synced.
PowerLoss ==
  /\ \/ \E lost \in SUBSET Keys :
          /\ files # disk
          /\ files' = [k \in Keys |-> IF k \in lost THEN disk[k] ELSE files[k]]
          /\ root' = IF root = "MADE" THEN "SAFE" ELSE root
     \/ /\ root # "SAFE"
        /\ files' = [k \in Keys |-> Absent]
        /\ root' = "LOST"
  /\ disk' = files'
  /\ proc' = [p \in Procs |-> NoCall]
  /\ known' = [p \in Procs |-> NothingKnown]
  /\ UNCHANGED <<acked, told>>

ProcessStep ==
  \E p \in users :
    \/ \E k \in InUse : Load(p, k)
    \/ \E c \in Changes :
         SaveWorkflow(p, c) \/ SaveCheckpoint(p, c) \/ AppendEvidenceReceipt(p, c)
    \/ Retry(p) \/ ReadRecord(p) \/ ReadWorkflowAgain(p)
    \/ Rename(p) \/ SyncDirectory(p) \/ WriteFails(p) \/ ProcessCrash(p)

StoreNext ==
  \/ ProcessStep /\ UNCHANGED <<root, users>>
  \/ PowerLoss /\ UNCHANGED users

StoreSpec == StoreInit /\ [][StoreNext]_storeVars

-----------------------------------------------------------------------------
(* Properties                                                              *)

\* A store that one process has to itself.
Unshared == \A p, q \in users : p = q

\* What a caller was told is persisted stays: in the file of its key, now and after any crash,
\* the same record or one made from it; unless a power failure took the directory that the
\* store had made.
NothingAcknowledgedIsLost ==
  root # "LOST" => \A k \in Keys : \A a \in acked[k] : IsPrefix(a, files[k]) /\ IsPrefix(a, disk[k])

\* A save that took effect although its call failed is recognised when it is
\* made again: it is not refused as stale or as a conflict.
RetryIsRecognised ==
  \A p \in Procs :
    proc[p].pc = "REFUSED" =>
      IF proc[p].key = "RECEIPTS" THEN proc[p].want[1] \notin ToSet(files.RECEIPTS)
      ELSE proc[p].want # files[proc[p].key]

\* Whatever the processes do to each other, the chain in the store is one that
\* loadEvidenceReceipts accepts; otherwise no receipt could be added any more.
ChainStaysReadable == ValidChain(files.RECEIPTS) /\ ValidChain(disk.RECEIPTS)

\* The answer that a record is there already promises less, as no sync stands behind it: the
\* record stays whatever the process does, and a power failure takes it only when no sync of the
\* directory came after it.
KnownUnlessLost ==
  IsPrefix(told.record, files[told.key]) =>
    \/ IsPrefix(told.record, files'[told.key])
    \/ PowerLoss /\ (root = "SAFE" => ~IsPrefix(told.record, disk[told.key]))

\* Book's durable store: what the caller of a store of its own was told is persisted stays,
\* now and after any crash, if the directory stood before the store's first write; what it was
\* told is there already stays as well, but for a power failure that comes before a sync; a
\* save that took effect although its call failed is recognised when it is made again; and
\* whatever processes that share a store do to each other, and whoever's record is lost by it,
\* the chain can be read, as otherwise no receipt could be added any more.
RecordsAreKept ==
  /\ [](/\ Unshared => NothingAcknowledgedIsLost /\ RetryIsRecognised
        /\ ChainStaysReadable)
  /\ [][Unshared => KnownUnlessLost]_storeVars

=============================================================================
