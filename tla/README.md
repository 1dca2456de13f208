# TLA+ verification of System Master

System Master runs unattended work ("Second Shift") on one workstation and changes
its own repository through a "control gateway" of GitHub workflows.  Owners bind
delegations to lanes, a scheduler claims them, worker processes execute them and
evaluators judge some of them, all in one SQLite database.  Libraries in JavaScript
plan and keep books, admit chat sessions, publish what work is under way, take file
leases and move protected branches, where the shared state is a branch on GitHub and
the only atomic operation a fast-forward.

What makes this hard is seldom a single function.  It is who may still write what
after something went wrong: a process that slept through the end of its lease, an
answer that was lost although the branch moved, an audit that read a pull request
before its author pushed, a job that was killed between its commit and its receipt.
This directory models these parts, checks them with TLC on small instances and proves
the main invariants with TLAPS for instances of any size.

Paths below are relative to the root of the repository; `gw/` stands for
`control-gateway/src/`, `gh/` for `.github/scripts/`, `book/` for
`system-master/book-system/`.

## 1. The system

| component | state it keeps | operations | modules | status |
|---|---|---|---|---|
| Supervisor store, P10 (`tools/second_shift_supervisor_v2.py`) | tables lanes, delegations, claims, dispatch_outbox, circuits, events | register_lane, bind_ready, claim_ready, mark_dispatched, dispatch_failed, heartbeat, progress, await_evaluation, evaluator_verdict, terminal, invalidate_head, recover | `SupervisorStore`, `DelegationLifecycle`, `SupervisorStoreRefinement` | modelled, proved |
| Execution worker (`control-gateway/python/a01_execution_worker.py`, `a01_execution_service.py`) | execution results and attempts, the process's locals | recover, consume_dispatch, run_once | `ExecutionWorker` | partly modelled, proved |
| Production mutation and file leases (`gw/github-production-mutation.js`, `github-system-file-lease.js`, `github-mutation-admission.js`, `gh/control-gateway-production-writer.js`) | protected branch, register of leases and its events | admit, acquire, require, commit, update, verify, recover, release | `ProductionMutation` | modelled, proved |
| Active work (`gw/active-work-state.js`, `github-active-work-publication.js`, `gh/control-gateway-active-work-publisher.js`) | packets; a branch of them; a store with compare-and-swap | genesis, transitions, commit and publish, reconstruct | `ActiveWorkPacket`, `WorkLog`, `ActivePublication`, `ActiveWorkStore` | modelled, proved |
| Single-writer audit (`gh/system-file-lease-enforce.js`) | a check per pull request | list, read, compare, merge under it | `SingleWriter` | modelled, proved |
| Book lifecycle (`book/book-lifecycle-state-machine.js`) | state of twenty phases | start, progress, complete, block, unblock, stale, reopen, cancel, recover, reprofile, invalidate | `BookLifecycle` | modelled, proved |
| Book plans and routing (`book/book-workflow-execution-plan.js`, `book-capability-routing-interface.js`) | none | validation, layering | `BookPlan` | modelled, proved |
| Book workflow (`book/book-workflow-state-model.js`, `-cancellation-resume.js`, `-retry-idempotency-rules.js`) | workflow, checkpoint, operation records | transitions, pause, cancel, resume, retry | `BookWorkflow` | modelled, proved |
| Book durable store and evidence chain (`book/book-workflow-durable-store.js`, `-evidence-provenance.js`) | files | save, load, append a receipt | `BookStore` | modelled, proved |
| Chat recovery and successor references (`gw/chat-recovery-gate.js`, `successor-ref-admission.js`) | branches | build a contract, grant, create a branch | `ChatRecovery` | modelled, proved |
| Chat session admission (`gw/chat-session-admission.js`) | claims of sessions | reconcile, admit, store | `ChatSessions` | modelled, proved |
| Validator closure (`gw/validator-closure.js`) | none | check coverage, grant | `ValidatorEvidence` | modelled, proved |
| Workflow dispatch (`gw/github-workflow-dispatch.js`) | runs listed by GitHub | dispatch, correlate, poll | `WorkflowDispatch` | modelled, proved |
| Repair ledger and broker (`gh/a01-repair-ledger.js`, `a01-closed-loop-repair.js`, `a01-repair-broker.js`, `-reconcile.js`) | transactions, tickets and adjudications in files | open, ingest, retry, reconcile | `RepairLedger` | partly modelled, proved |
| Second Shift ledger validators (`gh/second-shift-enforce.js`, `second-shift-state-kernel-v2.js`) | an append-only ledger | validate | `ShiftLedger` | partly modelled, proved |
| A-01 admission barrier and control plane (`gh/a01-admission-barrier.js`, `a01-control-plane.js`) | a run of the workflow, its receipts | evaluate, validate, execute, close | `QualificationRun` | partly modelled, proved |
| Night scheduler, coordination CG-008/CG-009, GitHub ingress (`control-gateway/python/`) | tables beside the store's | enqueue, tick, bind, poll | — | planned |
| Execution leases and change coordinator (f-wp-007), change registry (f-wp-002), Java leases, claims, driver, identity and contract journals (`system-master/`) | journals and ledgers of one process | see PROJECT.json | — | later |
| Repair executor, closure evidence, durability provider, retention, morning receipt | files and remote calls | — | — | not modelled: I/O around the store, or read-only |
| CI enforcement scripts, product planners, semantic recovery profiles, handoff and response governance | none | judge the fields of one document or commit | — | not modelled: no step of theirs is read by a later one |

How they meet.  Scheduler, workers, evaluators' callbacks and control loops are
processes that share the database and nothing else.  Every public method of the store
is one `BEGIN IMMEDIATE` transaction; between two methods any other process may run,
or the caller die.  A caller reads the clock *before* it waits for the write lock
(busy_timeout is 30 s), so a method may act on an old reading.  Authority is passed on
as a fencing token, the lane's counter at the time of the claim.

The workflows share branches.  A job reads a head, works for seconds or minutes and
asks GitHub to move the branch to a commit whose parent is that head.  GitHub takes
only fast-forwards; the answer may be lost although the branch moved, a later read may
be of an older state, and a job can be killed anywhere and be started again, as a new
attempt or by a new request.  A production mutation is admitted against the authority
that active work publishes; what lands is then read by the single-writer audit and the
audit of the trailers.  Chat sessions work under the same published authority.

The book libraries are called within one process; their hazards are long sequences of
legal calls, stops and resumptions, and crashes between writing a file and its name.

What makes each component correct:

* **Store**: one live claim per lane; tokens never repeat; the four tables agree;
  outcomes are final; completion only on the current head and by the newest claim;
  work marked `independent_evaluation_required` is completed by somebody else's
  verdict; failures are counted once; everything ends.
* **Worker**: the result row agrees with the claim although they are written in
  different transactions; a result that exists is never produced again; an executor
  that is not RETRY_SAFE is started once; an overtaken process changes no
  claim, lane, result or attempt; recovery can always go on; claims end although
  processes die.
* **Production mutation**: a mutation is on the branch once, on the predecessor of
  its request; its lease events tell the truth; leases come and go in whole sets;
  nothing lands on a file that someone else holds; each trailer gets its event.
* **Active work**: the branch's history is a log of requested transitions; no work,
  receipt or change of authority is lost or counted twice; who is told that the work
  is published finds it on the branch.
* **Audit**: of two open pull requests that change one protected file, or claim one
  operation, one cannot be merged.
* **Book**: every state that the operations reach is one that the validation
  accepts and the owner can go on from; receipts of superseded evidence are kept;
  admission to the manuscript comes last; what must not be repeated is not; a record
  that was written and acknowledged is on disk.
* **Recovery, sessions, closure, dispatch, repair, ledger, qualification**: a contract
  stood as a whole at one moment; claims are disjoint; a grant is closed; a caller is
  told its own run; budgets are kept; work lies within its claim; a verdict is earned
  in its window by what was registered.

The hazards, each with the line where it bites and the properties aimed at it, are in
`PROJECT.json`.  Three have no property: READY work that is never claimed (the
scheduler's promise, not the store's), rows that stay RUNNING of a claim that is STALE
(nothing promises that they are repaired), and a poisonous dispatch that keeps those
of other lanes waiting.

## 2. Modules

| module | models |
|---|---|
| `SupervisorStore` | the store: one action per method; every caller at once |
| `DelegationLifecycle` | what the store promises, without tables, fences, leases or clocks: offered, granted once, held by one worker of a lane, decided once |
| `SupervisorStoreRefinement` | the mapping from the store's tables to the lifecycle |
| `ExecutionWorker` | worker processes over the store, one action per transaction of `run_once` |
| `ProductionMutation` | runs of the production writer over branch, register and authority |
| `ActiveWorkPacket` | packets of active work and the operations on one; used by the next three |
| `WorkLog` | what publication promises: a history begun once and extended by one requested transition at a time |
| `ActivePublication` | runs of the publisher over the branch, with lost and late answers |
| `ActiveWorkStore` | the store with compare-and-swap and writers that edit copies |
| `SingleWriter` | pull requests, their authors, their audits and merges |
| `BookLifecycle`, `BookPlan`, `BookWorkflow`, `BookStore` | the four libraries of the book system |
| `ChatRecovery`, `ChatSessions` | recovery of a chat and successor branches; sessions' claims |
| `ValidatorEvidence`, `WorkflowDispatch` | what a validation grants; dispatch and correlation of runs |
| `RepairLedger`, `ShiftLedger`, `QualificationRun` | repair transactions; the shift's ledger and its two validators; a qualification run |
| `MCSupervisorStore`, `MCSupervisorStoreRefinement`, `MCExecutionWorker`, `MCLibraries`, `MCWorkflows` | instances for TLC |
| `SupervisorStoreProofs`, `ExecutionWorkerProofs`, `ProductionMutationProofs`, `WorkHistoryProofs`, `ActivePublicationProofs`, `BookProofs`, `ChatProofs`, `WorkflowProofs` | theorems and proofs |

### SupervisorStore

`lane`, `delegation`, `claim`, `outbox` are the tables, one record per row, with the
columns that some guard reads.  A claim and its dispatch are inserted together under
one idempotency key, so a key names both.  `circuits`, `failures` and `verdicts` are
the circuits table and those rows of the events table that a method looks up again to
recognise a replay.  `now` is the machine's clock.

Guards are the checks of the method in its transaction; a call that is refused or
answered from the record is a stuttering step.  Callers are not modelled: any method
may be called at any time with any token in `Issued`, which includes those of other
lanes and of claims long gone, and with any clock reading at most `MaxLag` old.
`InvalidateHead` and `Recover` are set-valued, as the loops in one transaction are:
all claims that are swept become STALE in one step and each advances its lane's fence
once.

Left out: shift windows (a caller says so or is refused), payloads other than the
candidate digest and the evaluation mark, REWORK and DRIFT verdicts (treated by the
code as BLOCKED is), the event log as a log, and the schema bootstrap.

### ExecutionWorker

Extends the store by the two tables of the worker and, for each process, where it is
in `run_once` (`pc`) and what it carries from one transaction to the next: the clock
it read, the token of the dispatch bundle, generation and attempt of its execution
context, the leases it swept.  These go stale while other processes run, which is the
point.  `Renewing`, `Stage`, `Commit` contain the `except` branches: StaleWorker leads
through `_record_authority_lost` to the end of the process, Conflict in the `try` leads
to the attempt to stage BLOCKED, ExecutionBusy to the next round.

Two reads that are separate statements in the code are one step here where that loses
no outcome: the dispatch bundle and the result row in `Open` (the row alone decides
whenever it is staged or final, and otherwise acquisition checks again), and the row
and `store.terminal` in `Commit` (whatever changes the row in between also moves the
claim's token, or has decided the claim in the same way).

A process that ended is started again under a fresh `worker_id`.  In the model it takes
the name of an ended process no result row names as its owner, which no guard can tell
from a new name.  The scheduler's own tables are left out: `ScheduleClaim` is the claim
that `tick` makes, when it likes.  All dispatches here are local: nobody else
acknowledges, fails or hands over a dispatch, as is the case of the repository's
production callers.

### ProductionMutation

A job is a run of `control-gateway-production-writer.js`: it observes the branch and
either goes on or recovers a mutation that is already there; it is admitted (the last
reads of authority and branch decide, since both only move forward), acquires leases,
checks them once, makes a commit that GitHub dates, moves the branch, verifies and
releases.  Every request to GitHub is a step.  `Swap` is a request to move the register
whose answer may be lost; `SwapLost` the look at the head that follows.  `CrashJob`
ends a job anywhere, `StartJob` starts another one of the same request.  A commit is
known by its place on the branch, which only grows, and the register by its content,
which never comes back since epochs and revisions grow.

A lease counts from the clock at the *call* of `acquire`, whatever its attempts take;
the leases are looked at once, before the commit is made and before the branch moves.
So a lease can run out in between, and the constant `Timely` separates what holds
anyway from what needs leases that outlast their mutation.

### Active work

`ActiveWorkPacket` has the packet (operation, state, receipts, standing, epoch,
subject) and the transitions as sets of successors.  `WorkLog` is the abstract
specification: `Genesis`, then one requested transition at a time.  `Genesis` asks of the
first packet what `assertEnvelopeMatchesRequest` asks when the branch is created: that it
is valid and was qualified and admitted.  It may have ended, have receipts, a later epoch or
a standing that was lost since.  In `ActivePublication` the commit below the new branch is
one that the builder made (of a packet that is ACTIVE and has PASSED, `BuildGenesis`) or
whatever commit a request names (`RequestBootstrap`), and `CheckBootstrap` is the check
before the branch is created.  Afterwards a run reads the head, makes its commit from the
packet it read, asks GitHub to move the branch and may lose the answer; then the update may
still land *later* (`late`), when another run has read the head.  `WorkLog` is a property of
it: `PublishesALog`.  `ActiveWorkStore` is the store that the branch replaces, with writers
that edit a copy for as long as they like before they swap.

### SingleWriter

Per pull request its title's operation, its files and its check.  An audit lists the
open pull requests with their titles, then reads the files of each in turn, while
authors push, retitle, close, reopen and merge.  A push starts the audit afresh (the
workflow runs on the event); an edit of the title does not (the workflow's default
event types leave `edited` out), which is what `Retitling` switches on.

### Book system

`BookLifecycle` has an action for each operation; it changes a copy of the state, which
`Refresh` completes by making phases ready, as the code does at its end. `BookPlan`
follows the validation of a plan step by step, the queue of `topologicalLayers` and the
stack of the search for what comes before the admission included; a task may name another
one that the plan does not have, which is refused.  `BookWorkflow` has the workflow, its
checkpoint and operation records, and the provider with the effects performed.
`BookStore` has files, what the disk keeps after a power failure, and processes between
the temporary file, the rename and the sync of the directory.  `acked` is what callers were
told is persisted, after a sync; `told` what they were told is there already, a success
for which nothing is synced.  `root` is the directory itself: the adapter may make it and
never syncs its name, so a power failure may take all of it.  Two registries that default
parameters load are not in the repository at this commit, so the models take them as
parameters.

### The rest

`ChatRecovery` reads the parts of a contract one at a time while publication and work
branch move; the transport of `createRef` has no implementation in the repository and is
modelled from its use.  `ChatSessions` has calls that wait for the authority to be read
before they store a claim; authority allows single paths and whole trees.
`ValidatorEvidence` accumulates what a request shows and what is granted.
`WorkflowDispatch` has callers that look for their run in a list that lags; a dispatch or
any request of a polling round may fail, which ends the call.  `RepairLedger` has a
transaction, its runs and files; its jobs are serialized, as the concurrency group
`a01-repair-ledger` does.  A run leaves a receipt with its subject, or none; then its class
is one of `Receiptless` and the adjudication takes it for the subject that is asked for.  `ShiftLedger` appends well-formed events
only, as long as a validator accepts the ledger.  `QualificationRun` has one run of the
workflow with its three readings of the registry, its timer and its window.

## 3. Runs

| run | instance | shows |
|---|---|---|
| `store_safety` | 1 lane, 2 delegations, 2 keys, 2 heads, clock to 3, lease 2, evaluation 2, lag 1, fence to 3 | the nine safety and action properties of the store |
| `store_dispatch` | 3 failure callbacks, 2 dispatches, budgets 2 and 3 | `RetryAccounting` |
| `store_liveness` | 1 lane, 2 claims | `ClaimsEnd` |
| `store_refinement` | 2 lanes, 2 delegations, 2 keys, 2 heads | `ImplementsLifecycle` |
| `worker_safety` | 2 processes, both mortal, 1 delegation, a RETRY_SAFE and another dispatch, 2 heads, clock to 4, lease 2 | the worker's safety and action properties |
| `worker_lanes` | 2 processes, 2 lanes, judged work, an unregistered executor | recovery over several lanes; with the real workers the store's own audit finds nothing |
| `worker_liveness` | 2 processes, crashes at the first two clock values | `ClaimsServed` |
| `libraries` | eleven parts, see below | the libraries that are called within one process, the work store, dispatch and qualification runs |
| `workflows` | eighteen parts, see below | what several runs of GitHub's workflows do to what they share |
| `store_audit` | as `store_safety` | **violation**: see below |
| `worker_handover`, `worker_overlap` | as `worker_safety` | **violations**: see below |

`MCLibraries` and `MCWorkflows` hold several instances each.  The systems in them share
no variable, so an interleaving of two of them has no behaviour that the two alone do
not have.  The variable `part` chooses one at the start, the variables of the others
keep their first values, and the states of a run are the *sum* of those of its parts
where a composition would multiply them.  Both extend the modules they instantiate, so
the formulas that are checked are those of the modules, which are also those that the
theorems state.  Where parts share a module, a part is smaller by a condition on its
states (`StoreKept`, `RequestKept`, `DispatchKept`, `Submitted`) or is an instance with
smaller constants.

| part of `libraries` | instance | property |
|---|---|---|
| lifecycle | 3 phases, one mandatory, a pair of flags, an event with fixed targets, every profile | `StateIsSound`, `ReceiptsAreKept`, `CallsConclude` |
| graphs, routes | every dependency graph on 3 tasks with required and optional edges, where the first is work or the handoff; every request, that may depend on a task the plan lacks, with any service beside the admission capability and any admission capability beside a service | `PlansAreSafe`, `CallsConclude` |
| workflow | a task that must not be repeated and one that may, or is an author's decision | `StopsAreClean` |
| store, shared | a process, any two kinds of record in up to 2 versions, crashes and power failures, a directory that stood before or was made; 2 processes and a chain | `RecordsAreKept` |
| evidence, closure | 2 paths and digests, 2 items, artifacts of as many families; references among 2 ids | `GrantsAreShown` |
| dispatch, guesses | 2 callers that keep apart or do not, 3 or 2 runs, 2 polls | `AttributionsAreOwn`, `CallsConclude` |
| qualification | 4 registries that main may hold, 2 qualifications, 2 windows, 2 attempts | `VerdictsAreEarned`, `CallsConclude` |

| part of `workflows` | instance | property |
|---|---|---|
| publication, race, long | three first packets (at work; ended, with a receipt and a lost standing; not qualified), requests for any commit, one run after the other with a late answer, 3 packets; two runs at a time; operations to and fro; up to 4 packets | `BranchIsTrue`, `PublishesALog` |
| swaps, edits | 2 writers with one edit, 1 writer with two; 2 operations, the second on the receipt of the first, epochs to 3 | `WorkIsAccounted` |
| moments, create | a contract read while authority and branch move; two creations of one branch | `RecoveryHasAuthority` |
| sessions | 8 claims of 3 sessions and owners, nested paths, authority that moves and narrows from a tree to a path, 2 calls at a time | `ClaimsAreExclusive` |
| writers, retitled | 2 pull requests, a governed and a fenced path; titles that change | `OneWriter`, `SingleWhateverChanges` |
| timely, again | 2 jobs, 2 mutations that share a file, leases that outlast them; 1 mutation whose register is tried twice | `MutationsAreSingle`, `LeasesAreSettled` |
| expiring | the same with leases of one tick and an authority that changes | `SingleWhateverChanges` |
| repairs | 1 transaction, 3 subjects, budgets 1 and 2, 3 runs, results with a receipt or without, delivered twice | `RepairsAreBounded` |
| claims, late, circuits, idle | ledgers of 4 to 6 events of the kinds that concern each other | `LedgersAreConsistent` |

Each property stands in its module as a conjunction of named parts: `StopsAreClean` is
`NoBlindRepeat`, `StoppedIsAtRest`, `StopAndResumeAgree`, `SafeResumption` and
`TerminalIsFinal`, and so on.  Only the progress of the libraries (`CallsConclude`) and
the two properties of other instances (`SingleWhateverChanges`) are put together in the
modules of the runs.  Of the latter, the mutant (a lease that ran out is taken over with
the time it had) fails in the instance whose leases expire; the other half is `OneWriter`'s,
with titles that change.

Why these bounds are enough.  What the store relates is one lane with its neighbours in
time: two claims on one lane are enough for a newer claim to overtake an older one; two
heads for a head to move and come back; a clock of 3 with terms of 2 for a lease to be
granted, run out and be followed by another, late by one tick; `MaxFence` 3 for two
claims and a head change in any order.  Two lanes matter only to the methods that sweep
all of them.  With two processes one can overtake the other, and with one key of each
retry policy either rule is taken.  For the branches the same argument holds: two jobs
are enough for one to act between two requests of the other, two mutations that share
one of two files for a set of leases to be half free, and a third commit adds nothing a
predecessor check could tell from the second.  A ledger's rules each relate at most
three kinds of events, which the four kinds of ledgers give in every order.
`MaxTime`, `MaxClock`, `MaxFence`, `MaxLag`, `MaxLength`, `MaxAttempts` and `LastCrash`
bound the instances only; the theorems have no bound on callers, lanes, keys, jobs,
mutations or pull requests.  Deadlock checking is off because bounded clocks and fences
let an instance run out of steps; the system itself waits for new work there.

### Fairness

`FairSpec` assumes that some control loop calls `recover` again and again (every
`run_once` does, first thing) and that time passes.  No worker, dispatcher or evaluator
is assumed to do anything: what ends their claims is recovery.  `WorkerFairSpec` assumes
that a running process takes its next step (executors return: the qualification executor
has a timeout), that ended processes are started again (the service is registered to
start with the machine and the operator restarts it), and that time passes.  Without the
restart nothing would hold: a StaleWorker ends the process by design.  Crashes stop at
`LastCrash`, which leaves room on the bounded clock for the last orphaned lease to run
out.

`LibraryFairness` assumes that a lifecycle's owner takes the action that
`calculateNextStep` shows, again and again; that a validation that is called goes on, as
a function does; that a caller that has dispatched polls; that GitHub runs the jobs of a
started workflow; and that time passes.  `MCWorkflows` assumes no fairness.

### What disagrees with its documentation

Three disagreements are checked as runs that TLC refutes:

* `store_audit`: a legal sequence of calls makes `audit_invariants` report a healthy
  store.  `bind_ready` refuses a lane with a VALIDATING delegation but `claim_ready` does
  not, so a delegation that was bound earlier can be claimed beside a candidate under
  evaluation; when the evaluation times out, `recover` advances the fence and resets the
  lane under the live claim.  With the worker as it is (`worker_lanes`) no candidate is
  handed over and the audit's condition holds; that too is a theorem
  (`LiveClaimsPassAudit`).
* `worker_handover`: the worker stages COMPLETED for work that needs an independent
  evaluation instead of handing a candidate over.  The store refuses it, the process
  ends, and every later process that recovers the lease ends in the same way.
* `worker_overlap`: two processes can execute one RETRY_SAFE dispatch at once.  They
  cannot both record a result, which is what the fences are for, but the docstring
  promises more.

Others were met while modelling.  The models behave as the code does there, and the
properties are stated so that they say what the code keeps:

* Book lifecycle: a blocked phase does not stop a later one that was reopened or
  recovered from being completed, and a completion may name a superseded receipt.
* Worker: `mark_dispatched` asks for no fence, so a process that was overtaken just before it
  acknowledges the dispatch for the newer holder.  The row gets the newer fence and the
  newer holder's own acknowledgement is a replay; nothing else comes of it.
* Book store: two processes may both be told that their save persisted although one
  replaced the other's; the chain stays readable all the same.  A save that failed after its
  rename and is made again succeeds without a sync, and a directory that the adapter made
  is never synced in its parent: either record can be lost to a power failure.
* Production mutation: when leases run out between the landing of a commit and their
  release and another mutation takes them, the first commit never gets its events and
  the audit of the trailers fails for good.  `LeasesAreSettled` therefore needs `Timely`.
* Active work: the branch may be created on a commit that the builder would not have made,
  of a packet with receipts or a standing that was lost; only the head's qualification and
  its match with the request are checked.
* Active work: `REBIND_AUTHORITY` to the present subject raises the epoch on the branch;
  the store refuses the same packet as drift.
* Single-writer audit: an edit of the title does not start it again, so the verdict on
  an operation outlives the title; `OneWriter` asks for one operation per pull request
  only where titles stay.
* Successor references: a creation that was refused because another run had created the
  branch is reported as a recovered ambiguous creation.
* Validator closure: code evidence of other bytes is granted if the artifact does not
  declare CODE.
* Dispatch: callers that do not keep apart can be told each other's run, and nothing in the
  code keeps them apart; `AttributionsAreOwn` promises a caller its own run only where they
  do (`apart`), and otherwise that a list with several new runs is attributed to nobody.
* Repair ledger: the result of a run that left no receipt is not compared with the subject.
  One of an earlier candidate spends the current one's retry, or sends it to the control
  plane's owner or the dead letters; the budgets hold all the same.
* Repair ledger: a transaction opened as DEAD_LETTER has no terminal event, so no
  adjudication of it is committed; a second repair may hand in the subject that failed
  first; a lineage can get more than one retry of the same SHA.
* Ledger validators: the kernel accepts ledgers that the watchdog refuses, and both
  accept a claim directly after a completion.
* Qualification: a refusal because metadata could not be read is decided anew when the
  run is started again.

## 4. Proofs

Eight modules hold theorems.  Those a reader should know are listed in `PROJECT.json`;
each is for arbitrary sets of its actors and any values of its bounds.

| module | assumes | proves |
|---|---|---|
| `SupervisorStoreProofs` | finitely many keys, positive terms, NONE is no value | types, lane exclusion, fencing, agreement, finality, completion on the current head, the audit of lanes and candidates, stopping of released work, retry accounting, independent verdicts; the store implements `DelegationLifecycle` |
| `ExecutionWorkerProofs` | the same | types; recovery is never refused; results match claims; one effect; one running attempt; final results; overtaken processes; the audit of live claims; worker and store together implement the lifecycle |
| `ProductionMutationProofs` | a mutation exists and changes governed files, TTL a number | types; a mutation is single; with `Timely`, leases are settled |
| `WorkHistoryProofs` | as `ActiveWorkPacket` declares | what a log keeps; the work store's history is accounted for |
| `ActivePublicationProofs` | the same | the branch publishes a log and tells the truth |
| `BookProofs` | the shape of a contract; finitely many tasks of the four classes; the keys in use are keys | lifecycle: types, exact evidence and a workable next step, receipts are kept; store: acknowledged records are kept; workflow: stops are clean; plans: what is accepted is safe |
| `ChatProofs` | paths are sequences of segments; the first authority is one; publishable packets are packets | sessions: types, claims are exclusive, grants stood whole at one moment, what is held is granted again; recovery: contracts and branches have their authority; closure: grants are shown |
| `WorkflowProofs` | as the modules declare: budgets, limits and times are numbers, "none" is no value | audit: one writer for a path, always, and for an operation where titles stay; dispatch: attributions are own; qualification: verdicts are earned; repairs: they end as they passed and are bounded; ledger: its validators are consistent |

The assumptions are named (`StoreAssumption`, `RecoveryAssumption`, `LedgerAssumption`,
...) in the modules that declare the constants, and TLC evaluates them in the runs.

**Supervisor store.**  `Exclusion` and `Fencing` rest on `ExclusionInv`.
`LaneExclusion` is not inductive: that a new token is new needs *every token of a claim
is at most its lane's fence* (`TokensBelowFence`), and that a sweep concerns the right
lane needs *every claim lies on a registered lane and names an existing delegation*
(`Placed`).  `Agreement` and `Finality` add that a released claim is decided or handed
over and that a delegation has at most one claim.  `CompletionIsCurrent` needs that a
claim keeps its head and that this is the delegation's head (`HeadsAgree`), and that who
completes holds the lane's fence, which no token exceeds.  `AuditLaneAndCandidate` is two of the audit's checks, those the store keeps under
any callers: a CLAIMED lane has a live claim, and work under evaluation a released claim and
a dispatch that awaits the verdict.  It needs that the lane of a live claim, or of a
candidate, is held for it (`LaneHeld`, `CandidateHeld`), and says nothing of a live claim's
head and fence (the run `store_audit`);
`ReleasedWorkIsStopped` that a live dispatch has a run exactly when it is DISPATCHED and
that a candidate names its dispatch's run (`DispatchRow`).  `RetryAccounting` counts a
finite set of failure rows (`RetryRow`), which is where redelivered callbacks disappear.
Steps are grouped by shape, one lemma each: steps that touch no row, that move one claim,
and sweeps over sets of claims.  The lemmas are stated for steps with any clock reading
and any lease (`AnyStep`), because the workers' calls need that.

**Refinement.**  Grants map to `Grant`, `terminal` and `await_evaluation` to `Settle` or,
for STALE, to `Withdraw` of one delegation, verdicts to `Judge`, sweeps and head changes
to `Withdraw` of a set; everything else stutters.

**Worker.**  A process uses the store's methods and two transactions that pass them by
(taking over an open claim, extending a lease); these leave the lifecycle as it is
(`InPlace`), so the store's invariants and the refinement carry over.  `WorkerInv` adds
what rows say of claims (`ResultFits`, `AttemptsFit`, `Matches`), what a process that has
slept still knows (`ProcessFits`: its clock, token and generation were true once and
fences have only grown since), and that no candidate exists (`NoCandidates`), by which the
live-claim audit, no invariant of the store under arbitrary callers, is one under the
workers.  `OvertakenIsHarmless` rests on the guards: every write compares the token with the
claim's, but for `mark_dispatched`, of which only what it writes can be said.

**Production mutation.**  `MutationInv` says of each job that what it carries was true
when it was read and cannot have been changed by another (`Sound`): its receipt is of its
own leases; the register it will write was made from one in which none of its files was
locked (`MayAcquire`), or held (`MayRelease`), and is accepted only if that is still the
register; a commit that may still land has its leases in the register, and they last
(`MayLand`, in time only); after the landing its place is the one after its predecessor
(`HasLanded`).  `AppliedAtMostOnce` follows because requests name a predecessor that is
behind (`RequestsAreBehind`) and each commit stands right above it (`CommitsAreAsked`): a
second job of the same predecessor finds the branch moved.  `LeasesAreWhole` gives leases
of one mutation one end, without which half of a set could be live.  For the events,
epochs only grow, so a trailer names one lease and its commit was made within it
(`TrailersNameLeases`).  A step that leaves all shared state alone needs only that its job
stays sound (`QuietStep`); six lemmas are about the steps that change it.  TLC checked
`MutationInv` on 430 820 states with `Timely` and on 1 123 177 without before it was
proved.

**Publication.**  A commit that is under way is *founded*: on a first packet that passed the
check of `CheckBootstrap`, or on a commit of the branch from whose packet it was made.  The branch only grows, so it stays founded, and
lands only on the head, so it lands on what it was founded on; hence the history is a
`WorkLog`, whatever is lost or late.

**Histories of work.**  Every operation makes a packet that `Follows` the one it was made
from: no receipt fewer, a receipt of the operation if it is another one, a known
predecessor, and the same authority or a later epoch.  To follow is transitive, so in a
history that is `Chained` each packet follows all before it, and `ChainedKeeps` derives
what is asked of two packets from that.  A log advances from its last packet.  In the store
a writer edits a copy of an older revision for as long as it likes; what it holds follows
that revision (`DraftsFollow`), which is the last one when the swap succeeds.  That the
epoch *counts* needs more than to follow: the store's `assertAuthorityTransition`, which
the branch has not (see above), hence it is a theorem of the store alone.

**Sessions.**  The gate compares paths; what must not be shared are the files below.  Two
paths above one file are nested (`CommonFileOverlaps`), so claims that are apart share no
file (`ApartIsDisjoint`), and a claim that an authority allows covers nothing else
(`AllowedIsCovered`).  `ReadInTime` keeps the moment at which a call read the authority,
between its asking and now; authorities are only added, so a grant stood whole then.
That claims stay disjoint is inductive with the types.

**Single writer.**  Of two open pull requests that change one protected file, one is
always `Caught`: its audit has failed, has not listed yet, or has listed the other one and,
if it has read it, has seen the file.  **Lifecycle.**  Each operation makes an exact copy
that drops no receipt; what `Refresh` adds is shown once.

**Plans.**  While a plan is layered (`LayeringInv`), every layer depends on earlier ones
only (`Layered`), and the counters of the queue are what is left: a task's degree is the
number of its dependencies in no layer, and the ready tasks are those with none of them
(`Counted`).  If nothing is ready, the tasks in no layer wait for each other (`Stuck`), which
is the cycle the plan is refused for.  Why the admission comes last rests on the search for
what it needs: whatever has been seen, or is on the stack, has been run in *every* set of
tasks that can have been run when the admission may (`SearchInv`).  Said of all these sets,
not of paths, it needs no induction.

**Book workflow.**  An operation that must not be repeated has been performed once exactly
when the provider has done it, and its task can only be started while the provider has
nothing of it, or has lost it (`EffectsAreCounted`).  A stopped workflow has no task under
way (`StoppedIsAtRest`), and one that is paused has a valid checkpoint that keeps what was
verified apart from what was interrupted (`StopIsRecorded`), by which stop and resumption
agree.

**Durable store.**  The file of the chain, what the disk keeps of it and what any process is
about to write to it are chains that can be read (`ChainsAreValid`), so a crash leaves one.
As long as one process uses the store, the file continues what the disk keeps, and what is
written next continues the file; while the directory stands, what the disk keeps continues
what was acknowledged after a sync (`Continued`).  Of the answer that a record is there
already only a step can be promised (`KnownUnlessLost`): no step of the process takes the
record away, and a power failure only if no sync came after the rename, or takes the whole
directory.  With several processes all this is false (see above), so the theorem claims it
of an unshared store, and of a shared one that its chain can be read.

**Recovery.**  `moments` remembers which publication was current with which head.  What a
run has read of a head after a publication stood with it, unless there is another
publication by now (`ReadTogether`), which the run's last read will see; hence a contract
that is granted, and each receipt, is `Backed` by one moment.  Of several runs only one can
have been told that it created a branch, and the branch is there then (`SingleCreator`).

**Closure.**  Each declared artifact declares at least what its kind demands (`Declared`).
A grant is the last step of a request; what it was given for stays (`GrantStands`).

**Dispatch.**  Of callers that keep apart one is under way, and every run made since it
noted the list is its own (`OneAtATime`).

**Qualification.**  Since the registry of the dispatched commit does not change, what was
admitted stays fit (`AdmissionHolds`), and a refusal of the registry is given again
(`RefusalIsLasting`).  A child runs the registered entry and is started when the window
leaves it its time (`ChildIsPlaced`); a PASS was reached by a child before its timer fired,
and promotion by a PASS of an entry whose gate is promotion (`OutcomeIsEarned`).

**Repairs.**  A transaction's invariant ties its state to its log and its files: candidates
were taken for the attempts spent, each once and within the budget; while it can be run
again, the last ticket is of its subject and, before its first retry, nothing was retried
under it; the files written so far leave the next names free (`FilesBefore`), so none is
written over.  The auditor's reconciliation is proved to accept the ledger after every
step and not only where the code calls it.  For that theorem, `RepairsStayBounded`, no first
failure may be out of budget when it is opened (`NoneOpensDead`): for such a one the code
writes no terminal event, and its own auditor objects.  `RepairsEndAsTheyPassed` claims the
rest without that condition.

**Ledger.**  Each of the two validators goes through the ledger with a record of what it
has read.  Since the ledger grows one event at a time, so do the readings, and what they
carry can be tied to the events as an invariant, without induction over the ledger: every
value that is carried stands for an event of the ledger, and no event after it says
otherwise (`LastOf`, `LastBefore`; for claims, keys, retries, circuits, results and
exhaustion).  Where leases are named, the stricter kernel and the watchdog carry the same
(`AgreeInv`).

Only model-checked.  Liveness under fairness (`ClaimsEnd`, `ClaimsServed`,
`CallsConclude`) is outside the prover's reach.  `SingleWhateverChanges` is two of the
theorems on other instances.  Every other property of a passing run is
a theorem.  Not stated at all is what an induction over data would need, such as
that the length of a chain of files or the layer of a task equals what a recursive
definition computes.

## 5. Not modelled, and the plan

Formats, digests, wording and reporting are left out everywhere.  The worker's
`renew_lease` has no caller in `run_once`; the repair inbox script is called by no
workflow; the barrier's local `evaluate` is used by none.  The scheduler's, coordination's
and ingress' tables, and the Java journals, are not modelled yet.

Next, in this order:

1. `NightScheduler` over `SupervisorStore`: whether the queue follows the store after a
   crash in any window, whether a budget is ever exceeded, and whether the audit's full
   condition holds under the scheduler's discipline.
2. `ChangeCoordinator` (f-wp-007): journal appends, crash and replay, late observations,
   one holder per target.
