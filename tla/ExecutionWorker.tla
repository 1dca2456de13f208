--------------------------- MODULE ExecutionWorker ---------------------------
(***************************************************************************)
(* The processes that execute claimed work:                                *)
(* control-gateway/python/a01_execution_worker.py, class A01ExecutionWorker,*)
(* over the store of SupervisorStore.                                      *)
(*                                                                         *)
(* A process loops over run_once: it recovers what other processes left    *)
(* behind, picks the oldest live dispatch (or has the scheduler claim one), *)
(* becomes its execution owner, runs the executor, stages the result in    *)
(* night_execution_results and commits it through store.terminal.  Each of *)
(* these is a transaction of its own, so processes interleave between them *)
(* and may crash between them.  The only exception run_once survives is    *)
(* ExecutionBusy: every other one (StaleWorker, Conflict) ends the process. *)
(*                                                                         *)
(* The executors are outside the model: one may take any time, renew the   *)
(* lease while it runs, and succeed or fail.  The scheduler's own tables   *)
(* are left out: it claims when it likes.                                  *)
(***************************************************************************)
EXTENDS SupervisorStore, Sequences

CONSTANTS
  Workers,       \* worker processes
  Mortal,        \* processes that may crash
  Independent,   \* delegations whose handoff asks for an independent evaluation
  Registered,    \* dispatches whose executor kind this code has an executor for
  RetrySafe,     \* dispatches whose executor is declared RETRY_SAFE
  LeaseSeconds,  \* lease_seconds of a worker
  LastCrash      \* bound on the clock up to which processes crash

ASSUME WorkerAssumption ==
  /\ Mortal \subseteq Workers
  /\ RetrySafe \subseteq Registered
  /\ Registered \subseteq Keys
  /\ Keys \subseteq Runs             \* the run id local:<dispatch id>
  /\ LeaseSeconds \in Nat \ {0}
  /\ NONE \notin Workers

VARIABLES
  result,    \* table night_execution_results, by dispatch
  attempts,  \* table night_execution_attempts: the attempts of each dispatch in order
  worker     \* the processes

storeVars == <<lane, delegation, claim, outbox, circuits, failures, verdicts>>
workerVars == <<lane, delegation, claim, outbox, circuits, failures, verdicts, now,
                result, attempts, worker>>

-----------------------------------------------------------------------------
(* Rows and processes *)

Final == {"SUCCEEDED", "FAILED", "AUTHORITY_LOST"}

ResultRow == [state      : {"ABSENT", "RUNNING", "RESULT_READY"} \cup Final,
              terminal   : OrNone(Decided),
              generation : Nat,               \* execution_generation
              owner      : OrNone(Workers),   \* execution_owner
              attempt    : Nat,               \* current_attempt_id; 0 is NULL
              token      : Nat]
NoResult == [state |-> "ABSENT", terminal |-> NONE, generation |-> 0,
             owner |-> NONE, attempt |-> 0, token |-> 0]

AttemptRow == [generation : Nat,
               state      : {"RUNNING", "RESULT_READY", "SUCCEEDED", "FAILED", "FENCED"}]

\* Where a process is in run_once, and the locals it carries from one
\* transaction to the next.
Process == [pc         : {"idle", "recover", "sweep", "mark_lost", "poll", "tick", "open",
                          "acquire", "start", "dispatched", "run", "renew", "stage",
                          "commit", "finalize", "lost", "dead"},
            clock      : Nat,                \* its latest reading of the clock
            stale      : SUBSET Keys,        \* stale_leases that recover returned
            dispatch   : OrNone(Keys),
            token      : Nat,                \* fencing_token of the dispatch bundle
            generation : Nat,                \* of the execution context
            attempt    : Nat,
            outcome    : OrNone({"COMPLETED", "BLOCKED"})]   \* what it will report
Resting == [pc |-> "idle", clock |-> 0, stale |-> {}, dispatch |-> NONE, token |-> 0,
            generation |-> 0, attempt |-> 0, outcome |-> NONE]
Ended == [Resting EXCEPT !.pc = "dead"]

WorkerTypeOK ==
  /\ TypeOK
  /\ result \in [Keys -> ResultRow]
  /\ attempts \in [Keys -> Seq(AttemptRow)]
  /\ worker \in [Workers -> Process]

WorkerInit ==
  /\ Init
  /\ result = [k \in Keys |-> NoResult]
  /\ attempts = [k \in Keys |-> <<>>]
  /\ worker = [p \in Workers |-> Resting]

\* A process goes on to pc, or starts over, or ends.
Go(p, pc) == worker' = [worker EXCEPT ![p].pc = pc]
Rest(p) == worker' = [worker EXCEPT ![p] = Resting]
Die(p) == worker' = [worker EXCEPT ![p] = Ended]

Authorized(p) == LiveWorker(worker[p].dispatch, worker[p].token, worker[p].clock)

\* The row still names this process's generation, ownership and attempt.
Owns(p) ==
  LET r == result[worker[p].dispatch] IN
  /\ r.generation = worker[p].generation
  /\ r.owner = p
  /\ r.attempt = worker[p].attempt

\* UPDATE night_execution_attempts SET state=... WHERE attempt_id=? AND state=...
Moved(rows, n, from, to) ==
  IF n \in DOMAIN rows /\ rows[n].state = from
  THEN [rows EXCEPT ![n].state = to]
  ELSE rows

-----------------------------------------------------------------------------
(* Recovery *)

\* run_once reads the clock once; recovery, polling and acquisition use it.
Begin(p) ==
  /\ worker[p].pc = "idle"
  /\ worker' = [worker EXCEPT ![p].pc = "recover", ![p].clock = now]
  /\ UNCHANGED <<storeVars, now, result, attempts>>

\* _validate_recovery_identity: the fences of the three rows agree.
Identified(k) ==
  /\ outbox[k].token = claim[k].token
  /\ result[k].state # "ABSENT" => result[k].token = claim[k].token

FaultyRecoverableAnyRunning(k, at) ==
  /\ Abandoned(k, at)
  /\ k \in Registered
  /\ outbox[k].state \in {"PENDING", "DISPATCHED"}
  /\ outbox[k].run \in {NONE, k}
  /\ result[k].state \notin Final

FaultyRecoverableFinal(k, at) ==
  /\ Abandoned(k, at)
  /\ k \in Registered
  /\ outbox[k].state \in {"PENDING", "DISPATCHED"}
  /\ outbox[k].run \in {NONE, k}
  /\ result[k].state = "RUNNING" => k \in RetrySafe

\* _recoverable: the claim is kept and the same dispatch goes on.
Recoverable(k, at) ==
  /\ Abandoned(k, at)
  /\ k \in Registered
  /\ outbox[k].state \in {"PENDING", "DISPATCHED"}
  /\ outbox[k].run \in {NONE, k}
  /\ result[k].state \notin Final
  /\ result[k].state = "RUNNING" => k \in RetrySafe

FaultyResumedSameGeneration(r, t) ==
  IF r.state = "RUNNING"
  THEN [r EXCEPT !.token = t, !.owner = NONE, !.attempt = 0]
  ELSE IF r.state = "RESULT_READY" THEN [r EXCEPT !.token = t, !.owner = NONE]
  ELSE r

FaultyResumedForgetsStaged(r, t) ==
  IF r.state = "RUNNING"
  THEN [r EXCEPT !.token = t, !.generation = @ + 1, !.owner = NONE, !.attempt = 0]
  ELSE r

FaultyResumedReruns(r, t) ==
  IF r.state \in {"RUNNING", "RESULT_READY"}
  THEN [r EXCEPT !.state = "RUNNING", !.token = t, !.generation = @ + 1,
                 !.owner = NONE, !.attempt = 0]
  ELSE r

\* What recovery does to a result: a running one gets a new generation, a staged
\* one keeps its attempt.
Resumed(r, t) ==
  IF r.state = "RUNNING"
  THEN [r EXCEPT !.token = t, !.generation = @ + 1, !.owner = NONE, !.attempt = 0]
  ELSE IF r.state = "RESULT_READY" THEN [r EXCEPT !.token = t, !.owner = NONE]
  ELSE r

FaultyResumedLane(l, d) == [lane[l] EXCEPT !.state = "CLAIMED", !.current = d]

\* The lane of a resumed claim gets a new fence.
ResumedLane(l, d) ==
  [lane[l] EXCEPT !.fence = NextToken(l), !.state = "CLAIMED", !.current = d]

\* _recover_local_claims: one transaction over every live claim.  A row whose
\* fences disagree is a Conflict that undoes the transaction.
RecoverLocalClaims(p) ==
  LET at      == worker[p].clock
      resumed == {k \in Keys : Recoverable(k, at)}
      Token(k) == NextToken(claim[k].lane)
  IN
  /\ worker[p].pc = "recover"
  /\ IF \E k \in Keys : Live(k) /\ ~Identified(k)
     THEN /\ Die(p)
          /\ UNCHANGED <<storeVars, result, attempts>>
     ELSE /\ Go(p, "sweep")
          /\ lane' = [l \in Lanes |->
               IF Active(l) \cap resumed # {}
               THEN ResumedLane(l, claim[CHOOSE k \in Active(l) : TRUE].delegation)
               ELSE lane[l]]
          /\ claim' = [k \in Keys |->
               IF k \in resumed
               THEN [claim[k] EXCEPT !.token = Token(k), !.expires = at + LeaseSeconds,
                                     !.heartbeat = at, !.status = "RECOVERED"]
               ELSE claim[k]]
          /\ outbox' = [k \in Keys |->
               IF k \in resumed THEN [outbox[k] EXCEPT !.token = Token(k)] ELSE outbox[k]]
          /\ result' = [k \in Keys |->
               IF k \in resumed THEN Resumed(result[k], Token(k)) ELSE result[k]]
          /\ attempts' = [k \in Keys |->
               IF k \in resumed /\ result[k].state = "RUNNING"
               THEN Moved(attempts[k], result[k].attempt, "RUNNING", "FENCED")
               ELSE attempts[k]]
          /\ UNCHANGED <<delegation, circuits, failures, verdicts>>
  /\ UNCHANGED now

\* store.recover: the claims that are not resumed become STALE.
Sweep(p) ==
  LET at    == worker[p].clock
      stale == {k \in Keys : Abandoned(k, at) \/ Overdue(k, at)}
  IN
  /\ worker[p].pc = "sweep"
  /\ \/ /\ stale # {}
        /\ Recover(at)
        /\ worker' = [worker EXCEPT ![p].pc = "mark_lost", ![p].stale = stale]
     \/ /\ stale = {}
        /\ Go(p, "poll")
        /\ UNCHANGED <<storeVars, now>>
  /\ UNCHANGED <<result, attempts>>

\* What becomes of a result whose claim was lost before it was committed.
Lost(r) ==
  IF r.state \in {"RUNNING", "RESULT_READY"}
  THEN [r EXCEPT !.state = "AUTHORITY_LOST", !.terminal = "STALE", !.owner = NONE]
  ELSE r

\* The second transaction of recover, on the leases the first one made STALE.
MarkLost(p) ==
  LET lost == {k \in worker[p].stale : result[k].state \in {"RUNNING", "RESULT_READY"}} IN
  /\ worker[p].pc = "mark_lost"
  /\ result' = [k \in Keys |-> IF k \in worker[p].stale THEN Lost(result[k]) ELSE result[k]]
  /\ attempts' = [k \in Keys |->
       IF k \in lost THEN Moved(attempts[k], result[k].attempt, "RUNNING", "FENCED")
       ELSE attempts[k]]
  /\ worker' = [worker EXCEPT ![p].pc = "poll", ![p].stale = {}]
  /\ UNCHANGED <<storeVars, now>>

-----------------------------------------------------------------------------
(* Taking a dispatch *)

\* _live_dispatch_ids
LiveDispatches == {k \in Keys : Live(k) /\ outbox[k].state \in {"PENDING", "DISPATCHED"}}

\* The head of the list, ordered by the time of the claim.
Oldest == {k \in LiveDispatches : \A j \in LiveDispatches : claim[k].claimed <= claim[j].claimed}

Poll(p) ==
  /\ worker[p].pc = "poll"
  /\ IF LiveDispatches = {} THEN Go(p, "tick")
     ELSE \E k \in Oldest :
            worker' = [worker EXCEPT ![p].pc = "open", ![p].dispatch = k]
  /\ UNCHANGED <<storeVars, now, result, attempts>>

\* scheduler.tick claims at most one delegation, or none.
ScheduleClaim(p) ==
  /\ worker[p].pc = "tick"
  /\ \/ \E l \in Lanes, d \in Delegations, h \in Heads, k \in Keys :
          /\ ClaimReady(l, d, h, k, LeaseSeconds, worker[p].clock)
          /\ worker' = [worker EXCEPT ![p].pc = "open", ![p].dispatch = k]
     \/ /\ Rest(p)
        /\ UNCHANGED <<storeVars, now>>
  /\ UNCHANGED <<result, attempts>>

\* consume_dispatch reads the dispatch bundle and the result row: committed work
\* is done, staged work is committed, other work is executed if it still may be.
Open(p) ==
  LET k    == worker[p].dispatch
      W(pc) == worker' = [worker EXCEPT ![p].pc = pc, ![p].token = outbox[k].token]
  IN
  /\ worker[p].pc = "open"
  /\ IF result[k].state \in Final THEN Rest(p)
     ELSE IF result[k].state = "RESULT_READY" THEN W("commit")
     ELSE IF claim[k].released \/ outbox[k].state \notin {"PENDING", "DISPATCHED"} THEN Die(p)
     ELSE W("acquire")
  /\ UNCHANGED <<storeVars, now, result, attempts>>

\* ExecutionBusy: the result is there already, or another process owns it.
Busy(p, r) == r.state \in Final \cup {"RESULT_READY"} \/ r.owner \notin {NONE, p}

\* _acquire_execution: a new dispatch starts at generation 1, a recovered one
\* goes on at the generation recovery gave it, each with a new attempt.
Acquire(p) ==
  LET k     == worker[p].dispatch
      r     == result[k]
      fresh == IF r.state = "ABSENT"
               THEN [NoResult EXCEPT !.state = "RUNNING", !.generation = 1,
                                     !.token = worker[p].token]
               ELSE r
      mine  == IF fresh.owner = p /\ fresh.attempt # 0 THEN fresh
               ELSE [fresh EXCEPT !.owner = p, !.attempt = Len(attempts[k]) + 1]
  IN
  /\ worker[p].pc = "acquire"
  /\ IF ~Authorized(p)
     THEN Die(p) /\ UNCHANGED <<result, attempts>>
     ELSE IF Busy(p, r)
     THEN Rest(p) /\ UNCHANGED <<result, attempts>>
     ELSE /\ result' = [result EXCEPT ![k] = mine]
          /\ attempts' = [attempts EXCEPT ![k] =
               IF mine = fresh THEN @
               ELSE Append(@, [generation |-> mine.generation, state |-> "RUNNING"])]
          /\ worker' = [worker EXCEPT ![p].pc = "start", ![p].attempt = mine.attempt,
                                      ![p].generation = mine.generation]
  /\ UNCHANGED <<storeVars, now>>

-----------------------------------------------------------------------------
(* Executing *)

\* The checks of renew_execution_lease.
MayRenew(p) ==
  /\ Authorized(p)
  /\ result[worker[p].dispatch].state \notin Final
  /\ Owns(p)

\* renew_execution_lease extends the lease, unlike store.heartbeat.
RenewedClaim(c, at) ==
  [c EXCEPT !.expires = at + LeaseSeconds, !.heartbeat = at, !.status = "RUNNING"]

\* Renews the lease at the time the process last read, and goes on to pc; a
\* process that lost its authority goes on to record that.
Renewing(p, at, pc) ==
  LET k == worker[p].dispatch IN
  /\ \/ /\ MayRenew(p)
        /\ claim' = [claim EXCEPT ![k] = RenewedClaim(@, at)]
        /\ Go(p, pc)
     \/ /\ ~MayRenew(p)
        /\ Go(p, "lost")
        /\ UNCHANGED claim
  /\ UNCHANGED <<lane, delegation, outbox, circuits, failures, verdicts, now, result, attempts>>

Start(p) == worker[p].pc = "start" /\ Renewing(p, worker[p].clock, "dispatched")

\* store.mark_dispatched(dispatch_id, "local:" + dispatch_id): no fence is checked.
Dispatched(p) ==
  LET k == worker[p].dispatch IN
  /\ worker[p].pc = "dispatched"
  /\ \/ MarkDispatched(k, k) /\ Go(p, "run")
     \/ outbox[k].run = k /\ Go(p, "run") /\ UNCHANGED <<storeVars, now>>
     \/ outbox[k].run = NONE /\ ~Live(k) /\ Go(p, "lost") /\ UNCHANGED <<storeVars, now>>
  /\ UNCHANGED <<result, attempts>>

\* The executor renews the lease while it runs (it reads the clock each time).
RenewInRun(p) ==
  LET k == worker[p].dispatch IN
  /\ worker[p].pc = "run"
  /\ LiveWorker(k, worker[p].token, now)
  /\ result[k].state \notin Final
  /\ Owns(p)
  /\ claim' = [claim EXCEPT ![k] = RenewedClaim(@, now)]
  /\ UNCHANGED <<lane, delegation, outbox, circuits, failures, verdicts, now, result,
                 attempts, worker>>

\* The executor returns or raises, or finds that it may not go on; the clock is
\* read again for the report.
Finish(p) ==
  /\ worker[p].pc = "run"
  /\ \E s \in IF worker[p].dispatch \in Registered THEN {"COMPLETED", "BLOCKED"} ELSE {"BLOCKED"} :
       worker' = [worker EXCEPT ![p].pc = "renew", ![p].clock = now, ![p].outcome = s]
  /\ UNCHANGED <<storeVars, now, result, attempts>>

-----------------------------------------------------------------------------
(* Reporting *)

Renew(p) == worker[p].pc = "renew" /\ Renewing(p, worker[p].clock, "stage")

\* The checks of _stage_owned_result.
MayStage(p) ==
  /\ Authorized(p)
  /\ result[worker[p].dispatch].state = "RUNNING"
  /\ Owns(p)

\* _stage_owned_result: the result is durable before the claim is given up.
Stage(p) ==
  LET k == worker[p].dispatch IN
  /\ worker[p].pc = "stage"
  /\ \/ /\ MayStage(p)
        /\ result' = [result EXCEPT ![k].state = "RESULT_READY",
                                    ![k].terminal = worker[p].outcome]
        /\ attempts' = [attempts EXCEPT ![k] =
             Moved(@, worker[p].attempt, "RUNNING", "RESULT_READY")]
        /\ Go(p, "commit")
     \/ /\ ~MayStage(p)
        /\ Go(p, "lost")
        /\ UNCHANGED <<result, attempts>>
  /\ UNCHANGED <<storeVars, now>>

\* Staged work that needs an independent evaluation: terminal raises Conflict.
\* A process that ran the executor then tries to record the failure as BLOCKED.
RefusedCompletion(p) ==
  LET k == worker[p].dispatch IN
  /\ Authorized(p)
  /\ result[k].terminal = "COMPLETED"
  /\ delegation[claim[k].delegation].judged
  /\ IF worker[p].outcome = "COMPLETED"
     THEN worker' = [worker EXCEPT ![p].pc = "renew", ![p].clock = now, ![p].outcome = "BLOCKED"]
     ELSE Die(p)
  /\ UNCHANGED <<storeVars, now>>

FaultyReplayed(k, t, s) == claim[k].released

\* store.terminal answers an exact replay as it answered the call.
Replayed(k, t, s) == claim[k].released /\ claim[k].token = t /\ claim[k].status = s

\* The first half of _commit_staged_result: the row is read, and store.terminal is
\* called with what was staged.  A replay of the same terminal result is accepted.
Commit(p) ==
  LET k == worker[p].dispatch
      r == result[k]
      replayed == Replayed(k, worker[p].token, r.terminal)
      accepted == /\ r.state = "RESULT_READY"
                  /\ r.token = worker[p].token
                  /\ \/ replayed
                     \/ MayTerminalize(k, worker[p].token, r.terminal, worker[p].clock)
      refused  == r.state = "RESULT_READY" /\ r.token = worker[p].token /\ Authorized(p)
  IN
  /\ worker[p].pc = "commit"
  /\ \/ r.state \in Final /\ Rest(p) /\ UNCHANGED <<storeVars, now>>
     \/ /\ accepted
        /\ \/ replayed /\ UNCHANGED <<storeVars, now>>
           \/ Terminal(k, worker[p].token, r.terminal, worker[p].clock)
        /\ worker' = [worker EXCEPT ![p].pc = "finalize", ![p].generation = r.generation,
                                    ![p].attempt = r.attempt]
     \/ refused /\ RefusedCompletion(p)
     \/ /\ r.state \notin Final
        /\ ~accepted
        /\ ~refused
        /\ IF worker[p].outcome = NONE THEN Die(p) ELSE Go(p, "lost")
        /\ UNCHANGED <<storeVars, now>>
  /\ UNCHANGED <<result, attempts>>

\* The second half of _commit_staged_result, in a transaction of its own.
Finalize(p) ==
  LET k     == worker[p].dispatch
      r     == result[k]
      final == IF r.terminal = "COMPLETED" THEN "SUCCEEDED" ELSE "FAILED"
      same  == /\ r.state = "RESULT_READY"
               /\ r.generation = worker[p].generation
               /\ r.attempt = worker[p].attempt
  IN
  /\ worker[p].pc = "finalize"
  /\ IF same
     THEN /\ result' = [result EXCEPT ![k].state = final, ![k].owner = NONE]
          /\ attempts' = [attempts EXCEPT ![k] =
               Moved(@, worker[p].attempt, "RESULT_READY", final)]
     ELSE UNCHANGED <<result, attempts>>
  /\ IF same \/ r.state \in Final THEN Rest(p) ELSE Die(p)
  /\ UNCHANGED <<storeVars, now>>

\* _record_authority_lost, before the exception ends the process.
RecordLost(p) ==
  LET k == worker[p].dispatch IN
  /\ worker[p].pc = "lost"
  /\ IF Owns(p) /\ result[k].state = "RUNNING"
     THEN /\ result' = [result EXCEPT ![k] = Lost(@)]
          /\ attempts' = [attempts EXCEPT ![k] =
               Moved(@, worker[p].attempt, "RUNNING", "FENCED")]
     ELSE UNCHANGED <<result, attempts>>
  /\ Die(p)
  /\ UNCHANGED <<storeVars, now>>

\* A process is killed, between any two transactions.
Crash(p) ==
  /\ p \in Mortal
  /\ now <= LastCrash
  /\ worker[p].pc \notin {"idle", "dead"}
  /\ Die(p)
  /\ UNCHANGED <<storeVars, now, result, attempts>>

\* A new process is started.  It makes itself a new worker_id; here it takes the
\* name of an ended process that no row mentions as an owner any more.
StartProcess(p) ==
  /\ worker[p].pc = "dead"
  /\ \A k \in Keys : result[k].owner # p
  /\ Rest(p)
  /\ UNCHANGED <<storeVars, now, result, attempts>>

-----------------------------------------------------------------------------

\* What a running process does next, renewals within the executor apart.
Step(p) ==
  \/ Begin(p) \/ RecoverLocalClaims(p) \/ Sweep(p) \/ MarkLost(p)
  \/ Poll(p) \/ ScheduleClaim(p) \/ Open(p) \/ Acquire(p)
  \/ Start(p) \/ Dispatched(p) \/ Finish(p)
  \/ Renew(p) \/ Stage(p) \/ Commit(p) \/ Finalize(p) \/ RecordLost(p)

\* Owners move their control heads and bind work, a scheduler that runs on its own
\* claims it, and time passes.
Environment ==
  /\ \/ \E l \in Lanes, h \in Heads : RegisterLane(l, h)
     \/ \E l \in Lanes, d \in Delegations, h \in Heads : BindReady(l, d, h, d \in Independent)
     \/ \E l \in Lanes, d \in Delegations, h \in Heads, k \in Keys :
          ClaimReady(l, d, h, k, LeaseSeconds, now)
     \/ Tick
  /\ UNCHANGED <<result, attempts, worker>>

WorkerNext ==
  \/ \E p \in Workers : Step(p) \/ RenewInRun(p) \/ Crash(p) \/ StartProcess(p)
  \/ Environment

WorkerSpec == WorkerInit /\ [][WorkerNext]_workerVars

\* Processes keep running, ended ones are started again, and time passes.
WorkerFairSpec ==
  /\ WorkerSpec
  /\ \A p \in Workers : WF_workerVars(Step(p)) /\ WF_workerVars(StartProcess(p))
  /\ WF_workerVars(Tick /\ UNCHANGED <<result, attempts, worker>>)

-----------------------------------------------------------------------------
(* Properties *)

\* Recovery is never refused: the fences of a live claim, its dispatch and its
\* result move together.  One row that fell behind would make every process that
\* recovers anything, on any lane, end with a Conflict.
RecoveryAlwaysPossible == \A k \in Keys : Live(k) => Identified(k)

\* What the worker recorded and what the store decided are the same, although they
\* are written in different transactions by processes that may die in between, and
\* by a second process that replays the commit of the first.
ResultMatchesClaim ==
  \A k \in Keys :
    LET r == result[k] IN
    /\ r.state = "SUCCEEDED" => claim[k].status = "COMPLETED"
    /\ r.state = "FAILED" => claim[k].status = "BLOCKED"
    /\ claim[k].status \in {"COMPLETED", "BLOCKED"} =>
         /\ r.state \in {"RESULT_READY", "SUCCEEDED", "FAILED"}
         /\ r.terminal = claim[k].status

\* An executor that may not be repeated is started at most once for a dispatch,
\* however often processes die, wake up late or recover the claim.
EffectAtMostOnce == \A k \in Keys \ RetrySafe : Len(attempts[k]) <= 1

\* Attempts of one dispatch have different generations (the table has a UNIQUE
\* constraint on them), and only the last one may still run: those before it are
\* fenced for good and their evidence is never taken for the result's.
OneRunningAttempt ==
  \A k \in Keys : \A i, j \in DOMAIN attempts[k] :
    i < j => /\ attempts[k][i].generation < attempts[k][j].generation
             /\ attempts[k][i].state = "FENCED"

\* Staged results are never run again or rewritten, and final ones never change.
ResultIsFinal ==
  [][\A k \in Keys :
       /\ result[k].state \in Final => result'[k] = result[k]
       /\ result[k].state = "RESULT_READY" =>
            /\ attempts'[k] # attempts[k] => Len(attempts'[k]) = Len(attempts[k])
            /\ result'[k].state # "RUNNING"
            /\ result'[k].state # "AUTHORITY_LOST" => result'[k].terminal = result[k].terminal
       /\ result'[k].generation >= result[k].generation]_workerVars

\* A process that was overtaken, its dispatch having been given a newer fence, wakes up
\* anywhere in run_once.  What it still does to claims, lanes, results and attempts is
\* refused.  Only mark_dispatched asks for no fence: a process overtaken just before it
\* acknowledges the dispatch as begun, in the name of the newer holder, whose own
\* acknowledgement is then a replay, and leaves the newer fence on it.
OvertakenIsHarmless ==
  [][\A p \in Workers :
       LET k == worker[p].dispatch IN
       /\ worker[p].pc \in {"acquire", "start", "dispatched", "run", "renew", "stage",
                            "commit", "finalize", "lost"}
       /\ worker'[p] # worker[p]
       /\ worker[p].token # claim[k].token
       => /\ UNCHANGED <<lane, delegation, claim, circuits, failures, verdicts, result, attempts>>
          /\ outbox' # outbox =>
               /\ worker[p].pc = "dispatched" /\ Live(k) /\ outbox[k].run = NONE
               /\ outbox' = [outbox EXCEPT ![k] = Acknowledged(@, k)]
               /\ outbox'[k].token = claim[k].token]_workerVars

\* A live claim comes to an end, although processes crash while they hold it, as
\* long as ended processes are started again.
ClaimsServed == \A k \in Keys : Live(k) ~> claim[k].released

\* SECOND-SHIFT-EXECUTION-CONTROL-001: the worker must hand work that needs an
\* independent evaluation over into VALIDATING, so it never stages its completion.
JudgedWorkIsHandedOver ==
  \A k \in Keys : result[k].state = "RESULT_READY" /\ result[k].terminal = "COMPLETED"
                    => ~delegation[claim[k].delegation].judged

\* The header of the worker: overlapping processes cannot execute the same
\* dispatch concurrently.
NoConcurrentExecution ==
  \A p, q \in Workers :
    p # q /\ worker[p].pc = "run" /\ worker[q].pc = "run" =>
      worker[p].dispatch # worker[q].dispatch
=============================================================================
