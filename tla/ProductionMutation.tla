--------------------------- MODULE ProductionMutation ---------------------------
(***************************************************************************)
(* How the control gateway changes a protected branch: a request is        *)
(* admitted against the durable authority, granted for an exact plan,      *)
(* leases on its files are taken in a branch that serves as a register,    *)
(* one commit is made and put on the branch if the branch has not moved,   *)
(* and the leases are released with an event for each file                 *)
(* (.github/scripts/control-gateway-production-writer.js and, under        *)
(* control-gateway/src, github-mutation-admission.js,                      *)
(* github-mutation-authority-adapter.js, governed-execution-admission.js,  *)
(* github-production-mutation.js, github-production-read-consistency.js,   *)
(* github-system-file-lease.js).  What the continuous integration asks of  *)
(* the branch is that of .github/scripts/system-file-lease-enforce.js.     *)
(*                                                                         *)
(* Each run of the script is a process; the branch, the register and the   *)
(* authority are shared with other runs, and between any two requests to   *)
(* GitHub they may change, the run may be killed or an answer be lost.     *)
(* A commit is known by its place: the branch only moves forward, so a     *)
(* predecessor SHA is the number of commits below it.  The register only   *)
(* moves forward too and no two of its states are equal (epochs and        *)
(* revisions grow), so its content stands for its head.                    *)
(***************************************************************************)
EXTENDS Naturals, Sequences, FiniteSets

CONSTANTS
  Jobs,          \* runs that may be under way at once
  Mutations,     \* mutation ids
  Files,         \* governed files
  PathsOf,       \* PathsOf[m]: the files a mutation changes
  Scope,         \* Scope[a]: the files that revision a of the authority allows
  TTL,           \* how long a lease lasts
  MaxAttempts,   \* attempts at moving the register (maxCasAttempts)
  Timely,        \* no lease expires before its mutation is finished
  MaxClock       \* bound on the clock

Revisions == DOMAIN Scope

ASSUME MutationAssumption ==
  /\ Mutations # {}
  /\ PathsOf \in [Mutations -> SUBSET Files]
  /\ TTL \in Nat

VARIABLES
  target,     \* the commits on the branch: by, lease (the epochs in its trailers), at
  authority,  \* the revision at the head of the authority's publication
  requests,   \* requests[m]: the predecessor and the revision it binds, or NoRequest
  leases,     \* the register: leases[f]
  events,     \* the lease events beside it, never changed
  jobs,       \* jobs[p]: a run
  clock

mutationVars == <<target, authority, requests, leases, events, jobs, clock>>
shared == <<target, authority, requests, leases, events, clock>>

NoRequest == [pred |-> 0, auth |-> 0, made |-> FALSE]

NoLease == [state |-> "RELEASED", holder |-> "NONE", epoch |-> 0, pred |-> 0,
            since |-> 0, until |-> 0, result |-> 0]

IdleJob == [pc |-> "IDLE", mutation |-> CHOOSE m \in Mutations : TRUE, replay |-> FALSE,
            now |-> 0, attempt |-> 1, seen |-> << >>, wrote |-> << >>, receipt |-> << >>,
            result |-> 0]

MutationInit ==
  /\ target = << >>
  /\ authority = 0
  /\ requests = [m \in Mutations |-> NoRequest]
  /\ leases = [f \in Files |-> NoLease]
  /\ events = {}
  /\ jobs = [p \in Jobs |-> IdleJob]
  /\ clock = 0

-----------------------------------------------------------------------------
(* The register                                                            *)

\* The lease set of a mutation in a state of the register.
Held(register, m) == [f \in PathsOf[m] |-> register[f]]

HeldFor(r, m) ==
  r.state = "HELD" /\ r.holder = m /\ r.pred = requests[m].pred

Live(r, now) == r.state = "HELD" /\ now < r.until

\* Faulty: a lease that someone else holds does not lock.
FaultyLocked(register, m, now) ==
  \E f \in PathsOf[m] : register[f].holder = m /\ Live(register[f], now)

Locked(register, m, now) ==
  \E f \in PathsOf[m] : Live(register[f], now)

\* Faulty: a lease that ran out is taken over with the time that it had.
FaultyAcquired(register, m, now) ==
  [f \in Files |->
     IF f \in PathsOf[m]
     THEN [state |-> "HELD", holder |-> m, epoch |-> register[f].epoch + 1,
           pred |-> requests[m].pred, since |-> now, result |-> 0,
           until |-> IF register[f].state = "HELD" THEN register[f].until ELSE now + TTL]
     ELSE register[f]]

Acquired(register, m, now) ==
  [f \in Files |->
     IF f \in PathsOf[m]
     THEN [state |-> "HELD", holder |-> m, epoch |-> register[f].epoch + 1,
           pred |-> requests[m].pred, since |-> now, until |-> now + TTL, result |-> 0]
     ELSE register[f]]

\* The records a receipt was given for are still the ones in the register.
Overtaken(register, m, receipt) ==
  \E f \in PathsOf[m] : register[f] # receipt[f]

Released(register, m, result) ==
  [f \in Files |->
     IF f \in PathsOf[m] THEN [register[f] EXCEPT !.state = "RELEASED", !.result = result]
     ELSE register[f]]

ReleaseEvents(m, receipt, result, now) ==
  {[by |-> m, path |-> f, epoch |-> receipt[f].epoch, pred |-> receipt[f].pred,
    result |-> result, since |-> receipt[f].since, until |-> receipt[f].until,
    released |-> now] : f \in PathsOf[m]}

-----------------------------------------------------------------------------
(* A run                                                                   *)

Stands(p, pc) == jobs[p].pc = pc
GoOn(p, pc) == jobs' = [jobs EXCEPT ![p].pc = pc]
GiveUp(p) == jobs' = [jobs EXCEPT ![p] = IdleJob]
Mutation(p) == jobs[p].mutation
Predecessor(p) == requests[Mutation(p)].pred
Unmoved(p) == Len(target) = Predecessor(p)

\* A caller makes a request and a plan for what it sees.
SubmitRequest(m) ==
  /\ ~requests[m].made
  /\ requests' = [requests EXCEPT ![m] =
       [pred |-> Len(target), auth |-> authority, made |-> TRUE]]
  /\ UNCHANGED <<target, authority, leases, events, jobs, clock>>

\* The first run of a request, or another one of the same.
StartJob(p, m) ==
  /\ Stands(p, "IDLE") /\ requests[m].made
  /\ jobs' = [jobs EXCEPT ![p] = [IdleJob EXCEPT !.pc = "OBSERVE", !.mutation = m]]
  /\ UNCHANGED shared

ObserveTarget(p) ==
  /\ Stands(p, "OBSERVE")
  /\ jobs' = [jobs EXCEPT
       ![p].pc = IF Unmoved(p) THEN "ADMIT" ELSE "RECOVER",
       ![p].replay = ~Unmoved(p),
       ![p].result = IF Unmoved(p) THEN 0 ELSE Len(target)]
  /\ UNCHANGED shared

\* The receipt of the leases, rebuilt from the register or from the events.
Recoverable(m, result) ==
  LET set == Held(leases, m)
  IN \/ \A f \in PathsOf[m] : HeldFor(set[f], m)
     \/ \A f \in PathsOf[m] :
          /\ set[f].state = "RELEASED" /\ set[f].holder = m
          /\ set[f].pred = requests[m].pred /\ set[f].result = result
          /\ \E e \in events : e.by = m /\ e.path = f /\ e.epoch = set[f].epoch
                                 /\ e.pred = set[f].pred /\ e.result = result

RecoverApplied(p) ==
  LET m == Mutation(p)
  IN /\ Stands(p, "RECOVER")
     /\ IF Len(target) = jobs[p].result /\ Recoverable(m, jobs[p].result)
        THEN jobs' = [jobs EXCEPT ![p].pc = "ADMIT",
               ![p].receipt = [f \in PathsOf[m] |->
                  [leases[f] EXCEPT !.state = "HELD", !.result = 0]]]
        ELSE GiveUp(p)
     /\ UNCHANGED shared

\* Admission and the grant read the authority three times and the branch three
\* times in turn; both only move forward, so the last reads decide.  A run
\* that recovers is given the expected predecessor for the branch.
AdmitAuthority(p) ==
  /\ Stands(p, "ADMIT")
  /\ IF /\ authority = requests[Mutation(p)].auth
        /\ PathsOf[Mutation(p)] \subseteq Scope[authority]
     THEN GoOn(p, IF jobs[p].replay THEN "EXECUTE" ELSE "ACQUIRE") ELSE GiveUp(p)
  /\ UNCHANGED shared

\* The moment a lease counts from is that of the call, whatever the attempts take.
AcquireBegin(p) ==
  /\ Stands(p, "ACQUIRE")
  /\ IF Unmoved(p)
     THEN jobs' = [jobs EXCEPT ![p].pc = "ACQUIRE_READ", ![p].now = clock]
     ELSE GiveUp(p)
  /\ UNCHANGED shared

Leased(p, receipt) ==
  [jobs[p] EXCEPT !.pc = "REQUIRE", !.receipt = receipt,
                  !.now = 0, !.attempt = 1, !.seen = << >>, !.wrote = << >>]

AcquireRead(p) ==
  LET m == Mutation(p)
      now == jobs[p].now
      replay == \A f \in PathsOf[m] : HeldFor(leases[f], m) /\ Live(leases[f], now)
      partial == \E f \in PathsOf[m] : leases[f].state = "HELD" /\ leases[f].holder = m
  IN /\ Stands(p, "ACQUIRE_READ")
     /\ CASE replay -> jobs' = [jobs EXCEPT ![p] = Leased(p, Held(leases, m))]
          [] ~replay /\ (partial \/ Locked(leases, m, now)) -> GiveUp(p)
          [] OTHER ->
               jobs' = [jobs EXCEPT ![p].pc = "ACQUIRE_SWAP", ![p].seen = leases,
                                    ![p].wrote = Acquired(leases, m, now)]
     /\ UNCHANGED shared

\* The register takes a commit whose parent is its head.  The answer may be lost
\* whether it was taken or not; the run then looks whether its commit is the head.
Swap(p, done, lost) ==
  LET unanswered == [jobs[p] EXCEPT !.pc = lost, !.seen = << >>]
  IN \/ /\ leases = jobs[p].seen
        /\ leases' = jobs[p].wrote
        /\ \E r \in {done, unanswered} : jobs' = [jobs EXCEPT ![p] = r]
     \/ /\ jobs' = [jobs EXCEPT ![p] = unanswered]
        /\ UNCHANGED leases

SwapLost(p, done, again) ==
  /\ CASE leases = jobs[p].wrote -> jobs' = [jobs EXCEPT ![p] = done]
       [] leases # jobs[p].wrote /\ jobs[p].attempt < MaxAttempts ->
            jobs' = [jobs EXCEPT ![p].pc = again, ![p].attempt = @ + 1, ![p].wrote = << >>]
       [] OTHER -> GiveUp(p)
  /\ UNCHANGED shared

Taken(p) == Leased(p, Held(jobs[p].wrote, Mutation(p)))

AcquireSwap(p) ==
  /\ Stands(p, "ACQUIRE_SWAP")
  /\ Swap(p, Taken(p), "ACQUIRE_SWAP_LOST")
  /\ UNCHANGED <<target, authority, requests, events, clock>>

AcquireLost(p) == Stands(p, "ACQUIRE_SWAP_LOST") /\ SwapLost(p, Taken(p), "ACQUIRE_READ")

\* The only look at the leases before the branch is written.  Its clock is read
\* first: what it finds after held then too, for no state comes back.
RequireAuthority(p) ==
  LET m == Mutation(p)
  IN /\ Stands(p, "REQUIRE")
     /\ IF /\ Unmoved(p) /\ ~Overtaken(leases, m, jobs[p].receipt)
           /\ \A f \in PathsOf[m] : clock < leases[f].until
        THEN GoOn(p, "EXECUTE") ELSE GiveUp(p)
     /\ UNCHANGED shared

Trailers(p) == [f \in PathsOf[Mutation(p)] |-> jobs[p].receipt[f].epoch]

\* The commit at the head is this mutation's, made with these leases.
ReplayMatches(p) ==
  /\ Len(target) = Predecessor(p) + 1
  /\ target[Len(target)].by = Mutation(p)
  /\ target[Len(target)].lease = Trailers(p)

\* createTreeFromPlan, and createCommit, which GitHub dates.
CreateCommit(p) ==
  /\ Stands(p, "EXECUTE")
  /\ CASE ReplayMatches(p) ->
            jobs' = [jobs EXCEPT ![p].pc = "RELEASE", ![p].result = Len(target)]
       [] Unmoved(p) /\ ~jobs[p].replay ->
            jobs' = [jobs EXCEPT ![p].pc = "UPDATE", ![p].now = clock]
       [] OTHER -> GiveUp(p)
  /\ UNCHANGED shared

\* Faulty: the update is forced.
FaultyForward(p) == Len(target) >= Predecessor(p)

\* GitHub moves a branch only to a commit that descends from its head.
IsForward(p) == Unmoved(p)

UpdateTarget(p) ==
  /\ Stands(p, "UPDATE")
  /\ \/ /\ IsForward(p)
        /\ target' = Append(target, [by |-> Mutation(p), lease |-> Trailers(p),
                                     at |-> jobs[p].now])
        /\ GoOn(p, "VERIFY")
     \/ /\ UNCHANGED target
        /\ GoOn(p, "VERIFY") \/ GiveUp(p)
  /\ UNCHANGED <<authority, requests, leases, events, clock>>

\* The branch is read until it shows the commit, or no longer.
VerifyRef(p) ==
  /\ Stands(p, "VERIFY")
  /\ \/ /\ ReplayMatches(p) /\ target[Len(target)].at = jobs[p].now
        /\ jobs' = [jobs EXCEPT ![p].pc = "RELEASE", ![p].result = Len(target), ![p].now = 0]
     \/ GiveUp(p)
  /\ UNCHANGED shared

ReleaseBegin(p) ==
  /\ Stands(p, "RELEASE")
  /\ IF Len(target) = jobs[p].result
     THEN jobs' = [jobs EXCEPT ![p].pc = "RELEASE_READ", ![p].now = clock]
     ELSE GiveUp(p)
  /\ UNCHANGED shared

ReleaseRead(p) ==
  LET m == Mutation(p)
      receipt == jobs[p].receipt
      replay == \A f \in PathsOf[m] :
        leases[f] = [receipt[f] EXCEPT !.state = "RELEASED", !.result = jobs[p].result]
      conflict == \E e \in events : e.by = m
  IN /\ Stands(p, "RELEASE_READ")
     /\ IF replay \/ Overtaken(leases, m, receipt) \/ conflict
        THEN GiveUp(p)
        ELSE jobs' = [jobs EXCEPT ![p].pc = "RELEASE_SWAP", ![p].seen = leases,
                        ![p].wrote = Released(leases, m, jobs[p].result)]
     /\ UNCHANGED shared

\* The records and their events are one commit of the register.
ReleaseSwap(p) ==
  LET m == Mutation(p)
  IN /\ Stands(p, "RELEASE_SWAP")
     /\ Swap(p, IdleJob, "RELEASE_SWAP_LOST")
     /\ events' = IF leases' = leases THEN events
                  ELSE events \union ReleaseEvents(m, jobs[p].receipt, jobs[p].result, jobs[p].now)
     /\ UNCHANGED <<target, authority, requests, clock>>

ReleaseLost(p) == Stands(p, "RELEASE_SWAP_LOST") /\ SwapLost(p, IdleJob, "RELEASE_READ")

\* The job is killed or times out.
CrashJob(p) == ~Stands(p, "IDLE") /\ GiveUp(p) /\ UNCHANGED shared

JobStep(p) ==
  \/ ObserveTarget(p) \/ RecoverApplied(p) \/ AdmitAuthority(p)
  \/ AcquireBegin(p) \/ AcquireRead(p) \/ AcquireSwap(p) \/ AcquireLost(p)
  \/ RequireAuthority(p) \/ CreateCommit(p) \/ UpdateTarget(p) \/ VerifyRef(p)
  \/ ReleaseBegin(p) \/ ReleaseRead(p) \/ ReleaseSwap(p) \/ ReleaseLost(p)

\* What the audit of the branch asks of an event and the commit it is of: the
\* commit was made while the lease was live, and it was released after it.
LeaseEventProof(e, c) ==
  /\ e.by = c.by /\ e.epoch = c.lease[e.path]
  /\ e.since <= c.at /\ c.at < e.until /\ c.at <= e.released

-----------------------------------------------------------------------------
(* Around the runs                                                         *)

PublishAuthority ==
  /\ authority + 1 \in Revisions
  /\ authority' = authority + 1
  /\ UNCHANGED <<target, requests, leases, events, jobs, clock>>

\* The commit of a lease that is still held in the register.
Unfinished(f) ==
  \/ \E p \in Jobs : ~Stands(p, "IDLE") /\ Mutation(p) = leases[f].holder
  \/ \E i \in 1..Len(target) :
       target[i].by = leases[f].holder /\ target[i].lease[f] = leases[f].epoch

Tick ==
  /\ clock < MaxClock
  /\ Timely => \A f \in Files :
       leases[f].state = "HELD" /\ Unfinished(f) => clock + 1 < leases[f].until
  /\ clock' = clock + 1
  /\ UNCHANGED <<target, authority, requests, leases, events, jobs>>

MutationNext ==
  \/ \E m \in Mutations : SubmitRequest(m)
  \/ \E p \in Jobs : JobStep(p) \/ CrashJob(p) \/ (\E m \in Mutations : StartJob(p, m))
  \/ PublishAuthority
  \/ Tick

MutationSpec == MutationInit /\ [][MutationNext]_mutationVars

-----------------------------------------------------------------------------
(* Properties                                                              *)

Landed == 1..Len(target)

\* However often a mutation is run, at once or again after a crash or a lost
\* answer, it is on the branch once, on the predecessor its request names.
AppliedAtMostOnce ==
  \A i \in Landed :
    /\ i = requests[target[i].by].pred + 1
    /\ \A j \in Landed : target[j].by = target[i].by => j = i

\* A lease event tells the truth of the commit it names: the mutation that made
\* it, its predecessor and the epoch of its trailer.
EventsAreTrue ==
  \A e \in events :
    /\ e.result \in Landed /\ e.pred = e.result - 1
    /\ target[e.result].by = e.by /\ target[e.result].lease[e.path] = e.epoch

\* A mutation's leases come and go together: one that is live on a file has a
\* live lease on each of its files.
LiveLeasesAreWhole ==
  \A m \in Mutations :
    (\E f \in Files : leases[f].holder = m /\ Live(leases[f], clock)) =>
      \A f \in PathsOf[m] : leases[f].holder = m /\ Live(leases[f], clock)

\* Whatever stops, is lost, runs out or is run again: a mutation is on the branch
\* once, its events are true and its leases are whole.
MutationsAreSingle == AppliedAtMostOnce /\ EventsAreTrue /\ LiveLeasesAreWhole

\* While a file is under a live lease no other mutation's commit on it lands.
LandsUnlocked ==
  \A f \in Files :
    /\ Len(target') > Len(target) /\ Live(leases[f], clock)
    /\ f \in PathsOf[target'[Len(target')].by]
    => leases[f].holder = target'[Len(target')].by

\* An event that is in the register satisfies the audit of the branch, also when
\* it was made by a later run than the one that landed the commit.
EventsPassTheAudit == \A e \in events : LeaseEventProof(e, target[e.result])

\* Every trailer on the branch has its event, or a lease that is still held and
\* from which a further run makes it.
EveryTrailerHasItsEvent ==
  \A i \in Landed : \A f \in PathsOf[target[i].by] :
    \/ \E e \in events : e.by = target[i].by /\ e.path = f /\ e.result = i
    \/ leases[f].state = "HELD" /\ leases[f].holder = target[i].by
         /\ leases[f].epoch = target[i].lease[f]

\* Mutations that end while their leases last: each trailer has, or can still get, an
\* event that the audit accepts, and nothing lands on a file under another's lease.
LeasesAreSettled ==
  /\ [](EveryTrailerHasItsEvent /\ EventsPassTheAudit)
  /\ [][LandsUnlocked]_mutationVars
=============================================================================
