------------------------ MODULE ProductionMutationProofs ------------------------
(***************************************************************************)
(* Proofs about ProductionMutation, for any jobs, mutations and files.     *)
(* What a job carries from one request to the next was true when it was    *)
(* read: the register only accepts a write that was made from its present  *)
(* state, the branch only one commit on the predecessor of a request, and  *)
(* nothing that a job needs later is changed by another one in between.    *)
(***************************************************************************)
EXTENDS ProductionMutation, SequenceTheorems, TLAPS

Lease ==
  [state : {"HELD", "RELEASED"}, holder : Mutations \union {"NONE"}, epoch : Nat, pred : Nat,
   since : Nat, until : Nat, result : Nat]

Register == [Files -> Lease]

Receipts == UNION {[PathsOf[m] -> Lease] : m \in Mutations}

CommitOf(m) == [by : {m}, lease : [PathsOf[m] -> Nat], at : Nat]

Commit == UNION {CommitOf(m) : m \in Mutations}

Event ==
  [by : Mutations, path : Files, epoch : Nat, pred : Nat, result : Nat, since : Nat,
   until : Nat, released : Nat]

\* Where a job holds a receipt, and where its commit is on the branch.
Committed == {"RELEASE", "RELEASE_READ", "RELEASE_SWAP", "RELEASE_SWAP_LOST"}
Receipted == {"REQUIRE", "EXECUTE", "UPDATE", "VERIFY"} \union Committed
Places ==
  {"IDLE", "OBSERVE", "RECOVER", "ADMIT", "ACQUIRE", "ACQUIRE_READ", "ACQUIRE_SWAP",
   "ACQUIRE_SWAP_LOST"} \union Receipted

Job ==
  [pc : Places, mutation : Mutations, replay : BOOLEAN, now : Nat, attempt : Nat,
   seen : Register \union {<< >>}, wrote : Register \union {<< >>},
   receipt : Receipts \union {<< >>}, result : Nat]

MutationTypeOK ==
  /\ target \in Seq(Commit)
  /\ authority \in Nat
  /\ requests \in [Mutations -> [pred : Nat, auth : Nat, made : BOOLEAN]]
  /\ leases \in Register
  /\ events \subseteq Event
  /\ jobs \in [Jobs -> Job]
  /\ clock \in Nat

-----------------------------------------------------------------------------
(* What a job relies on                                                    *)

\* The lease l is the one that mutation m took for its request.
Own(l, m) == l.state = "HELD" /\ l.holder = m /\ l.pred = requests[m].pred

HoldsReceipt(p) ==
  LET j == jobs[p]
      m == j.mutation
  IN j.pc \in Receipted \/ (j.pc = "ADMIT" /\ j.replay) =>
       /\ j.receipt \in [PathsOf[m] -> Lease]
       /\ \A f \in PathsOf[m] : Own(j.receipt[f], m)

\* The register that mutation m may write over has none of its files locked or its own.
Open(register, m, now) ==
  \A f \in PathsOf[m] :
    ~Live(register[f], now) /\ ~(register[f].state = "HELD" /\ register[f].holder = m)

MayAcquire(p) ==
  LET j == jobs[p]
      m == j.mutation
  IN /\ j.pc \in {"ACQUIRE_READ", "ACQUIRE_SWAP", "ACQUIRE_SWAP_LOST"} => j.now <= clock
     /\ j.pc = "ACQUIRE_SWAP" =>
          /\ j.seen \in Register
          /\ j.wrote = Acquired(j.seen, m, j.now) /\ Open(j.seen, m, j.now)
     /\ j.pc = "ACQUIRE_SWAP_LOST" =>
          j.wrote \in Register /\ \A f \in PathsOf[m] : Own(j.wrote[f], m)

\* In time, the leases of a commit that may still land are there and last.
MayLand(p) ==
  LET j == jobs[p]
      m == j.mutation
  IN /\ j.pc = "UPDATE" => j.now <= clock
     /\ /\ Timely /\ Len(target) = requests[m].pred
        /\ j.pc = "UPDATE" \/ (j.pc = "EXECUTE" /\ ~j.replay)
        => \A f \in PathsOf[m] :
             /\ leases[f] = j.receipt[f] /\ clock < leases[f].until
             /\ j.pc = "UPDATE" => leases[f].since <= j.now

HasLanded(p) ==
  LET j == jobs[p]
      m == j.mutation
  IN j.pc \in Committed =>
       /\ j.result \in Landed /\ j.result = requests[m].pred + 1
       /\ target[j.result].by = m
       /\ \A f \in PathsOf[m] : target[j.result].lease[f] = j.receipt[f].epoch
       /\ j.pc # "RELEASE" => target[j.result].at <= j.now

MayRelease(p) ==
  LET j == jobs[p]
      m == j.mutation
  IN j.pc = "RELEASE_SWAP" =>
       /\ j.seen \in Register
       /\ j.wrote = Released(j.seen, m, j.result)
       /\ \A f \in PathsOf[m] : j.seen[f] = j.receipt[f]

Sound(p) ==
  /\ jobs[p].pc # "IDLE" => requests[jobs[p].mutation].made
  /\ HoldsReceipt(p) /\ MayAcquire(p) /\ MayLand(p) /\ HasLanded(p) /\ MayRelease(p)

-----------------------------------------------------------------------------
(* What holds of the branch and the register                               *)

RequestsAreBehind == \A m \in Mutations : requests[m].made => requests[m].pred <= Len(target)

CommitsAreAsked ==
  \A i \in Landed :
    /\ requests[target[i].by].made /\ i = requests[target[i].by].pred + 1
    /\ target[i].at <= clock

\* A live lease comes with those of the other files of its mutation, for the same time.
LeasesAreWhole ==
  \A m \in Mutations, f \in Files : leases[f].holder = m /\ Live(leases[f], clock) =>
    /\ f \in PathsOf[m]
    /\ \A g \in PathsOf[m] : leases[g].state = "HELD" /\ leases[g].holder = m
                              /\ leases[g].until = leases[f].until

LeasesHaveBegun == \A f \in Files : leases[f].since <= clock

\* Epochs only grow, so a trailer names one lease: the commit lies within it, and in time
\* it lasts until it is released.
TrailersNameLeases ==
  Timely => \A i \in Landed : \A f \in PathsOf[target[i].by] :
    /\ target[i].lease[f] <= leases[f].epoch
    /\ target[i].lease[f] = leases[f].epoch =>
         /\ leases[f].since <= target[i].at /\ target[i].at < leases[f].until
         /\ leases[f].holder = target[i].by
         /\ leases[f].state = "HELD" => clock < leases[f].until

EventsAreInTime == Timely => EventsPassTheAudit /\ EveryTrailerHasItsEvent

JobsAreSound == \A p \in Jobs : Sound(p)

MutationInv ==
  /\ MutationTypeOK /\ JobsAreSound
  /\ RequestsAreBehind /\ CommitsAreAsked /\ EventsAreTrue
  /\ LeasesAreWhole /\ LeasesHaveBegun /\ TrailersNameLeases /\ EventsAreInTime

-----------------------------------------------------------------------------
(* Steps that change what one job carries, and nothing else                *)

\* Job p goes on with the record r.
Carries(p, r) == jobs' = [jobs EXCEPT ![p] = r]

LEMMA CarriedJobs ==
  ASSUME MutationTypeOK, NEW p \in Jobs, NEW r \in Job, Carries(p, r)
  PROVE  /\ jobs' \in [Jobs -> Job] /\ jobs'[p] = r
         /\ \A q \in Jobs \ {p} : jobs'[q] = jobs[q]
  BY DEF MutationTypeOK, Carries

\* What an undisturbed job relies on stays, when what is shared stays.
LEMMA UndisturbedStaysSound ==
  ASSUME NEW q \in Jobs, Sound(q), jobs'[q] = jobs[q], UNCHANGED shared
  PROVE  Sound(q)'
<1> USE DEF shared
<1>1. HoldsReceipt(q)'
  BY DEF Sound, HoldsReceipt, Own
<1>2. MayAcquire(q)'
  BY DEF Sound, MayAcquire, Own, Acquired, Open, Live
<1>3. MayLand(q)'
  BY DEF Sound, MayLand
<1>4. HasLanded(q)'
  BY DEF Sound, HasLanded, Landed
<1>5. MayRelease(q)'
  BY DEF Sound, MayRelease, Released
<1> QED
  BY <1>1, <1>2, <1>3, <1>4, <1>5 DEF Sound

LEMMA QuietStep ==
  ASSUME MutationInv, NEW p \in Jobs, NEW r \in Job, Carries(p, r), Sound(p)', UNCHANGED shared
  PROVE  MutationInv'
<1>1. MutationTypeOK'
  BY CarriedJobs DEF MutationInv, MutationTypeOK, shared
<1>2. JobsAreSound'
  BY CarriedJobs, UndisturbedStaysSound DEF MutationInv, JobsAreSound
<1>3. (RequestsAreBehind /\ CommitsAreAsked /\ EventsAreTrue /\ LeasesAreWhole /\ LeasesHaveBegun)'
  BY DEF MutationInv, shared, RequestsAreBehind, CommitsAreAsked, EventsAreTrue,
         LeasesAreWhole, LeasesHaveBegun, Landed, Live
<1>4. (TrailersNameLeases /\ EventsAreInTime)'
  BY DEF MutationInv, shared, TrailersNameLeases, EventsAreInTime, EventsPassTheAudit,
         EveryTrailerHasItsEvent, LeaseEventProof, Landed
<1> QED
  BY <1>1, <1>2, <1>3, <1>4 DEF MutationInv

LEMMA IdleJobType == IdleJob \in Job /\ IdleJob.pc = "IDLE"
<1>1. (CHOOSE m \in Mutations : TRUE) \in Mutations
  BY MutationAssumption
<1> QED
  BY <1>1 DEF IdleJob, Job, Places

\* A job that is idle relies on nothing.
LEMMA IdleIsSound ==
  ASSUME NEW p \in Jobs, jobs'[p].pc = "IDLE"
  PROVE  Sound(p)'
  BY DEF Sound, HoldsReceipt, MayAcquire, MayLand, HasLanded, MayRelease, Receipted, Committed

LEMMA GivingUp ==
  ASSUME MutationInv, NEW p \in Jobs, GiveUp(p), UNCHANGED shared
  PROVE  MutationInv'
<1>1. Carries(p, IdleJob)
  BY DEF GiveUp, Carries
<1>2. jobs'[p] = IdleJob
  BY <1>1, IdleJobType, CarriedJobs DEF MutationInv
<1> QED
  BY <1>1, <1>2, IdleJobType, IdleIsSound, QuietStep

\* Nor does one that has only been started, besides that its request was made.
LEMMA StartingIsSound ==
  ASSUME NEW p \in Jobs, requests'[jobs'[p].mutation].made,
         \/ jobs'[p].pc \in {"OBSERVE", "RECOVER", "ACQUIRE"}
         \/ jobs'[p].pc = "ADMIT" /\ ~jobs'[p].replay
  PROVE  Sound(p)'
  BY DEF Sound, HoldsReceipt, MayAcquire, MayLand, HasLanded, MayRelease, Receipted, Committed

LEMMA StartJobKeeps ==
  ASSUME MutationInv, NEW p \in Jobs, NEW m \in Mutations, StartJob(p, m)
  PROVE  MutationInv'
<1> DEFINE r == [IdleJob EXCEPT !.pc = "OBSERVE", !.mutation = m]
<1>1. r \in Job /\ r.pc = "OBSERVE" /\ r.mutation = m
  BY IdleJobType DEF Job, Places
<1>2. Carries(p, r) /\ UNCHANGED shared /\ requests[m].made
  BY DEF StartJob, Carries
<1> HIDE DEF r
<1>3. jobs'[p] = r
  BY <1>1, <1>2, CarriedJobs DEF MutationInv
<1> QED
  BY <1>1, <1>2, <1>3, StartingIsSound, QuietStep DEF shared

LEMMA ObserveTargetKeeps ==
  ASSUME MutationInv, NEW p \in Jobs, ObserveTarget(p)
  PROVE  MutationInv'
<1> DEFINE r == [jobs[p] EXCEPT !.pc = IF Unmoved(p) THEN "ADMIT" ELSE "RECOVER",
                                !.replay = ~Unmoved(p),
                                !.result = IF Unmoved(p) THEN 0 ELSE Len(target)]
<1>0. jobs \in [Jobs -> Job] /\ jobs[p] \in Job /\ Len(target) \in Nat
  BY DEF MutationInv, MutationTypeOK
<1>1. Carries(p, r) /\ UNCHANGED shared
  BY <1>0 DEF ObserveTarget, Carries
<1>2. /\ r \in Job /\ r.mutation = jobs[p].mutation
      /\ r.pc = "RECOVER" \/ (r.pc = "ADMIT" /\ ~r.replay)
  <2> HIDE DEF Unmoved
  <2> QED
    BY <1>0 DEF Job, Places
<1>3. requests[jobs[p].mutation].made
  BY DEF ObserveTarget, Stands, MutationInv, JobsAreSound, Sound
<1> HIDE DEF r
<1>4. jobs'[p] = r
  BY <1>1, <1>2, CarriedJobs DEF MutationInv
<1> QED
  BY <1>1, <1>2, <1>3, <1>4, StartingIsSound, QuietStep DEF shared

\* A lease that is taken up again is a lease, of the same holder and predecessor.
LEMMA HeldAgain ==
  ASSUME NEW l \in Lease
  PROVE  LET again == [l EXCEPT !.state = "HELD", !.result = 0]
         IN  /\ again \in Lease /\ again.state = "HELD"
             /\ again.holder = l.holder /\ again.pred = l.pred
  BY DEF Lease

LEMMA RecoverAppliedKeeps ==
  ASSUME MutationInv, NEW p \in Jobs, RecoverApplied(p)
  PROVE  MutationInv'
<1> DEFINE m == jobs[p].mutation
           c == [f \in PathsOf[m] |-> [leases[f] EXCEPT !.state = "HELD", !.result = 0]]
           r == [jobs[p] EXCEPT !.pc = "ADMIT", !.receipt = c]
<1>0. jobs \in [Jobs -> Job] /\ jobs[p] \in Job /\ m \in Mutations /\ PathsOf[m] \subseteq Files
      /\ leases \in Register
  BY MutationAssumption DEF MutationInv, MutationTypeOK, Job
<1>1. CASE GiveUp(p)
  BY <1>1, GivingUp DEF RecoverApplied
<1>2. CASE ~GiveUp(p)
  <2>1. Carries(p, r) /\ UNCHANGED shared /\ Recoverable(m, jobs[p].result)
    BY <1>0, <1>2 DEF RecoverApplied, Carries, Mutation
  <2>2. \A f \in PathsOf[m] : leases[f].holder = m /\ leases[f].pred = requests[m].pred
    BY <2>1 DEF Recoverable, Held, HeldFor
  <2>3. c \in [PathsOf[m] -> Lease] /\ \A f \in PathsOf[m] : Own(c[f], m)
    <3> SUFFICES ASSUME NEW f \in PathsOf[m]
                 PROVE  c[f] \in Lease /\ Own(c[f], m)
      OBVIOUS
    <3>1. c[f] = [leases[f] EXCEPT !.state = "HELD", !.result = 0]
      OBVIOUS
    <3>2. leases[f] \in Lease
      BY <1>0 DEF Register
    <3> HIDE DEF c
    <3>3. /\ c[f] \in Lease /\ c[f].state = "HELD"
          /\ c[f].holder = leases[f].holder /\ c[f].pred = leases[f].pred
      BY ONLY <3>1, <3>2, HeldAgain
    <3> QED
      BY ONLY <2>2, <3>3, f \in PathsOf[m] DEF Own
  <2> HIDE DEF c
  <2>4. r \in Job /\ r.pc = "ADMIT" /\ r.mutation = m /\ r.receipt = c
    BY <1>0, <2>3 DEF Job, Places, Receipts
  <2> HIDE DEF r
  <2>5. jobs'[p] = r
    BY <2>1, <2>4, CarriedJobs DEF MutationInv
  <2>6. requests[m].made
    BY DEF RecoverApplied, Stands, MutationInv, JobsAreSound, Sound
  <2>7. Sound(p)'
    BY <2>1, <2>3, <2>4, <2>5, <2>6
       DEF shared, Sound, HoldsReceipt, MayAcquire, MayLand, HasLanded, MayRelease, Receipted,
           Committed, Own
  <2> QED
    BY <2>1, <2>4, <2>7, QuietStep
<1> QED
  BY <1>1, <1>2

LEMMA AdmitAuthorityKeeps ==
  ASSUME MutationInv, NEW p \in Jobs, AdmitAuthority(p)
  PROVE  MutationInv'
<1> DEFINE r == [jobs[p] EXCEPT !.pc = IF jobs[p].replay THEN "EXECUTE" ELSE "ACQUIRE"]
<1>0. jobs \in [Jobs -> Job] /\ jobs[p] \in Job
  BY DEF MutationInv, MutationTypeOK
<1>1. CASE GiveUp(p)
  BY <1>1, GivingUp DEF AdmitAuthority
<1>2. CASE ~GiveUp(p)
  <2>1. Carries(p, r) /\ UNCHANGED shared /\ jobs[p].pc = "ADMIT"
    BY <1>0, <1>2 DEF AdmitAuthority, Carries, GoOn, Stands
  <2>2. /\ r \in Job /\ r.mutation = jobs[p].mutation
        /\ r.replay = jobs[p].replay /\ r.receipt = jobs[p].receipt
        /\ r.pc = IF jobs[p].replay THEN "EXECUTE" ELSE "ACQUIRE"
    BY <1>0 DEF Job, Places, Receipted
  <2> HIDE DEF r
  <2>3. jobs'[p] = r
    BY <2>1, <2>2, CarriedJobs DEF MutationInv
  <2>4. Sound(p)
    BY DEF MutationInv, JobsAreSound
  <2>5. Sound(p)'
    BY <2>1, <2>2, <2>3, <2>4
       DEF shared, Sound, HoldsReceipt, MayAcquire, MayLand, HasLanded, MayRelease, Receipted,
           Committed, Own
  <2> QED
    BY <2>1, <2>2, <2>5, QuietStep
<1> QED
  BY <1>1, <1>2

LEMMA AcquireBeginKeeps ==
  ASSUME MutationInv, NEW p \in Jobs, AcquireBegin(p)
  PROVE  MutationInv'
<1> DEFINE r == [jobs[p] EXCEPT !.pc = "ACQUIRE_READ", !.now = clock]
<1>0. jobs \in [Jobs -> Job] /\ jobs[p] \in Job /\ clock \in Nat
  BY DEF MutationInv, MutationTypeOK
<1>1. CASE GiveUp(p)
  BY <1>1, GivingUp DEF AcquireBegin
<1>2. CASE ~GiveUp(p)
  <2>1. Carries(p, r) /\ UNCHANGED shared /\ jobs[p].pc = "ACQUIRE"
    BY <1>0, <1>2 DEF AcquireBegin, Carries, Stands
  <2>2. r \in Job /\ r.mutation = jobs[p].mutation /\ r.pc = "ACQUIRE_READ" /\ r.now = clock
    BY <1>0 DEF Job, Places
  <2> HIDE DEF r
  <2>3. jobs'[p] = r
    BY <2>1, <2>2, CarriedJobs DEF MutationInv
  <2>4. Sound(p)
    BY DEF MutationInv, JobsAreSound
  <2>5. Sound(p)'
    BY <1>0, <2>1, <2>2, <2>3, <2>4
       DEF shared, Sound, HoldsReceipt, MayAcquire, MayLand, HasLanded, MayRelease, Receipted,
           Committed
  <2> QED
    BY <2>1, <2>2, <2>5, QuietStep
<1> QED
  BY <1>1, <1>2

-----------------------------------------------------------------------------
(* Acquiring and releasing leases *)

LEMMA AcquiredIsRegister ==
  ASSUME NEW register \in Register, NEW m \in Mutations, NEW now \in Nat, MutationTypeOK
  PROVE  /\ Acquired(register, m, now) \in Register
         /\ \A f \in PathsOf[m] : Own(Acquired(register, m, now)[f], m)
<1>1. requests[m].pred \in Nat /\ TTL \in Nat /\ PathsOf[m] \subseteq Files
  BY MutationAssumption DEF MutationTypeOK
<1>2. \A f \in Files : register[f] \in Lease /\ register[f].epoch + 1 \in Nat
  BY DEF Register, Lease
<1>3. ASSUME NEW f \in PathsOf[m]
      PROVE  [state |-> "HELD", holder |-> m, epoch |-> register[f].epoch + 1,
              pred |-> requests[m].pred, since |-> now, until |-> now + TTL, result |-> 0] \in Lease
  BY <1>1, <1>2 DEF Lease
<1> QED
  BY <1>1, <1>2, <1>3 DEF Acquired, Register, Own

LEMMA ReleasedIsRegister ==
  ASSUME NEW register \in Register, NEW m \in Mutations, NEW result \in Nat
  PROVE  Released(register, m, result) \in Register
  BY DEF Released, Register, Lease

\* A job that was given its leases.
LEMMA LeasedIsSound ==
  ASSUME MutationInv, NEW p \in Jobs, NEW c \in [PathsOf[jobs[p].mutation] -> Lease],
         \A f \in PathsOf[jobs[p].mutation] : Own(c[f], jobs[p].mutation),
         jobs[p].pc # "IDLE", jobs'[p] = Leased(p, c), requests' = requests
  PROVE  Leased(p, c) \in Job /\ Sound(p)'
<1>0. jobs[p] \in Job /\ jobs[p].mutation \in Mutations /\ requests[jobs[p].mutation].made
  BY DEF MutationInv, MutationTypeOK, Job, JobsAreSound, Sound
<1>1. /\ Leased(p, c) \in Job /\ Leased(p, c).pc = "REQUIRE"
      /\ Leased(p, c).mutation = jobs[p].mutation /\ Leased(p, c).receipt = c
  <2>1. c \in Receipts
    BY <1>0 DEF Receipts
  <2> QED
    BY <1>0, <2>1 DEF Leased, Job, Places, Receipted
<1> QED
  BY <1>0, <1>1 DEF Sound, HoldsReceipt, MayAcquire, MayLand, HasLanded, MayRelease, Receipted,
                    Committed, Own

LEMMA AcquireReadKeeps ==
  ASSUME MutationInv, NEW p \in Jobs, AcquireRead(p)
  PROVE  MutationInv'
<1> DEFINE m == jobs[p].mutation
           now == jobs[p].now
           c == Held(leases, m)
           r == [jobs[p] EXCEPT !.pc = "ACQUIRE_SWAP", !.seen = leases,
                                !.wrote = Acquired(leases, m, now)]
<1>0. /\ jobs \in [Jobs -> Job] /\ jobs[p] \in Job /\ m \in Mutations /\ PathsOf[m] \subseteq Files
      /\ leases \in Register /\ now \in Nat /\ MutationTypeOK
  BY MutationAssumption DEF MutationInv, MutationTypeOK, Job
<1>a. UNCHANGED shared /\ jobs[p].pc = "ACQUIRE_READ" /\ Sound(p)
  BY DEF AcquireRead, Stands, MutationInv, JobsAreSound
<1>1. CASE GiveUp(p)
  BY <1>1, <1>a, GivingUp
<1>2. CASE /\ \A f \in PathsOf[m] : HeldFor(leases[f], m)
           /\ jobs' = [jobs EXCEPT ![p] = Leased(p, c)]
  <2>1. c \in [PathsOf[m] -> Lease] /\ \A f \in PathsOf[m] : Own(c[f], m)
    BY <1>0, <1>2 DEF Held, HeldFor, Own, Register
  <2> HIDE DEF c
  <2>2. jobs'[p] = Leased(p, c) /\ Carries(p, Leased(p, c)) /\ requests' = requests
    BY <1>0, <1>2, <1>a DEF Carries, shared
  <2> QED
    BY <2>1, <2>2, <1>a, LeasedIsSound, QuietStep
<1>3. CASE Open(leases, m, now) /\ Carries(p, r)
  <2>1. Acquired(leases, m, now) \in Register
    BY <1>0, AcquiredIsRegister
  <2>2. /\ r \in Job /\ r.mutation = m /\ r.pc = "ACQUIRE_SWAP" /\ r.now = now
        /\ r.seen = leases /\ r.wrote = Acquired(leases, m, now)
    BY <1>0, <2>1 DEF Job, Places
  <2> HIDE DEF r
  <2>3. jobs'[p] = r
    BY <1>3, <2>2, CarriedJobs DEF MutationInv
  <2>4. MayAcquire(p)'
    BY <1>0, <1>3, <1>a, <2>2, <2>3 DEF Sound, MayAcquire, shared, Acquired, Open, Live, Own
  <2>5. Sound(p)'
    BY <1>a, <2>2, <2>3, <2>4
       DEF shared, Sound, HoldsReceipt, MayLand, HasLanded, MayRelease, Receipted, Committed
  <2> QED
    BY <1>3, <1>a, <2>2, <2>5, QuietStep
<1> QED
  <2>1. \/ GiveUp(p)
        \/ /\ \A f \in PathsOf[m] : HeldFor(leases[f], m)
           /\ jobs' = [jobs EXCEPT ![p] = Leased(p, c)]
        \/ /\ ~(\E f \in PathsOf[m] : leases[f].state = "HELD" /\ leases[f].holder = m)
           /\ ~Locked(leases, m, now)
           /\ jobs' = [jobs EXCEPT ![p].pc = "ACQUIRE_SWAP", ![p].seen = leases,
                                   ![p].wrote = Acquired(leases, m, now)]
    BY DEF AcquireRead, Mutation
  <2>2. ASSUME ~(\E f \in PathsOf[m] : leases[f].state = "HELD" /\ leases[f].holder = m),
               ~Locked(leases, m, now)
        PROVE  Open(leases, m, now)
    BY <2>2 DEF Open, Locked
  <2>3. ASSUME jobs' = [jobs EXCEPT ![p].pc = "ACQUIRE_SWAP", ![p].seen = leases,
                                    ![p].wrote = Acquired(leases, m, now)]
        PROVE  Carries(p, r)
    BY <1>0, <2>3 DEF Carries
  <2> QED
    BY <1>1, <1>2, <1>3, <2>1, <2>2, <2>3

\* A job that got no answer to its acquisition, whether it was made or not.
LEMMA AcquisitionLost ==
  ASSUME MutationInv, NEW p \in Jobs, jobs[p].pc = "ACQUIRE_SWAP",
         Carries(p, [jobs[p] EXCEPT !.pc = "ACQUIRE_SWAP_LOST", !.seen = << >>]),
         UNCHANGED <<requests, clock>>
  PROVE  [jobs[p] EXCEPT !.pc = "ACQUIRE_SWAP_LOST", !.seen = << >>] \in Job /\ Sound(p)'
<1> DEFINE m == jobs[p].mutation
           r == [jobs[p] EXCEPT !.pc = "ACQUIRE_SWAP_LOST", !.seen = << >>]
<1>0. jobs[p] \in Job /\ m \in Mutations /\ jobs[p].now \in Nat /\ MutationTypeOK
  BY DEF MutationInv, MutationTypeOK, Job
<1>1. jobs[p].now <= clock /\ jobs[p].seen \in Register /\ requests[m].made
      /\ jobs[p].wrote = Acquired(jobs[p].seen, m, jobs[p].now)
  BY DEF MutationInv, JobsAreSound, Sound, MayAcquire
<1>2. jobs[p].wrote \in Register /\ \A f \in PathsOf[m] : Own(jobs[p].wrote[f], m)
  BY <1>0, <1>1, AcquiredIsRegister
<1>3. /\ r \in Job /\ r.pc = "ACQUIRE_SWAP_LOST" /\ r.mutation = m /\ r.now = jobs[p].now
      /\ r.wrote = jobs[p].wrote
  BY <1>0 DEF Job, Places
<1> HIDE DEF r
<1>4. jobs'[p] = r
  BY <1>3, CarriedJobs DEF r, MutationInv
<1> QED
  BY <1>1, <1>2, <1>3, <1>4
     DEF r, Sound, HoldsReceipt, MayAcquire, MayLand, HasLanded, MayRelease, Receipted,
         Committed, Own

LEMMA AcquireLostKeeps ==
  ASSUME MutationInv, NEW p \in Jobs, AcquireLost(p)
  PROVE  MutationInv'
<1> DEFINE m == jobs[p].mutation
           c == Held(jobs[p].wrote, m)
           next == jobs[p].attempt + 1
           r == [jobs[p] EXCEPT !.pc = "ACQUIRE_READ", !.attempt = next, !.wrote = << >>]
<1>0. /\ jobs \in [Jobs -> Job] /\ jobs[p] \in Job /\ m \in Mutations /\ PathsOf[m] \subseteq Files
      /\ MutationTypeOK
  BY MutationAssumption DEF MutationInv, MutationTypeOK, Job
<1>b. next \in Nat
  BY <1>0 DEF Job
<1>a. UNCHANGED shared /\ jobs[p].pc = "ACQUIRE_SWAP_LOST" /\ Sound(p)
  BY DEF AcquireLost, SwapLost, Stands, MutationInv, JobsAreSound
<1>1. CASE GiveUp(p)
  BY <1>1, <1>a, GivingUp
<1>2. CASE jobs' = [jobs EXCEPT ![p] = Leased(p, c)]
  <2>1. c \in [PathsOf[m] -> Lease] /\ \A f \in PathsOf[m] : Own(c[f], m)
    BY <1>0, <1>a DEF Sound, MayAcquire, Held, Register
  <2> HIDE DEF c
  <2>2. jobs'[p] = Leased(p, c) /\ Carries(p, Leased(p, c)) /\ requests' = requests
    BY <1>0, <1>2, <1>a DEF Carries, shared
  <2> QED
    BY <2>1, <2>2, <1>a, LeasedIsSound, QuietStep
<1>3. CASE Carries(p, r)
  <2>2. /\ r \in Job /\ r.mutation = m /\ r.pc = "ACQUIRE_READ" /\ r.now = jobs[p].now
    <3> HIDE DEF next
    <3> QED
      BY <1>0, <1>b DEF Job, Places
  <2> HIDE DEF r
  <2>3. jobs'[p] = r
    BY <1>3, <2>2, CarriedJobs DEF MutationInv
  <2>5. Sound(p)'
    BY <1>a, <2>2, <2>3
       DEF shared, Sound, HoldsReceipt, MayAcquire, MayLand, HasLanded, MayRelease, Receipted,
           Committed
  <2> QED
    BY <1>3, <1>a, <2>2, <2>5, QuietStep
<1> QED
  <2>1. \/ GiveUp(p) \/ jobs' = [jobs EXCEPT ![p] = Leased(p, c)]
        \/ jobs' = [jobs EXCEPT ![p].pc = "ACQUIRE_READ", ![p].attempt = @ + 1, ![p].wrote = << >>]
    BY DEF AcquireLost, SwapLost, Taken, Mutation
  <2>2. ASSUME jobs' = [jobs EXCEPT ![p].pc = "ACQUIRE_READ", ![p].attempt = @ + 1,
                                    ![p].wrote = << >>]
        PROVE  Carries(p, r)
    BY <1>0, <2>2 DEF Carries
  <2> QED
    BY <1>1, <1>2, <1>3, <2>1, <2>2

LEMMA RequireAuthorityKeeps ==
  ASSUME MutationInv, NEW p \in Jobs, RequireAuthority(p)
  PROVE  MutationInv'
<1> DEFINE m == jobs[p].mutation
           r == [jobs[p] EXCEPT !.pc = "EXECUTE"]
<1>0. jobs \in [Jobs -> Job] /\ jobs[p] \in Job
  BY DEF MutationInv, MutationTypeOK
<1>1. CASE GiveUp(p)
  BY <1>1, GivingUp DEF RequireAuthority
<1>2. CASE ~GiveUp(p)
  <2>1. /\ Carries(p, r) /\ UNCHANGED shared /\ jobs[p].pc = "REQUIRE"
        /\ \A f \in PathsOf[m] : leases[f] = jobs[p].receipt[f] /\ clock < leases[f].until
    BY <1>0, <1>2 DEF RequireAuthority, Carries, Stands, GoOn, Mutation, Overtaken
  <2>2. r \in Job /\ r.mutation = m /\ r.pc = "EXECUTE" /\ r.receipt = jobs[p].receipt
    BY <1>0 DEF Job, Places, Receipted
  <2> HIDE DEF r
  <2>3. jobs'[p] = r
    BY <2>1, <2>2, CarriedJobs DEF MutationInv
  <2>4. Sound(p)
    BY DEF MutationInv, JobsAreSound
  <2>5. Sound(p)'
    BY <2>1, <2>2, <2>3, <2>4
       DEF shared, Sound, HoldsReceipt, MayAcquire, MayLand, HasLanded, MayRelease, Receipted,
           Committed, Own
  <2> QED
    BY <2>1, <2>2, <2>5, QuietStep
<1> QED
  BY <1>1, <1>2

\* The commit at the head is the one that the job's receipt is for.
LEMMA ReplayedHasLanded ==
  ASSUME MutationTypeOK, NEW p \in Jobs, HoldsReceipt(p), jobs[p].pc \in Receipted,
         ReplayMatches(p)
  PROVE  LET i == Len(target)
             m == jobs[p].mutation
         IN /\ i \in Landed /\ i \in Nat /\ i = requests[m].pred + 1 /\ target[i].by = m
            /\ \A f \in PathsOf[m] : target[i].lease[f] = jobs[p].receipt[f].epoch
<1>1. requests[jobs[p].mutation].pred \in Nat /\ Len(target) \in Nat
  BY DEF MutationTypeOK, Job
<1>2. \A f \in PathsOf[jobs[p].mutation] :
        target[Len(target)].lease[f] = jobs[p].receipt[f].epoch
  BY DEF ReplayMatches, Trailers, Mutation
<1> QED
  BY <1>1, <1>2 DEF ReplayMatches, Landed, Predecessor, Mutation

LEMMA CreateCommitKeeps ==
  ASSUME MutationInv, NEW p \in Jobs, CreateCommit(p)
  PROVE  MutationInv'
<1> DEFINE m == jobs[p].mutation
           i == Len(target)
<1>0. jobs \in [Jobs -> Job] /\ jobs[p] \in Job /\ MutationTypeOK /\ clock \in Nat /\ i \in Nat
      /\ m \in Mutations
  BY SMTT(30) DEF MutationInv, MutationTypeOK, Job
<1>a. UNCHANGED shared /\ jobs[p].pc = "EXECUTE" /\ Sound(p)
  BY DEF CreateCommit, Stands, MutationInv, JobsAreSound
<1>b. HoldsReceipt(p) /\ jobs[p].pc \in Receipted
  BY <1>a DEF Sound, Receipted
<1>1. CASE GiveUp(p)
  BY <1>1, <1>a, GivingUp
<1>2. CASE ReplayMatches(p) /\ Carries(p, [jobs[p] EXCEPT !.pc = "RELEASE", !.result = i])
  <2> DEFINE r == [jobs[p] EXCEPT !.pc = "RELEASE", !.result = i]
  <2>1. /\ r \in Job /\ r.mutation = m /\ r.pc = "RELEASE"
        /\ r.receipt = jobs[p].receipt /\ r.result = i
    BY <1>0 DEF Job, Places, Receipted, Committed
  <2>2. Carries(p, r)
    BY <1>2
  <2> HIDE DEF r
  <2>3. jobs'[p] = r
    BY <2>1, <2>2, CarriedJobs DEF MutationInv
  <2>4. HasLanded(p)'
    BY <1>0, <1>2, <1>a, <1>b, <2>1, <2>3, ReplayedHasLanded DEF HasLanded, shared, Landed
  <2>5. Sound(p)'
    BY <1>a, <2>1, <2>3, <2>4
       DEF shared, Sound, HoldsReceipt, MayAcquire, MayLand, MayRelease, Receipted, Committed, Own
  <2> QED
    BY <1>a, <2>1, <2>2, <2>5, QuietStep
<1>3. CASE ~jobs[p].replay /\ Carries(p, [jobs[p] EXCEPT !.pc = "UPDATE", !.now = clock])
  <2> DEFINE r == [jobs[p] EXCEPT !.pc = "UPDATE", !.now = clock]
  <2>1. /\ r \in Job /\ r.mutation = m /\ r.pc = "UPDATE"
        /\ r.receipt = jobs[p].receipt /\ r.now = clock
    BY <1>0 DEF Job, Places, Receipted
  <2>2. Carries(p, r)
    BY <1>3
  <2> HIDE DEF r
  <2>3. jobs'[p] = r
    BY <2>1, <2>2, CarriedJobs DEF MutationInv
  <2>a. PathsOf[m] \subseteq Files /\ \A f \in Files : leases[f].since <= clock
    BY <1>0, MutationAssumption DEF MutationInv, LeasesHaveBegun
  <2>4. MayLand(p)'
    BY <1>0, <1>3, <1>a, <2>1, <2>3, <2>a DEF MayLand, Sound, shared
  <2>5. Sound(p)'
    BY <1>a, <2>1, <2>3, <2>4
       DEF shared, Sound, HoldsReceipt, MayAcquire, HasLanded, MayRelease, Receipted, Committed, Own
  <2> QED
    BY <1>a, <2>1, <2>2, <2>5, QuietStep
<1> QED
  <2>1. \/ GiveUp(p)
        \/ ReplayMatches(p) /\ jobs' = [jobs EXCEPT ![p].pc = "RELEASE", ![p].result = i]
        \/ ~jobs[p].replay /\ jobs' = [jobs EXCEPT ![p].pc = "UPDATE", ![p].now = clock]
    BY DEF CreateCommit
  <2>2. ASSUME jobs' = [jobs EXCEPT ![p].pc = "RELEASE", ![p].result = i]
        PROVE  Carries(p, [jobs[p] EXCEPT !.pc = "RELEASE", !.result = i])
    BY <1>0, <2>2 DEF Carries
  <2>3. ASSUME jobs' = [jobs EXCEPT ![p].pc = "UPDATE", ![p].now = clock]
        PROVE  Carries(p, [jobs[p] EXCEPT !.pc = "UPDATE", !.now = clock])
    BY <1>0, <2>3 DEF Carries
  <2> QED
    BY <1>1, <1>2, <1>3, <2>1, <2>2, <2>3

LEMMA VerifyRefKeeps ==
  ASSUME MutationInv, NEW p \in Jobs, VerifyRef(p)
  PROVE  MutationInv'
<1> DEFINE m == jobs[p].mutation
           i == Len(target)
           r == [jobs[p] EXCEPT !.pc = "RELEASE", !.result = i, !.now = 0]
<1>0. jobs \in [Jobs -> Job] /\ jobs[p] \in Job /\ MutationTypeOK /\ i \in Nat
  BY DEF MutationInv, MutationTypeOK
<1>a. UNCHANGED shared /\ jobs[p].pc = "VERIFY" /\ Sound(p)
  BY DEF VerifyRef, Stands, MutationInv, JobsAreSound
<1>b. HoldsReceipt(p) /\ jobs[p].pc \in Receipted
  BY <1>a DEF Sound, Receipted
<1>1. CASE GiveUp(p)
  BY <1>1, <1>a, GivingUp
<1>2. CASE ~GiveUp(p)
  <2>1. /\ r \in Job /\ r.mutation = m /\ r.pc = "RELEASE"
        /\ r.receipt = jobs[p].receipt /\ r.result = i
    BY <1>0 DEF Job, Places, Receipted, Committed
  <2>2. Carries(p, r) /\ ReplayMatches(p)
    BY <1>0, <1>2 DEF VerifyRef, Carries
  <2> HIDE DEF r
  <2>3. jobs'[p] = r
    BY <2>1, <2>2, CarriedJobs DEF MutationInv
  <2>4. HasLanded(p)'
    BY <1>0, <2>2, <1>a, <1>b, <2>1, <2>3, ReplayedHasLanded DEF HasLanded, shared, Landed
  <2>5. Sound(p)'
    BY <1>a, <2>1, <2>3, <2>4
       DEF shared, Sound, HoldsReceipt, MayAcquire, MayLand, MayRelease, Receipted, Committed, Own
  <2> QED
    BY <1>a, <2>1, <2>2, <2>5, QuietStep
<1> QED
  BY <1>1, <1>2

LEMMA ReleaseBeginKeeps ==
  ASSUME MutationInv, NEW p \in Jobs, ReleaseBegin(p)
  PROVE  MutationInv'
<1> DEFINE m == jobs[p].mutation
           r == [jobs[p] EXCEPT !.pc = "RELEASE_READ", !.now = clock]
<1>0. jobs \in [Jobs -> Job] /\ jobs[p] \in Job /\ clock \in Nat
  BY DEF MutationInv, MutationTypeOK
<1>a. UNCHANGED shared /\ jobs[p].pc = "RELEASE" /\ Sound(p)
  BY DEF ReleaseBegin, Stands, MutationInv, JobsAreSound
<1>1. CASE GiveUp(p)
  BY <1>1, <1>a, GivingUp
<1>2. CASE ~GiveUp(p)
  <2>1. /\ r \in Job /\ r.mutation = m /\ r.pc = "RELEASE_READ" /\ r.receipt = jobs[p].receipt
        /\ r.result = jobs[p].result /\ r.now = clock
    BY <1>0 DEF Job, Places, Receipted, Committed
  <2>2. Carries(p, r)
    BY <1>0, <1>2 DEF ReleaseBegin, Carries
  <2> HIDE DEF r
  <2>3. jobs'[p] = r
    BY <2>1, <2>2, CarriedJobs DEF MutationInv
  <2>4. target[jobs[p].result].at <= clock
    BY <1>a DEF Sound, HasLanded, Committed, MutationInv, CommitsAreAsked
  <2>5. Sound(p)'
    BY <1>a, <2>1, <2>3, <2>4
       DEF shared, Sound, HoldsReceipt, MayAcquire, MayLand, HasLanded, MayRelease, Receipted,
           Committed, Own, Landed
  <2> QED
    BY <1>a, <2>1, <2>2, <2>5, QuietStep
<1> QED
  BY <1>1, <1>2

LEMMA ReleaseReadKeeps ==
  ASSUME MutationInv, NEW p \in Jobs, ReleaseRead(p)
  PROVE  MutationInv'
<1> DEFINE m == jobs[p].mutation
           r == [jobs[p] EXCEPT !.pc = "RELEASE_SWAP", !.seen = leases,
                                !.wrote = Released(leases, m, jobs[p].result)]
<1>0. jobs \in [Jobs -> Job] /\ jobs[p] \in Job /\ leases \in Register /\ m \in Mutations
  BY DEF MutationInv, MutationTypeOK, Job
<1>a. UNCHANGED shared /\ jobs[p].pc = "RELEASE_READ" /\ Sound(p)
  BY DEF ReleaseRead, Stands, MutationInv, JobsAreSound
<1>1. CASE GiveUp(p)
  BY <1>1, <1>a, GivingUp
<1>2. CASE ~GiveUp(p)
  <2>0. jobs[p].result \in Nat
    BY <1>0 DEF Job
  <2>1. /\ r \in Job /\ r.mutation = m /\ r.pc = "RELEASE_SWAP" /\ r.receipt = jobs[p].receipt
        /\ r.result = jobs[p].result /\ r.now = jobs[p].now
        /\ r.seen = leases /\ r.wrote = Released(leases, m, jobs[p].result)
    <3>1. Released(leases, m, jobs[p].result) \in Register
      BY <1>0, <2>0, ReleasedIsRegister
    <3> QED
      BY <1>0, <3>1 DEF Job, Places, Receipted, Committed
  <2>2. Carries(p, r) /\ ~Overtaken(leases, m, jobs[p].receipt)
    BY <1>0, <1>2 DEF ReleaseRead, Carries, Mutation
  <2> HIDE DEF r
  <2>3. jobs'[p] = r
    BY <2>1, <2>2, CarriedJobs DEF MutationInv
  <2>4. MayRelease(p)'
    BY <1>0, <2>1, <2>2, <2>3 DEF MayRelease, Overtaken
  <2>5. Sound(p)'
    BY <1>a, <2>1, <2>3, <2>4
       DEF shared, Sound, HoldsReceipt, MayAcquire, MayLand, HasLanded, Receipted, Committed, Own,
           Landed
  <2> QED
    BY <1>a, <2>1, <2>2, <2>5, QuietStep
<1> QED
  BY <1>1, <1>2

\* A job that got no answer to its release.
LEMMA ReleaseUnanswered ==
  ASSUME MutationInv, NEW p \in Jobs, jobs[p].pc = "RELEASE_SWAP",
         Carries(p, [jobs[p] EXCEPT !.pc = "RELEASE_SWAP_LOST", !.seen = << >>]),
         UNCHANGED <<target, requests>>
  PROVE  [jobs[p] EXCEPT !.pc = "RELEASE_SWAP_LOST", !.seen = << >>] \in Job /\ Sound(p)'
<1> DEFINE r == [jobs[p] EXCEPT !.pc = "RELEASE_SWAP_LOST", !.seen = << >>]
<1>0. jobs[p] \in Job /\ Sound(p)
  BY DEF MutationInv, MutationTypeOK, JobsAreSound
<1>3. /\ r \in Job /\ r.pc = "RELEASE_SWAP_LOST" /\ r.mutation = jobs[p].mutation
      /\ r.now = jobs[p].now /\ r.receipt = jobs[p].receipt /\ r.result = jobs[p].result
  BY <1>0 DEF Job, Places, Receipted, Committed
<1> HIDE DEF r
<1>4. jobs'[p] = r
  BY <1>3, CarriedJobs DEF r, MutationInv
<1>5. Sound(p)'
  BY <1>0, <1>3, <1>4
     DEF Sound, HoldsReceipt, MayAcquire, MayLand, HasLanded, MayRelease, Receipted, Committed, Own,
         Landed
<1> QED
  BY <1>3, <1>5 DEF r

LEMMA ReleaseLostKeeps ==
  ASSUME MutationInv, NEW p \in Jobs, ReleaseLost(p)
  PROVE  MutationInv'
<1> DEFINE next == jobs[p].attempt + 1
           r == [jobs[p] EXCEPT !.pc = "RELEASE_READ", !.attempt = next, !.wrote = << >>]
<1>0. jobs \in [Jobs -> Job] /\ jobs[p] \in Job
  BY DEF MutationInv, MutationTypeOK
<1>a. UNCHANGED shared /\ jobs[p].pc = "RELEASE_SWAP_LOST" /\ Sound(p)
  BY DEF ReleaseLost, SwapLost, Stands, MutationInv, JobsAreSound
<1>b. next \in Nat
  BY <1>0 DEF Job
<1>1. CASE GiveUp(p)
  BY <1>1, <1>a, GivingUp
<1>2. CASE Carries(p, r)
  <2>1. /\ r \in Job /\ r.pc = "RELEASE_READ" /\ r.mutation = jobs[p].mutation
        /\ r.now = jobs[p].now /\ r.receipt = jobs[p].receipt /\ r.result = jobs[p].result
    <3> HIDE DEF next
    <3> QED
      BY <1>0, <1>b DEF Job, Places, Receipted, Committed
  <2> HIDE DEF r
  <2>2. jobs'[p] = r
    BY <1>2, <2>1, CarriedJobs DEF MutationInv
  <2>3. Sound(p)'
    BY <1>a, <2>1, <2>2
       DEF shared, Sound, HoldsReceipt, MayAcquire, MayLand, HasLanded, MayRelease, Receipted,
           Committed, Own, Landed
  <2> QED
    BY <1>2, <1>a, <2>1, <2>3, QuietStep
<1> QED
  <2>1. \/ GiveUp(p)
        \/ jobs' = [jobs EXCEPT ![p].pc = "RELEASE_READ", ![p].attempt = @ + 1, ![p].wrote = << >>]
    BY DEF ReleaseLost, SwapLost, GiveUp
  <2>2. ASSUME jobs' = [jobs EXCEPT ![p].pc = "RELEASE_READ", ![p].attempt = @ + 1,
                                    ![p].wrote = << >>]
        PROVE  Carries(p, r)
    BY <1>0, <2>2 DEF Carries
  <2> QED
    BY <1>1, <1>2, <2>1, <2>2

-----------------------------------------------------------------------------
(* Steps that change what is shared *)

LEMMA LandedType ==
  ASSUME MutationTypeOK, NEW i \in Landed
  PROVE  /\ Len(target) \in Nat /\ i \in 1 .. Len(target)
         /\ target[i] \in Commit /\ target[i].by \in Mutations /\ target[i].at \in Nat
         /\ PathsOf[target[i].by] \subseteq Files
         /\ target[i].lease \in [PathsOf[target[i].by] -> Nat]
<1>1. Len(target) \in Nat /\ i \in 1 .. Len(target) /\ target[i] \in Commit
  BY ElementOfSeq DEF MutationTypeOK, Landed
<1>2. PICK m \in Mutations : target[i] \in CommitOf(m)
  BY <1>1 DEF Commit
<1>3. target[i].by = m /\ target[i].at \in Nat /\ target[i].lease \in [PathsOf[m] -> Nat]
  BY <1>2 DEF CommitOf
<1> QED
  BY <1>1, <1>3, MutationAssumption

LEMMA SubmitRequestKeeps ==
  ASSUME MutationInv, NEW m \in Mutations, SubmitRequest(m)
  PROVE  MutationInv'
<1> DEFINE r == [pred |-> Len(target), auth |-> authority, made |-> TRUE]
<1>0. /\ MutationTypeOK /\ Len(target) \in Nat /\ ~requests[m].made
      /\ requests' = [requests EXCEPT ![m] = r]
      /\ UNCHANGED <<target, authority, leases, events, jobs, clock>>
  BY DEF MutationInv, MutationTypeOK, SubmitRequest
<1>1. /\ requests' \in [Mutations -> [pred : Nat, auth : Nat, made : BOOLEAN]]
      /\ requests'[m] = r /\ \A n \in Mutations : requests[n].made => requests'[n] = requests[n]
  BY <1>0 DEF MutationTypeOK
<1>2. MutationTypeOK'
  BY <1>0, <1>1 DEF MutationTypeOK
<1>3. ASSUME NEW q \in Jobs
      PROVE  Sound(q)'
  <2>1. CASE jobs[q].pc = "IDLE"
    BY <1>0, <2>1, IdleIsSound
  <2>2. CASE jobs[q].pc # "IDLE"
    <3>1. Sound(q) /\ jobs[q].mutation \in Mutations /\ requests[jobs[q].mutation].made
      BY <1>0, <2>2 DEF MutationInv, JobsAreSound, Sound, MutationTypeOK, Job
    <3>2. requests'[jobs[q].mutation] = requests[jobs[q].mutation]
      BY <1>1, <3>1
    <3>3. HoldsReceipt(q)' /\ HasLanded(q)' /\ MayLand(q)'
      BY <1>0, <3>1, <3>2 DEF Sound, HoldsReceipt, HasLanded, MayLand, Own, Landed
    <3>4. MayRelease(q)'
      BY <1>0, <3>1, <3>2 DEF Sound, MayRelease, Released
    <3>5. MayAcquire(q)'
      BY <1>0, <3>1, <3>2 DEF Sound, MayAcquire, Own, Acquired, Open, Live
    <3> QED
      BY <1>0, <3>1, <3>2, <3>3, <3>4, <3>5 DEF Sound
  <2> QED
    BY <2>1, <2>2
<1>4. RequestsAreBehind'
  BY <1>0, <1>1 DEF MutationInv, RequestsAreBehind
<1>5. CommitsAreAsked'
  <2>1. \A i \in Landed : target[i].by \in Mutations
    BY <1>0, LandedType
  <2> QED
    BY <1>0, <1>1, <2>1 DEF MutationInv, CommitsAreAsked, Landed
<1>6. (EventsAreTrue /\ LeasesAreWhole /\ LeasesHaveBegun)'
  BY <1>0 DEF MutationInv, EventsAreTrue, LeasesAreWhole, LeasesHaveBegun, Landed, Live
<1>7. (TrailersNameLeases /\ EventsAreInTime)'
  BY <1>0 DEF MutationInv, TrailersNameLeases, EventsAreInTime, EventsPassTheAudit,
              EveryTrailerHasItsEvent, LeaseEventProof, Landed
<1> QED
  BY <1>2, <1>3, <1>4, <1>5, <1>6, <1>7 DEF MutationInv, JobsAreSound

LEMMA PublishAuthorityKeeps ==
  ASSUME MutationInv, PublishAuthority
  PROVE  MutationInv'
<1>0. /\ authority' = authority + 1
      /\ UNCHANGED <<target, requests, leases, events, jobs, clock>>
  BY DEF PublishAuthority
<1>1. MutationTypeOK'
  BY <1>0 DEF MutationInv, MutationTypeOK
<1>2. ASSUME NEW q \in Jobs
      PROVE  Sound(q)'
  <2>1. Sound(q)
    BY DEF MutationInv, JobsAreSound
  <2>3. HoldsReceipt(q)' /\ HasLanded(q)' /\ MayLand(q)'
    BY <1>0, <2>1 DEF Sound, HoldsReceipt, HasLanded, MayLand, Own, Landed
  <2>4. MayAcquire(q)' /\ MayRelease(q)'
    BY <1>0, <2>1 DEF Sound, MayAcquire, MayRelease, Own, Acquired, Released, Open, Live
  <2> QED
    BY <1>0, <2>1, <2>3, <2>4 DEF Sound
<1>6. (RequestsAreBehind /\ CommitsAreAsked /\ EventsAreTrue /\ LeasesAreWhole /\ LeasesHaveBegun)'
  BY <1>0 DEF MutationInv, RequestsAreBehind, CommitsAreAsked, EventsAreTrue, LeasesAreWhole,
              LeasesHaveBegun, Landed, Live
<1>7. (TrailersNameLeases /\ EventsAreInTime)'
  BY <1>0 DEF MutationInv, TrailersNameLeases, EventsAreInTime, EventsPassTheAudit,
              EveryTrailerHasItsEvent, LeaseEventProof, Landed
<1> QED
  BY <1>1, <1>2, <1>6, <1>7 DEF MutationInv, JobsAreSound

\* Time: what a job under way or an unfinished commit needs does not run out.
LEMMA TickKeeps ==
  ASSUME MutationInv, Tick
  PROVE  MutationInv'
<1>0. /\ MutationTypeOK /\ clock' = clock + 1 /\ clock \in Nat
      /\ UNCHANGED <<target, authority, requests, leases, events, jobs>>
      /\ \A f \in Files : leases[f] \in Lease
      /\ \A m \in Mutations : PathsOf[m] \subseteq Files
  BY MutationAssumption DEF MutationInv, MutationTypeOK, Register, Tick
<1>t. ASSUME Timely, NEW f \in Files, leases[f].state = "HELD", Unfinished(f)
      PROVE  clock' < leases[f].until
  BY <1>0, <1>t DEF Tick
<1>1. MutationTypeOK'
  BY <1>0 DEF MutationTypeOK
<1>2. ASSUME NEW q \in Jobs
      PROVE  Sound(q)'
  <2> DEFINE m == jobs[q].mutation
  <2>1. Sound(q) /\ jobs[q] \in Job /\ m \in Mutations
    BY <1>0 DEF MutationInv, JobsAreSound, MutationTypeOK, Job
  <2>3. HoldsReceipt(q)' /\ HasLanded(q)' /\ MayRelease(q)'
    BY <1>0, <2>1 DEF Sound, HoldsReceipt, HasLanded, MayRelease, Released, Own, Landed
  <2>4. MayAcquire(q)'
    <3>1. jobs[q].now <= clock => jobs[q].now <= clock'
      BY <1>0, <2>1 DEF Job
    <3> QED
      BY <1>0, <2>1, <3>1 DEF Sound, MayAcquire, Own, Acquired, Open, Live
  <2>5. MayLand(q)'
    <3>1. jobs[q].now <= clock => jobs[q].now <= clock'
      BY <1>0, <2>1 DEF Job
    <3>2. ASSUME Timely, Len(target) = requests[m].pred,
                 jobs[q].pc = "UPDATE" \/ (jobs[q].pc = "EXECUTE" /\ ~jobs[q].replay),
                 NEW f \in PathsOf[m]
          PROVE  clock' < leases[f].until
      <4>1. leases[f] = jobs[q].receipt[f] /\ Own(jobs[q].receipt[f], m)
        BY <2>1, <3>2 DEF Sound, MayLand, HoldsReceipt, Receipted
      <4>2. Unfinished(f) /\ leases[f].state = "HELD" /\ f \in Files
        BY <1>0, <2>1, <3>2, <4>1 DEF Unfinished, Own, Stands, Mutation
      <4> QED
        BY <1>t, <3>2, <4>2
    <3> QED
      BY <1>0, <2>1, <3>1, <3>2 DEF Sound, MayLand
  <2> QED
    BY <1>0, <2>1, <2>3, <2>4, <2>5 DEF Sound
<1>3. (RequestsAreBehind /\ EventsAreTrue)'
  BY <1>0 DEF MutationInv, RequestsAreBehind, EventsAreTrue, Landed
<1>4. CommitsAreAsked'
  <2>1. \A i \in Landed : target[i].at \in Nat
    BY <1>0, LandedType
  <2> QED
    BY <1>0, <2>1 DEF MutationInv, CommitsAreAsked, Landed
<1>5. LeasesAreWhole' /\ LeasesHaveBegun'
  <2>1. \A f \in Files : leases[f].since \in Nat /\ leases[f].until \in Nat
    BY <1>0 DEF Lease
  <2>2. \A f \in Files : Live(leases[f], clock') => Live(leases[f], clock)
    BY <1>0, <2>1 DEF Live
  <2> QED
    BY <1>0, <2>1, <2>2 DEF MutationInv, LeasesAreWhole, LeasesHaveBegun
<1>6. TrailersNameLeases'
  <2> SUFFICES ASSUME Timely, NEW i \in Landed, NEW f \in PathsOf[target[i].by],
                      target[i].lease[f] = leases[f].epoch, leases[f].state = "HELD"
               PROVE  clock' < leases[f].until
    BY <1>0 DEF MutationInv, TrailersNameLeases, Landed
  <2>1. target[i].by = leases[f].holder
    BY DEF MutationInv, TrailersNameLeases
  <2>2. f \in Files /\ i \in 1 .. Len(target)
    BY <1>0, LandedType
  <2> QED
    BY <1>t, <2>1, <2>2 DEF Unfinished
<1>7. EventsAreInTime'
  BY <1>0 DEF MutationInv, EventsAreInTime, EventsPassTheAudit, EveryTrailerHasItsEvent,
              LeaseEventProof, Landed
<1> QED
  BY <1>1, <1>2, <1>3, <1>4, <1>5, <1>6, <1>7 DEF MutationInv, JobsAreSound

\* The register takes the leases of mutation m: none of its files is under a live lease,
\* so that of no other mutation is touched.
LEMMA AcquisitionKeeps ==
  ASSUME MutationInv, NEW p \in Jobs, NEW r \in Job, jobs[p].pc = "ACQUIRE_SWAP",
         leases = jobs[p].seen, leases' = jobs[p].wrote, Carries(p, r), Sound(p)',
         UNCHANGED <<target, authority, requests, events, clock>>
  PROVE  MutationInv'
<1> DEFINE m == jobs[p].mutation
           now == jobs[p].now
<1>0. /\ MutationTypeOK /\ m \in Mutations /\ PathsOf[m] \subseteq Files
      /\ now \in Nat /\ clock \in Nat /\ TTL \in Nat
      /\ \A f \in Files : leases[f] \in Lease
  BY MutationAssumption DEF MutationInv, MutationTypeOK, Job, Register
<1>1. /\ now <= clock /\ leases' = Acquired(leases, m, now) /\ Open(leases, m, now)
      /\ leases' \in Register
  <2>1. now <= clock /\ leases' = Acquired(leases, m, now) /\ Open(leases, m, now)
    BY DEF MutationInv, JobsAreSound, Sound, MayAcquire
  <2> QED
    BY <1>0, <2>1, AcquiredIsRegister DEF MutationTypeOK
<1>2. \A f \in Files : f \notin PathsOf[m] => leases'[f] = leases[f]
  BY ONLY <1>1 DEF Acquired
<1>3. \A f \in PathsOf[m] :
        /\ leases'[f].state = "HELD" /\ leases'[f].holder = m
        /\ leases'[f].epoch = leases[f].epoch + 1
        /\ leases'[f].since = now /\ leases'[f].until = now + TTL
  BY <1>0, <1>1 DEF Acquired
<1>4. \A f \in PathsOf[m] : ~Live(leases[f], clock)
  <2>1. \A f \in PathsOf[m] : leases[f].until \in Nat /\ ~Live(leases[f], now)
    BY <1>0, <1>1 DEF Lease, Open
  <2> QED
    BY <1>0, <1>1, <2>1 DEF Live
<1>5. MutationTypeOK'
  BY <1>0, <1>1, CarriedJobs DEF MutationTypeOK
<1>6. ASSUME NEW q \in Jobs, q # p
      PROVE  Sound(q)'
  <2>0. jobs'[q] = jobs[q] /\ Sound(q)
    BY <1>0, <1>6, CarriedJobs DEF MutationInv, JobsAreSound
  <2>a. PathsOf[jobs[q].mutation] \subseteq Files
    BY <1>0, MutationAssumption DEF MutationTypeOK, Job
  <2>1. jobs'[q] = jobs[q] /\ Sound(q) /\ PathsOf[jobs[q].mutation] \subseteq Files
    BY <2>0, <2>a
  <2>2. HoldsReceipt(q)' /\ HasLanded(q)'
    BY <2>1 DEF Sound, HoldsReceipt, HasLanded, Own, Landed
  <2>b. MayRelease(q)'
    BY <2>1 DEF Sound, MayRelease, Released
  <2>3. MayAcquire(q)'
    BY <2>1 DEF Sound, MayAcquire, Own, Acquired, Open, Live
  <2>4. MayLand(q)'
    <3>1. ASSUME Timely, Len(target) = requests[jobs[q].mutation].pred,
                 jobs[q].pc = "UPDATE" \/ (jobs[q].pc = "EXECUTE" /\ ~jobs[q].replay),
                 NEW f \in PathsOf[jobs[q].mutation]
          PROVE  leases'[f] = leases[f]
      <4>1. Live(leases[f], clock)
        BY <2>1, <3>1 DEF Sound, MayLand, HoldsReceipt, Receipted, Own, Live
      <4> QED
        BY <1>2, <1>4, <2>1, <4>1
    <3> QED
      BY <2>1, <3>1 DEF Sound, MayLand
  <2> QED
    BY <2>1, <2>2, <2>3, <2>4, <2>b DEF Sound
<1>7. LeasesAreWhole'
  <2> SUFFICES ASSUME NEW n \in Mutations, NEW f \in Files,
                      leases'[f].holder = n, Live(leases'[f], clock)
               PROVE  /\ f \in PathsOf[n]
                      /\ \A g \in PathsOf[n] : leases'[g].state = "HELD" /\ leases'[g].holder = n
                                                /\ leases'[g].until = leases'[f].until
    BY DEF LeasesAreWhole, Live
  <2>1. CASE f \in PathsOf[m]
    BY <1>3, <2>1
  <2>2. CASE f \notin PathsOf[m]
    <3>1. leases'[f] = leases[f]
      BY <1>2, <2>2
    <3>2. /\ f \in PathsOf[n]
          /\ \A g \in PathsOf[n] : leases[g].state = "HELD" /\ leases[g].holder = n
                                    /\ leases[g].until = leases[f].until
      BY <3>1 DEF MutationInv, LeasesAreWhole
    <3>3. \A g \in PathsOf[n] : g \in Files /\ Live(leases[g], clock)
      BY <3>1, <3>2, MutationAssumption DEF Live
    <3> QED
      BY <1>2, <1>4, <3>1, <3>2, <3>3
  <2> QED
    BY <2>1, <2>2
<1>8. LeasesHaveBegun'
  BY <1>1, <1>2, <1>3 DEF MutationInv, LeasesHaveBegun
<1>9. TrailersNameLeases'
  <2> SUFFICES ASSUME Timely, NEW i \in Landed, NEW f \in PathsOf[target[i].by]
               PROVE  /\ target[i].lease[f] <= leases'[f].epoch
                      /\ target[i].lease[f] = leases'[f].epoch =>
                           /\ leases'[f].since <= target[i].at /\ target[i].at < leases'[f].until
                           /\ leases'[f].holder = target[i].by
                           /\ leases'[f].state = "HELD" => clock < leases'[f].until
    BY DEF TrailersNameLeases, Landed
  <2>1. f \in Files /\ target[i].lease[f] \in Nat /\ leases[f].epoch \in Nat
    BY <1>0, LandedType DEF Lease
  <2>2. target[i].lease[f] <= leases[f].epoch
    BY DEF MutationInv, TrailersNameLeases
  <2>3. CASE f \in PathsOf[m]
    BY <1>3, <2>1, <2>2, <2>3
  <2>4. CASE f \notin PathsOf[m]
    <3>1. leases'[f] = leases[f]
      BY <1>2, <2>1, <2>4
    <3> QED
      BY <3>1 DEF MutationInv, TrailersNameLeases
  <2> QED
    BY <2>3, <2>4
<1>10. EventsAreInTime'
  <2>1. ASSUME Timely
        PROVE  EveryTrailerHasItsEvent'
    <3> SUFFICES ASSUME NEW i \in Landed, NEW f \in PathsOf[target[i].by],
                        leases[f].state = "HELD", leases[f].holder = target[i].by,
                        leases[f].epoch = target[i].lease[f]
                 PROVE  leases'[f] = leases[f]
      BY <2>1 DEF MutationInv, EventsAreInTime, EveryTrailerHasItsEvent, Landed
    <3>1. Live(leases[f], clock)
      BY <2>1 DEF MutationInv, TrailersNameLeases, Live
    <3> QED
      BY <1>0, <1>2, <1>4, <3>1, LandedType
  <2> QED
    BY <2>1 DEF MutationInv, EventsAreInTime, EventsPassTheAudit, LeaseEventProof
<1>11. (RequestsAreBehind /\ CommitsAreAsked /\ EventsAreTrue)'
  BY DEF MutationInv, RequestsAreBehind, CommitsAreAsked, EventsAreTrue, Landed
<1> QED
  BY <1>5, <1>6, <1>7, <1>8, <1>9, <1>10, <1>11 DEF MutationInv, JobsAreSound

\* Job p had its request for the register taken or not, and its answer or not.
LEMMA AcquireSwapKeeps ==
  ASSUME MutationInv, NEW p \in Jobs, AcquireSwap(p)
  PROVE  MutationInv'
<1> DEFINE m == jobs[p].mutation
           c == Held(jobs[p].wrote, m)
           lost == [jobs[p] EXCEPT !.pc = "ACQUIRE_SWAP_LOST", !.seen = << >>]
<1>0. /\ jobs[p].pc = "ACQUIRE_SWAP" /\ UNCHANGED <<target, authority, requests, events, clock>>
      /\ PathsOf[m] \subseteq Files /\ m \in Mutations /\ jobs[p].now \in Nat /\ MutationTypeOK
  BY MutationAssumption DEF AcquireSwap, Stands, MutationInv, MutationTypeOK, Job
<1>1. \/ leases = jobs[p].seen /\ leases' = jobs[p].wrote /\ Carries(p, Leased(p, c))
      \/ leases = jobs[p].seen /\ leases' = jobs[p].wrote /\ Carries(p, lost)
      \/ leases' = leases /\ Carries(p, lost)
  BY DEF AcquireSwap, Swap, Taken, Carries, Mutation
<1>2. CASE Carries(p, lost)
  <2>1. lost \in Job /\ Sound(p)'
    BY <1>0, <1>2, AcquisitionLost
  <2> HIDE DEF lost
  <2>2. CASE leases' = leases
    BY <1>0, <1>2, <2>1, <2>2, QuietStep DEF shared
  <2>3. CASE leases = jobs[p].seen /\ leases' = jobs[p].wrote
    BY <1>0, <1>2, <2>1, <2>3, AcquisitionKeeps
  <2> QED
    BY <1>1, <1>2, <2>2, <2>3
<1>3. CASE leases = jobs[p].seen /\ leases' = jobs[p].wrote /\ Carries(p, Leased(p, c))
  <2>1. jobs[p].seen \in Register /\ jobs[p].wrote = Acquired(jobs[p].seen, m, jobs[p].now)
    BY <1>0 DEF MutationInv, JobsAreSound, Sound, MayAcquire
  <2>2. jobs[p].wrote \in Register /\ \A f \in PathsOf[m] : Own(jobs[p].wrote[f], m)
    BY <1>0, <2>1, AcquiredIsRegister
  <2>3. c \in [PathsOf[m] -> Lease] /\ \A f \in PathsOf[m] : Own(c[f], m)
    BY <1>0, <2>2 DEF Held, Register
  <2> HIDE DEF c
  <2>4. jobs'[p] = Leased(p, c)
    BY <1>0, <1>3 DEF Carries, MutationTypeOK
  <2>5. Leased(p, c) \in Job /\ Sound(p)'
    BY <1>0, <2>3, <2>4, LeasedIsSound
  <2> QED
    BY <1>0, <1>3, <2>5, AcquisitionKeeps
<1> QED
  BY <1>1, <1>2, <1>3

LEMMA CrashJobKeeps ==
  ASSUME MutationInv, NEW p \in Jobs, CrashJob(p)
  PROVE  MutationInv'
  BY GivingUp DEF CrashJob

LEMMA InitSound == MutationInit => MutationInv
<1> SUFFICES ASSUME MutationInit
             PROVE  MutationInv
  OBVIOUS
<1> USE DEF MutationInit
<1>1. /\ target \in Seq(Commit) /\ Len(target) = 0 /\ Landed = {}
      /\ NoRequest \in [pred : Nat, auth : Nat, made : BOOLEAN]
      /\ NoLease \in Lease
  BY DEF Landed, NoRequest, NoLease, Lease
<1>2. MutationTypeOK
  BY <1>1, IdleJobType DEF MutationTypeOK, Register
<1>3. JobsAreSound
  BY IdleJobType DEF JobsAreSound, Sound, HoldsReceipt, MayAcquire, MayLand, HasLanded, MayRelease,
                     Receipted, Committed
<1>4. (RequestsAreBehind /\ CommitsAreAsked /\ EventsAreTrue)
  BY <1>1 DEF RequestsAreBehind, CommitsAreAsked, EventsAreTrue, NoRequest
<1>5. LeasesAreWhole /\ LeasesHaveBegun
  BY DEF LeasesAreWhole, LeasesHaveBegun, NoLease, Live
<1>6. TrailersNameLeases /\ EventsAreInTime
  BY <1>1 DEF TrailersNameLeases, EventsAreInTime, EventsPassTheAudit, EveryTrailerHasItsEvent
<1> QED
  BY <1>2, <1>3, <1>4, <1>5, <1>6 DEF MutationInv

\* The branch takes the commit of job p.  No other job that still waits to land a commit of
\* the same predecessor may do so any more.
LEMMA LandingKeeps ==
  ASSUME MutationInv, NEW p \in Jobs, Stands(p, "UPDATE"), Unmoved(p), GoOn(p, "VERIFY"),
         target' = Append(target, [by |-> Mutation(p), lease |-> Trailers(p), at |-> jobs[p].now]),
         UNCHANGED <<authority, requests, leases, events, clock>>
  PROVE  MutationInv'
<1> DEFINE m == jobs[p].mutation
           c == [by |-> m, lease |-> Trailers(p), at |-> jobs[p].now]
           r == [jobs[p] EXCEPT !.pc = "VERIFY"]
           n == Len(target)
<1>0. /\ MutationTypeOK /\ m \in Mutations /\ jobs[p] \in Job /\ PathsOf[m] \subseteq Files
      /\ n \in Nat /\ target \in Seq(Commit) /\ jobs[p].now \in Nat
      /\ requests[m].pred = n /\ requests[m].made /\ jobs[p].pc = "UPDATE" /\ Sound(p)
  BY MutationAssumption
     DEF MutationInv, MutationTypeOK, Job, Stands, Unmoved, Predecessor, Mutation,
         JobsAreSound, Sound
<1>1. /\ jobs[p].receipt \in [PathsOf[m] -> Lease] /\ jobs[p].now <= clock
      /\ \A f \in PathsOf[m] : Own(jobs[p].receipt[f], m)
      /\ Timely => \A f \in PathsOf[m] :
           /\ leases[f] = jobs[p].receipt[f]
           /\ clock < leases[f].until /\ leases[f].since <= jobs[p].now
  BY <1>0 DEF Sound, HoldsReceipt, MayLand, Receipted
<1>2. c.lease \in [PathsOf[m] -> Nat] /\ \A f \in PathsOf[m] : c.lease[f] = jobs[p].receipt[f].epoch
  <2>1. \A f \in PathsOf[m] : jobs[p].receipt[f].epoch \in Nat
    BY <1>1 DEF Lease
  <2> QED
    BY <2>1 DEF Trailers, Mutation
<1>3. c \in Commit
  <2>1. c \in CommitOf(m)
    BY <1>0, <1>2 DEF CommitOf
  <2> QED
    BY <1>0, <2>1 DEF Commit
<1>4. target' = Append(target, c)
  BY DEF Mutation
<1> HIDE DEF c
<1>5. /\ target' \in Seq(Commit) /\ Len(target') = n + 1 /\ target'[n + 1] = c
      /\ \A i \in Landed : i \in 1 .. n /\ target'[i] = target[i] /\ i \in Landed'
      /\ n + 1 \in Landed' /\ \A i \in Landed' : i = n + 1 \/ i \in Landed
  BY <1>0, <1>3, <1>4, AppendProperties DEF Landed
<1>6. Carries(p, r) /\ r \in Job /\ r.pc = "VERIFY" /\ r.mutation = m /\ r.receipt = jobs[p].receipt
  BY <1>0 DEF Carries, GoOn, MutationTypeOK, Job, Places, Receipted
<1> HIDE DEF r
<1>7. jobs' \in [Jobs -> Job] /\ jobs'[p] = r /\ \A q \in Jobs \ {p} : jobs'[q] = jobs[q]
  BY <1>0, <1>6, CarriedJobs
<1>8. MutationTypeOK'
  BY <1>0, <1>5, <1>7 DEF MutationTypeOK
<1>9. Sound(p)'
  BY <1>0, <1>6, <1>7
     DEF Sound, HoldsReceipt, MayAcquire, MayLand, HasLanded, MayRelease, Receipted, Committed, Own
<1>10. ASSUME NEW q \in Jobs, q # p
       PROVE  Sound(q)'
  <2>1. jobs'[q] = jobs[q] /\ Sound(q)
    BY <1>7, <1>10 DEF MutationInv, JobsAreSound
  <2>2. HoldsReceipt(q)' /\ MayRelease(q)' /\ MayAcquire(q)'
    <3>1. HoldsReceipt(q)'
      BY <2>1 DEF Sound, HoldsReceipt, Own
    <3>2. MayRelease(q)'
      BY <2>1 DEF Sound, MayRelease, Released
    <3>3. MayAcquire(q)'
      BY <2>1 DEF Sound, MayAcquire, Own, Acquired, Open, Live
    <3> QED
      BY <3>1, <3>2, <3>3
  <2>3. HasLanded(q)'
    BY <1>5, <2>1 DEF Sound, HasLanded
  <2>4. MayLand(q)'
    <3>1. ASSUME jobs[q].pc # "IDLE"
          PROVE  Len(target') # requests[jobs[q].mutation].pred
      <4>1. jobs[q].mutation \in Mutations /\ requests[jobs[q].mutation].made
        BY <1>0, <2>1, <3>1 DEF Sound, MutationTypeOK, Job
      <4>2. requests[jobs[q].mutation].pred <= n /\ requests[jobs[q].mutation].pred \in Nat
        BY <1>0, <4>1 DEF MutationInv, RequestsAreBehind, MutationTypeOK
      <4> QED
        BY <1>0, <1>5, <4>2
    <3> QED
      BY <2>1, <3>1 DEF Sound, MayLand
  <2> QED
    BY <2>1, <2>2, <2>3, <2>4 DEF Sound
<1>11. RequestsAreBehind'
  <2>1. \A k \in Mutations : requests[k].pred \in Nat
    BY <1>0 DEF MutationTypeOK
  <2> QED
    BY <1>0, <1>5, <2>1 DEF MutationInv, RequestsAreBehind
<1>12. CommitsAreAsked'
  BY <1>0, <1>1, <1>5 DEF MutationInv, CommitsAreAsked, c
<1>13. EventsAreTrue'
  BY <1>5 DEF MutationInv, EventsAreTrue
<1>14. (LeasesAreWhole /\ LeasesHaveBegun)'
  BY DEF MutationInv, LeasesAreWhole, LeasesHaveBegun, Live
<1>15. TrailersNameLeases'
  <2> SUFFICES ASSUME Timely, NEW i \in Landed', NEW f \in PathsOf[target'[i].by]
               PROVE  /\ target'[i].lease[f] <= leases[f].epoch
                      /\ target'[i].lease[f] = leases[f].epoch =>
                           /\ leases[f].since <= target'[i].at /\ target'[i].at < leases[f].until
                           /\ leases[f].holder = target'[i].by
                           /\ leases[f].state = "HELD" => clock < leases[f].until
    BY DEF TrailersNameLeases
  <2>1. CASE i \in Landed
    BY <1>5, <2>1 DEF MutationInv, TrailersNameLeases
  <2>2. CASE i = n + 1
    <3>1. target'[i] = c /\ f \in PathsOf[m] /\ f \in Files
      BY <1>0, <1>5, <2>2 DEF c
    <3>2. /\ leases[f] = jobs[p].receipt[f]
          /\ clock < leases[f].until /\ leases[f].since <= jobs[p].now
      BY <1>1, <3>1
    <3>3. leases[f].holder = m /\ c.lease[f] = leases[f].epoch
      BY <1>1, <1>2, <3>1, <3>2 DEF Own
    <3>4. leases[f].epoch \in Nat /\ leases[f].until \in Nat /\ clock \in Nat
      BY <1>0, <3>1 DEF MutationTypeOK, Register, Lease
    <3>5. c.by = m /\ c.at = jobs[p].now
      BY DEF c
    <3>a. jobs[p].now <= clock /\ jobs[p].now \in Nat
      BY <1>0, <1>1
    <3>6. jobs[p].now < leases[f].until
      BY <3>2, <3>4, <3>a
    <3>7. target'[i].lease[f] <= leases[f].epoch
      <4>1. target'[i].lease[f] = leases[f].epoch
        BY <3>1, <3>3
      <4>2. leases[f].epoch <= leases[f].epoch
        BY <3>4
      <4> QED
        BY <4>1, <4>2
    <3> QED
      BY <3>1, <3>2, <3>3, <3>5, <3>6, <3>7
  <2> QED
    BY <1>5, <2>1, <2>2
<1>16. EventsAreInTime'
  <2>1. ASSUME Timely
        PROVE  EventsPassTheAudit'
    BY <1>5, <2>1
       DEF MutationInv, EventsAreInTime, EventsPassTheAudit, EventsAreTrue, LeaseEventProof
  <2>2. ASSUME Timely
        PROVE  EveryTrailerHasItsEvent'
    <3>1. \A f \in PathsOf[m] : leases[f].state = "HELD" /\ leases[f].holder = m
                                 /\ leases[f].epoch = c.lease[f]
      BY <1>1, <1>2, <2>2 DEF Own
    <3> QED
      BY <1>5, <2>2, <3>1 DEF MutationInv, EventsAreInTime, EveryTrailerHasItsEvent, c
  <2> QED
    BY <2>1, <2>2 DEF EventsAreInTime
<1> QED
  BY <1>7, <1>8, <1>9, <1>10, <1>11, <1>12, <1>13, <1>14, <1>15, <1>16 DEF MutationInv, JobsAreSound

LEMMA UpdateTargetKeeps ==
  ASSUME MutationInv, NEW p \in Jobs, UpdateTarget(p)
  PROVE  MutationInv'
<1> DEFINE r == [jobs[p] EXCEPT !.pc = "VERIFY"]
<1>0. jobs \in [Jobs -> Job] /\ jobs[p] \in Job /\ Sound(p) /\ Stands(p, "UPDATE")
      /\ UNCHANGED <<authority, requests, leases, events, clock>>
  BY DEF MutationInv, MutationTypeOK, JobsAreSound, UpdateTarget
<1>1. CASE target' = target /\ GiveUp(p)
  BY <1>0, <1>1, GivingUp DEF shared
<1>2. CASE target' = target /\ GoOn(p, "VERIFY")
  <2>1. Carries(p, r) /\ UNCHANGED shared /\ jobs[p].pc = "UPDATE"
    BY <1>0, <1>2 DEF Carries, GoOn, shared, Stands
  <2>2. r \in Job /\ r.pc = "VERIFY" /\ r.mutation = jobs[p].mutation /\ r.receipt = jobs[p].receipt
    BY <1>0 DEF Job, Places, Receipted
  <2> HIDE DEF r
  <2>3. jobs'[p] = r
    BY <2>1, <2>2, CarriedJobs DEF MutationInv
  <2>4. Sound(p)'
    BY <1>0, <2>1, <2>2, <2>3
       DEF shared, Sound, HoldsReceipt, MayAcquire, MayLand, HasLanded, MayRelease, Receipted,
           Committed, Own
  <2> QED
    BY <2>1, <2>2, <2>4, QuietStep
<1>3. CASE ~(target' = target)
  BY <1>0, <1>3, LandingKeeps DEF UpdateTarget, IsForward
<1> QED
  BY <1>1, <1>2, <1>3 DEF UpdateTarget

\* The register takes the release of mutation m's leases with their events: of a commit that
\* is on the branch, so that no other run of m can land one.
LEMMA ReleasingKeeps ==
  ASSUME MutationInv, NEW p \in Jobs, NEW r \in Job, jobs[p].pc = "RELEASE_SWAP",
         leases = jobs[p].seen, leases' = jobs[p].wrote, Carries(p, r), Sound(p)',
         events' = IF leases' = leases THEN events
                   ELSE events \union ReleaseEvents(jobs[p].mutation, jobs[p].receipt,
                                                    jobs[p].result, jobs[p].now),
         UNCHANGED <<target, authority, requests, clock>>
  PROVE  MutationInv'
<1> DEFINE m == jobs[p].mutation
           receipt == jobs[p].receipt
           result == jobs[p].result
           made == ReleaseEvents(m, receipt, result, jobs[p].now)
<1>0. /\ MutationTypeOK /\ m \in Mutations /\ PathsOf[m] \subseteq Files /\ result \in Nat
      /\ jobs[p].now \in Nat /\ requests[m].pred \in Nat /\ Sound(p) /\ leases \in Register
  BY MutationAssumption DEF MutationInv, MutationTypeOK, Job, JobsAreSound
<1>1. /\ receipt \in [PathsOf[m] -> Lease] /\ \A f \in PathsOf[m] : Own(receipt[f], m)
      /\ result \in Landed /\ result = requests[m].pred + 1 /\ target[result].by = m
      /\ \A f \in PathsOf[m] : target[result].lease[f] = receipt[f].epoch
      /\ target[result].at <= jobs[p].now
  BY <1>0 DEF Sound, HoldsReceipt, HasLanded, Receipted, Committed
<1>2. /\ leases' = Released(leases, m, result) /\ leases' \in Register
      /\ \A f \in PathsOf[m] : leases[f] = receipt[f]
  <2>1. /\ leases' = Released(leases, m, result)
        /\ \A f \in PathsOf[m] : leases[f] = receipt[f]
    <3>1. MayRelease(p)
      BY ONLY <1>0 DEF Sound
    <3> QED
      BY ONLY <3>1, jobs[p].pc = "RELEASE_SWAP", leases = jobs[p].seen, leases' = jobs[p].wrote
         DEF MayRelease
  <2> QED
    BY <1>0, <2>1, ReleasedIsRegister
<1>3. \A f \in PathsOf[m] : /\ leases[f].state = "HELD" /\ leases[f].holder = m
                             /\ leases[f].pred = requests[m].pred
                             /\ leases[f].epoch = receipt[f].epoch
  BY <1>1, <1>2 DEF Own
<1>4. \A f \in Files : f \notin PathsOf[m] => leases'[f] = leases[f]
  BY <1>2 DEF Released
<1>5. \A f \in PathsOf[m] : leases'[f].state = "RELEASED"
  BY <1>0, <1>2 DEF Released, Register, Lease
<1>6. \A f \in Files : /\ leases'[f].holder = leases[f].holder /\ leases'[f].epoch = leases[f].epoch
                       /\ leases'[f].since = leases[f].since /\ leases'[f].until = leases[f].until
  <2> SUFFICES ASSUME NEW f \in Files, f \in PathsOf[m]
               PROVE  /\ leases'[f].holder = leases[f].holder /\ leases'[f].epoch = leases[f].epoch
                      /\ leases'[f].since = leases[f].since /\ leases'[f].until = leases[f].until
    BY <1>4
  <2>1. leases'[f] = [leases[f] EXCEPT !.state = "RELEASED", !.result = result]
    BY <1>2 DEF Released
  <2>2. leases[f] \in Lease
    BY <1>0 DEF Register
  <2> QED
    BY <2>1, <2>2 DEF Lease
<1>7. /\ events' \subseteq events \union made /\ events \subseteq events'
      /\ PathsOf[m] # {} => events' = events \union made
  BY <1>3, <1>5
<1>8. \A e \in made : \E f \in PathsOf[m] :
        e = [by |-> m, path |-> f, epoch |-> receipt[f].epoch, pred |-> receipt[f].pred,
             result |-> result, since |-> receipt[f].since, until |-> receipt[f].until,
             released |-> jobs[p].now]
  BY DEF ReleaseEvents
<1>9. \A f \in PathsOf[m] : \E e \in made : e.by = m /\ e.path = f /\ e.result = result
  <2> SUFFICES ASSUME NEW f \in PathsOf[m]
               PROVE  \E e \in made : e.by = m /\ e.path = f /\ e.result = result
    OBVIOUS
  <2> DEFINE e == [by |-> m, path |-> f, epoch |-> receipt[f].epoch, pred |-> receipt[f].pred,
                   result |-> result, since |-> receipt[f].since, until |-> receipt[f].until,
                   released |-> jobs[p].now]
  <2>1. e \in made
    BY DEF ReleaseEvents
  <2> QED
    BY <2>1
<1> HIDE DEF made
<1>10. MutationTypeOK'
  <2>1. made \subseteq Event
    <3> SUFFICES ASSUME NEW e \in made
                 PROVE  e \in Event
      OBVIOUS
    <3>1. PICK f \in PathsOf[m] :
            e = [by |-> m, path |-> f, epoch |-> receipt[f].epoch, pred |-> receipt[f].pred,
                 result |-> result, since |-> receipt[f].since, until |-> receipt[f].until,
                 released |-> jobs[p].now]
      BY <1>8
    <3>2. receipt[f] \in Lease /\ f \in Files
      BY <1>0, <1>1
    <3> QED
      BY <1>0, <3>1, <3>2 DEF Event, Lease
  <2> QED
    BY <1>0, <1>2, <1>7, <2>1, CarriedJobs DEF MutationTypeOK
<1>11. ASSUME NEW q \in Jobs, q # p
       PROVE  Sound(q)'
  <2> DEFINE n == jobs[q].mutation
  <2>0. jobs'[q] = jobs[q] /\ Sound(q)
    BY <1>0, <1>11, CarriedJobs DEF MutationInv, JobsAreSound
  <2>1. n \in Mutations /\ PathsOf[n] \subseteq Files
    BY <1>0, MutationAssumption DEF MutationTypeOK, Job
  <2>2. HoldsReceipt(q)' /\ HasLanded(q)'
    BY <2>0 DEF Sound, HoldsReceipt, HasLanded, Own, Landed
  <2>3. MayRelease(q)'
    <3>1. MayRelease(q) /\ jobs'[q] = jobs[q]
      BY <2>0 DEF Sound
    <3> QED
      BY <3>1 DEF MayRelease
  <2>4. MayAcquire(q)'
    BY <2>0 DEF Sound, MayAcquire, Own, Acquired, Open, Live
  <2>5. MayLand(q)'
    <3>1. ASSUME Timely, Len(target) = requests[n].pred,
                 jobs[q].pc = "UPDATE" \/ (jobs[q].pc = "EXECUTE" /\ ~jobs[q].replay),
                 NEW f \in PathsOf[n]
          PROVE  leases'[f] = leases[f]
      <4>1. leases[f].holder = n
        <5>1. MayLand(q) /\ HoldsReceipt(q)
          BY ONLY <2>0 DEF Sound
        <5>2. leases[f] = jobs[q].receipt[f] /\ Own(jobs[q].receipt[f], n)
          BY ONLY <3>1, <5>1 DEF MayLand, HoldsReceipt, Receipted
        <5> QED
          BY ONLY <5>2 DEF Own
      <4>2. n # m
        BY <1>0, <1>1, <3>1 DEF Landed
      <4> QED
        BY <1>3, <1>4, <2>1, <4>1, <4>2
    <3> QED
      BY <2>0, <3>1 DEF Sound, MayLand
  <2> QED
    BY <2>0, <2>2, <2>3, <2>4, <2>5 DEF Sound
<1>12. LeasesAreWhole'
  <2> SUFFICES ASSUME NEW n \in Mutations, NEW f \in Files,
                      leases'[f].holder = n, Live(leases'[f], clock)
               PROVE  /\ f \in PathsOf[n]
                      /\ \A g \in PathsOf[n] : leases'[g].state = "HELD" /\ leases'[g].holder = n
                                                /\ leases'[g].until = leases'[f].until
    BY DEF LeasesAreWhole, Live
  <2>1. f \notin PathsOf[m] /\ leases'[f] = leases[f]
    BY <1>4, <1>5 DEF Live
  <2>2. /\ f \in PathsOf[n]
        /\ \A g \in PathsOf[n] : leases[g].state = "HELD" /\ leases[g].holder = n
                                  /\ leases[g].until = leases[f].until
    BY <2>1 DEF MutationInv, LeasesAreWhole
  <2>3. PathsOf[n] \subseteq Files
    BY MutationAssumption
  <2>4. \A g \in PathsOf[n] : g \notin PathsOf[m]
    BY <1>3, <2>1, <2>2
  <2> QED
    BY <1>4, <2>1, <2>2, <2>3, <2>4
<1>13. LeasesHaveBegun'
  BY <1>6 DEF MutationInv, LeasesHaveBegun
<1>14. TrailersNameLeases'
  <2> SUFFICES ASSUME Timely, NEW i \in Landed, NEW f \in PathsOf[target[i].by]
               PROVE  /\ target[i].lease[f] <= leases'[f].epoch
                      /\ target[i].lease[f] = leases'[f].epoch =>
                           /\ leases'[f].since <= target[i].at /\ target[i].at < leases'[f].until
                           /\ leases'[f].holder = target[i].by
                           /\ leases'[f].state = "HELD" => clock < leases'[f].until
    BY DEF TrailersNameLeases, Landed
  <2>1. f \in Files
    BY <1>0, LandedType
  <2>2. leases'[f].state = "HELD" => leases[f].state = "HELD"
    BY ONLY <1>4, <1>5, <2>1
  <2> QED
    BY <1>6, <2>1, <2>2 DEF MutationInv, TrailersNameLeases
<1>15. EventsAreTrue'
  <2> SUFFICES ASSUME NEW e \in made
               PROVE  /\ e.result \in Landed /\ e.pred = e.result - 1
                      /\ target[e.result].by = e.by /\ target[e.result].lease[e.path] = e.epoch
    BY <1>7 DEF MutationInv, EventsAreTrue, Landed
  <2>1. PICK f \in PathsOf[m] :
          e = [by |-> m, path |-> f, epoch |-> receipt[f].epoch, pred |-> receipt[f].pred,
               result |-> result, since |-> receipt[f].since, until |-> receipt[f].until,
               released |-> jobs[p].now]
    BY <1>8
  <2>2. /\ e.by = m /\ e.path = f /\ e.epoch = receipt[f].epoch
        /\ e.pred = receipt[f].pred /\ e.result = result
    BY ONLY <2>1
  <2>3. receipt[f].pred = requests[m].pred
    BY ONLY <1>1 DEF Own
  <2>4. result = requests[m].pred + 1 /\ result - 1 = requests[m].pred
    BY ONLY <1>0, <1>1
  <2> QED
    BY ONLY <1>1, <2>2, <2>3, <2>4
<1>16. EventsAreInTime'
  <2>1. ASSUME Timely
        PROVE  EventsPassTheAudit'
    <3> SUFFICES ASSUME NEW e \in made
                 PROVE  LeaseEventProof(e, target[e.result])
      BY <1>7, <2>1 DEF MutationInv, EventsAreInTime, EventsPassTheAudit, LeaseEventProof
    <3>1. PICK f \in PathsOf[m] :
            e = [by |-> m, path |-> f, epoch |-> receipt[f].epoch, pred |-> receipt[f].pred,
                 result |-> result, since |-> receipt[f].since, until |-> receipt[f].until,
                 released |-> jobs[p].now]
      BY <1>8
    <3>2. leases[f].since <= target[result].at /\ target[result].at < leases[f].until
      <4>1. TrailersNameLeases
        BY DEF MutationInv
      <4>2. /\ result \in Landed /\ target[result].by = m
            /\ target[result].lease[f] = leases[f].epoch
        BY ONLY <1>1, <1>2
      <4> QED
        BY ONLY <2>1, <4>1, <4>2 DEF TrailersNameLeases
    <3> QED
      BY <1>1, <1>2, <3>1, <3>2 DEF LeaseEventProof
  <2>2. ASSUME Timely
        PROVE  EveryTrailerHasItsEvent'
    <3> SUFFICES ASSUME NEW i \in Landed, NEW f \in PathsOf[target[i].by],
                        leases[f].state = "HELD", leases[f].holder = target[i].by,
                        leases[f].epoch = target[i].lease[f]
                 PROVE  \/ \E e \in events' : e.by = target[i].by /\ e.path = f /\ e.result = i
                        \/ leases'[f] = leases[f]
      BY <1>7, <2>2 DEF MutationInv, EventsAreInTime, EveryTrailerHasItsEvent, Landed
    <3>1. f \in Files
      BY <1>0, LandedType
    <3>2. CASE f \in PathsOf[m]
      <4>1. target[i].by = m
        BY <1>3, <3>2
      <4>2. i = result
        BY <1>1, <4>1 DEF MutationInv, CommitsAreAsked
      <4> QED
        BY <1>7, <1>9, <3>2, <4>1, <4>2
    <3> QED
      BY <1>4, <3>1, <3>2
  <2> QED
    BY ONLY <2>1, <2>2 DEF EventsAreInTime
<1>17. (RequestsAreBehind /\ CommitsAreAsked)'
  BY DEF MutationInv, RequestsAreBehind, CommitsAreAsked, Landed
<1> QED
  BY <1>10, <1>11, <1>12, <1>13, <1>14, <1>15, <1>16, <1>17 DEF MutationInv, JobsAreSound

\* Job p had its request for the register taken or not, and its answer or not.
LEMMA ReleaseSwapKeeps ==
  ASSUME MutationInv, NEW p \in Jobs, ReleaseSwap(p)
  PROVE  MutationInv'
<1> DEFINE lost == [jobs[p] EXCEPT !.pc = "RELEASE_SWAP_LOST", !.seen = << >>]
<1>0. /\ jobs[p].pc = "RELEASE_SWAP" /\ UNCHANGED <<target, authority, requests, clock>>
      /\ events' = IF leases' = leases THEN events
                   ELSE events \union ReleaseEvents(jobs[p].mutation, jobs[p].receipt,
                                                    jobs[p].result, jobs[p].now)
  BY DEF ReleaseSwap, Stands, Mutation
<1>1. \/ leases = jobs[p].seen /\ leases' = jobs[p].wrote /\ Carries(p, IdleJob)
      \/ leases = jobs[p].seen /\ leases' = jobs[p].wrote /\ Carries(p, lost)
      \/ leases' = leases /\ Carries(p, lost)
  BY DEF ReleaseSwap, Swap, Carries
<1>2. CASE Carries(p, lost)
  <2>1. lost \in Job /\ Sound(p)'
    BY <1>0, <1>2, ReleaseUnanswered
  <2> HIDE DEF lost
  <2>2. CASE leases' = leases
    BY <1>0, <1>2, <2>1, <2>2, QuietStep DEF shared
  <2>3. CASE leases = jobs[p].seen /\ leases' = jobs[p].wrote
    BY <1>0, <1>2, <2>1, <2>3, ReleasingKeeps
  <2> QED
    BY <1>1, <1>2, <2>2, <2>3
<1>3. CASE leases = jobs[p].seen /\ leases' = jobs[p].wrote /\ Carries(p, IdleJob)
  <2>1. IdleJob \in Job /\ Sound(p)'
    BY <1>3, IdleJobType, CarriedJobs, IdleIsSound DEF MutationInv
  <2> QED
    BY <1>0, <1>3, <2>1, ReleasingKeeps
<1> QED
  BY <1>1, <1>2, <1>3

-----------------------------------------------------------------------------
(* Theorems *)

LEMMA NextKeeps == MutationInv /\ [MutationNext]_mutationVars => MutationInv'
<1> SUFFICES ASSUME MutationInv, [MutationNext]_mutationVars
             PROVE  MutationInv'
  OBVIOUS
<1>1. CASE UNCHANGED mutationVars
  <2>1. UNCHANGED shared /\ jobs' = jobs
    BY <1>1 DEF mutationVars, shared
  <2>2. \A q \in Jobs : Sound(q)'
    BY <2>1, UndisturbedStaysSound DEF MutationInv, JobsAreSound
  <2>3. (MutationTypeOK /\ RequestsAreBehind /\ CommitsAreAsked /\ EventsAreTrue
           /\ LeasesAreWhole /\ LeasesHaveBegun)'
    BY <2>1 DEF MutationInv, shared, MutationTypeOK, RequestsAreBehind, CommitsAreAsked,
                EventsAreTrue, LeasesAreWhole, LeasesHaveBegun, Landed, Live
  <2>4. (TrailersNameLeases /\ EventsAreInTime)'
    BY <2>1 DEF MutationInv, shared, TrailersNameLeases, EventsAreInTime, EventsPassTheAudit,
                EveryTrailerHasItsEvent, LeaseEventProof, Landed
  <2> QED
    BY <2>2, <2>3, <2>4 DEF MutationInv, JobsAreSound
<1>2. ASSUME NEW m \in Mutations, SubmitRequest(m)
      PROVE  MutationInv'
  BY <1>2, SubmitRequestKeeps
<1>3. ASSUME NEW p \in Jobs, JobStep(p)
      PROVE  MutationInv'
  BY <1>3, ObserveTargetKeeps, RecoverAppliedKeeps, AdmitAuthorityKeeps, AcquireBeginKeeps,
     AcquireReadKeeps, AcquireSwapKeeps, AcquireLostKeeps, RequireAuthorityKeeps,
     CreateCommitKeeps, UpdateTargetKeeps, VerifyRefKeeps, ReleaseBeginKeeps, ReleaseReadKeeps,
     ReleaseSwapKeeps, ReleaseLostKeeps DEF JobStep
<1>4. ASSUME NEW p \in Jobs, NEW m \in Mutations, StartJob(p, m)
      PROVE  MutationInv'
  BY <1>4, StartJobKeeps
<1>5. ASSUME NEW p \in Jobs, CrashJob(p)
      PROVE  MutationInv'
  BY <1>5, CrashJobKeeps
<1> QED
  BY <1>1, <1>2, <1>3, <1>4, <1>5, PublishAuthorityKeeps, TickKeeps DEF MutationNext

\* In time, a commit lands under the leases of its own mutation.
LEMMA LandsUnderOwnLeases ==
  ASSUME Timely, MutationInv, [MutationNext]_mutationVars
  PROVE  LandsUnlocked
<1> SUFFICES ASSUME NEW f \in Files, Len(target') > Len(target),
                    f \in PathsOf[target'[Len(target')].by]
             PROVE  leases[f].holder = target'[Len(target')].by
  BY DEF LandsUnlocked
<1>0. MutationTypeOK /\ Len(target) \in Nat /\ target \in Seq(Commit)
  BY DEF MutationInv, MutationTypeOK
<1>1. target' # target
  BY ONLY Len(target') > Len(target), Len(target) \in Nat
<1>2. PICK p \in Jobs : UpdateTarget(p)
  BY <1>1, ZenonT(60)
     DEF MutationNext, mutationVars, shared, SubmitRequest, PublishAuthority, Tick, CrashJob,
         StartJob, JobStep, ObserveTarget, RecoverApplied, AdmitAuthority, AcquireBegin, AcquireRead,
         AcquireSwap, AcquireLost, SwapLost, RequireAuthority, CreateCommit, VerifyRef,
         ReleaseBegin, ReleaseRead, ReleaseSwap, ReleaseLost
<1> DEFINE m == jobs[p].mutation
           c == [by |-> m, lease |-> Trailers(p), at |-> jobs[p].now]
<1>3. /\ target' = Append(target, c) /\ jobs[p].pc = "UPDATE"
      /\ requests[m].pred = Len(target) /\ Sound(p)
  BY <1>1, <1>2
     DEF UpdateTarget, IsForward, Unmoved, Predecessor, Mutation, Stands, MutationInv, JobsAreSound
<1>4. target'[Len(target')] = c
  BY <1>0, <1>3
<1>5. f \in PathsOf[m] /\ target'[Len(target')].by = m
  BY <1>4
<1>6. leases[f] = jobs[p].receipt[f] /\ Own(jobs[p].receipt[f], m)
  BY <1>3, <1>5 DEF Sound, MayLand, HoldsReceipt, Receipted
<1> QED
  BY <1>5, <1>6 DEF Own

LEMMA InvIsInvariant == MutationSpec => []MutationInv
  BY InitSound, NextKeeps, PTL DEF MutationSpec

LEMMA InvIsSingle == MutationInv => MutationsAreSingle
<1> SUFFICES ASSUME MutationInv
             PROVE  MutationsAreSingle
  OBVIOUS
<1>1. AppliedAtMostOnce
  BY DEF MutationInv, CommitsAreAsked, AppliedAtMostOnce
<1>2. LiveLeasesAreWhole
  BY DEF MutationInv, LeasesAreWhole, LiveLeasesAreWhole, Live
<1> QED
  BY <1>1, <1>2 DEF MutationInv, MutationsAreSingle

\* The branch, the requests, the register, its events and every job keep their types.
THEOREM MutationTypeCorrect == MutationSpec => []MutationTypeOK
<1>1. MutationInv => MutationTypeOK
  BY DEF MutationInv
<1> QED
  BY <1>1, InvIsInvariant, PTL

\* Whatever jobs are killed, lose answers, run out of time or are started again, and whatever
\* the clock does meanwhile: a mutation is on the branch at most once, on the predecessor its
\* request names (moveRef and the replay checks of github-production-mutation.js), each lease
\* event tells the truth of its commit, and live leases come in whole sets
\* (github-system-file-lease.js).
THEOREM MutationsSingle == MutationSpec => []MutationsAreSingle
  BY InvIsInvariant, InvIsSingle, PTL

\* When every mutation ends while its leases last, each trailer on the branch has an event, or
\* leases from which a later run makes it, that the audit of system-file-lease-enforce.js
\* accepts, and no commit lands on a file under the live lease of another mutation.
THEOREM LeasesSettled ==
  ASSUME Timely
  PROVE  MutationSpec => LeasesAreSettled
<1>1. MutationInv => EveryTrailerHasItsEvent /\ EventsPassTheAudit
  BY DEF MutationInv, EventsAreInTime
<1>2. MutationInv /\ [MutationNext]_mutationVars => [LandsUnlocked]_mutationVars
  BY LandsUnderOwnLeases
<1> QED
  BY <1>1, <1>2, InvIsInvariant, PTL DEF MutationSpec, LeasesAreSettled
=============================================================================
