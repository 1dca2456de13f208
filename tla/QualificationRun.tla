---------------------------- MODULE QualificationRun ----------------------------
(***************************************************************************)
(* A qualification of one subject on the A-01 runner: the admission        *)
(* barrier (.github/scripts/a01-admission-barrier.js), the control plane   *)
(* that runs the registered wrapper (.github/scripts/a01-control-plane.js) *)
(* and the broker and executor workflows that call them, as one workflow   *)
(* run that people and GitHub may cancel, run again whole, or run again    *)
(* from what failed, while the registry on main changes.                   *)
(*                                                                         *)
(* A run is pinned to the commit it was dispatched from.  The policy is    *)
(* well formed.  The contexts normal, recovery and repair are one here:    *)
(* both programs treat them alike.                                         *)
(***************************************************************************)
EXTENDS Integers

CONSTANTS
  Qualifications,
  Registries,     \* the registries that main may hold
  Workstreams,
  Timeouts,       \* qualifier timeouts that are asked for, in minutes
  MaxTimeout,     \* policy.runtime.max_qualifier_timeout_minutes
  Windows,        \* overnight windows that are asked for
  MaxTime,
  MaxAttempts,    \* how often the run is started
  None

\* The refusals for what the registry says of a qualification, and not for how it is asked for.
OfRegistry == {"WAITING_FOR_REGISTRATION", "WORKSTREAM_MISMATCH",
               "QUALIFICATION_NOT_OVERNIGHT_ELIGIBLE", "QUALIFIER_TIMEOUT_EXCEEDS_REGISTRY"}

ASSUME QualificationAssumption ==
  /\ Timeouts \subseteq Nat /\ MaxTimeout \in Nat
  /\ \A w \in Windows : w.from \in Nat /\ w.to \in Nat
  /\ \A r \in Registries : \A id \in Qualifications : r[id] = None \/ r[id].cap \in Nat
  /\ None \notin OfRegistry

VARIABLES main, run, now

qualificationVars == <<main, run, now>>

Idle == [at |-> "IDLE", id |-> None, workstream |-> None, overnight |-> FALSE, timeout |-> 0,
         window |-> None, repair |-> FALSE, control |-> None, attempt |-> 0, refusal |-> None,
         ran |-> None, started |-> 0, fired |-> FALSE, ended |-> 0, result |-> "",
         promoted |-> FALSE, post |-> "", routed |-> FALSE]

QualificationInit == main \in Registries /\ run = Idle /\ now = 0

-----------------------------------------------------------------------------
(* Admission                                                               *)

\* Faulty: whatever main holds by now.
FaultyControl == main

\* The control plane that is checked out: the commit of the workflow.
Control == run.control
Entry == Control[run.id]

\* What loadControlState refuses; execute asserts it again.
Unfit ==
  IF Entry = None THEN "WAITING_FOR_REGISTRATION"
  ELSE IF Entry.workstream # run.workstream THEN "WORKSTREAM_MISMATCH"
  ELSE IF run.timeout > MaxTimeout THEN "INVALID_QUALIFIER_TIMEOUT"
  ELSE IF ~run.overnight THEN "FIT"
  ELSE IF ~Entry.overnight THEN "QUALIFICATION_NOT_OVERNIGHT_ELIGIBLE"
  ELSE IF run.timeout > Entry.cap THEN "QUALIFIER_TIMEOUT_EXCEEDS_REGISTRY"
  ELSE IF Entry.reboots THEN "DISRUPTIVE_QUALIFICATION_NOT_ALLOWED_OVERNIGHT"
  ELSE "FIT"

\* evaluateRemote
Verdicts ==
  IF Unfit # "FIT" THEN {Unfit}
  ELSE IF Entry.reboots THEN {"DISRUPTIVE_QUALIFICATION_REQUIRES_HOSTED_BARRIER"}
  ELSE {"SUBJECT_METADATA_READ_FAILURE",
        IF Entry.present THEN "ADMITTED" ELSE "REGISTERED_EXECUTABLE_MISSING"}

Dispatch ==
  /\ run.at = "IDLE"
  /\ \E id \in Qualifications, ws \in Workstreams, t \in Timeouts, overnight \in BOOLEAN,
        w \in Windows \union {None}, repair \in BOOLEAN :
       run' = [run EXCEPT !.at = "QUEUED", !.id = id, !.workstream = ws, !.timeout = t,
                          !.overnight = overnight, !.window = w, !.repair = repair,
                          !.control = main, !.attempt = 1]
  /\ UNCHANGED <<main, now>>

Admit ==
  /\ run.at = "QUEUED"
  /\ \E v \in Verdicts :
       run' = [run EXCEPT !.at = IF v = "ADMITTED" THEN v ELSE "REFUSED",
                          !.refusal = IF v = "ADMITTED" THEN None ELSE v]
  /\ UNCHANGED <<main, now>>

-----------------------------------------------------------------------------
(* Execution                                                               *)

End(r, result) == [r EXCEPT !.at = "DONE", !.result = result, !.ended = now]
Throw(r) == End(r, "")   \* the control plane itself ends, with no class

\* The lineage of a repair is refused, or a checkout fails.
StepFails ==
  /\ run.at \in {"ADMITTED", "GUARDED"}
  /\ run' = End(run, "")
  /\ UNCHANGED <<main, now>>

Guard ==
  /\ run.at = "ADMITTED"
  /\ run' \in {End(run, "INFRA_FAILURE"), [run EXCEPT !.at = "GUARDED"]}
  /\ UNCHANGED <<main, now>>

\* validate, which asks about every entry of the registry
ValidateRegistry ==
  /\ run.at = "GUARDED"
  /\ run' = IF \A id \in Qualifications : Control[id] = None \/ Control[id].sound
            THEN [run EXCEPT !.at = "VALID"] ELSE Throw(run)
  /\ UNCHANGED <<main, now>>

\* The assertions of execute.
Prepare ==
  /\ run.at = "VALID"
  /\ run' = IF \/ Unfit # "FIT" \/ ~Entry.present
               \/ run.overnight /\ (run.window = None \/ run.window.from >= run.window.to)
            THEN Throw(run) ELSE [run EXCEPT !.at = "WAITING"]
  /\ UNCHANGED <<main, now>>

Begin ==
  /\ run.at = "WAITING"
  /\ run.overnight => now >= run.window.from
  /\ run' = IF run.overnight /\ now + run.timeout > run.window.to
            THEN End(run, "SUBJECT_FAILURE")
            ELSE [run EXCEPT !.at = "CHILD", !.ran = Entry, !.started = now]
  /\ UNCHANGED <<main, now>>

TimerDue == run.at = "CHILD" /\ ~run.fired /\ now >= run.started + run.timeout

TimerFires ==
  /\ TimerDue
  /\ run' = [run EXCEPT !.fired = TRUE]
  /\ UNCHANGED <<main, now>>

\* The child could not be started when its code is -1.
ResultOf(code) ==
  IF run.fired THEN "SUBJECT_FAILURE"
  ELSE IF code = -1 THEN "INFRA_FAILURE"
  ELSE IF code = 0 THEN "PASS" ELSE "SUBJECT_FAILURE"

\* The receipt, with what the child asked for to be done next.
Receipt(code, marker) ==
  LET result == ResultOf(code) IN
  IF result = "PASS" /\ (marker = "OTHER" \/ (marker = "windows_reboot" /\ ~run.ran.reboots))
  THEN Throw(run)
  ELSE [End(run, result) EXCEPT
          !.promoted = result = "PASS" /\ run.ran.gate = "promotion",
          !.post = IF result = "PASS" THEN marker ELSE ""]

ChildCloses ==
  /\ run.at = "CHILD"
  /\ \E code \in {-1, 0, 1}, marker \in {"", "windows_reboot", "OTHER"} :
       run' = Receipt(code, marker)
  /\ UNCHANGED <<main, now>>

Killed == run.fired /\ ChildCloses

\* The repair broker's job.
Route ==
  /\ run.at = "DONE" /\ run.result \notin {"", "PASS"} /\ ~run.repair /\ ~run.routed
  /\ run' = [run EXCEPT !.routed = TRUE]
  /\ UNCHANGED <<main, now>>

-----------------------------------------------------------------------------
(* What happens around the run                                             *)

ChangeMain == main' \in Registries \ {main} /\ UNCHANGED <<run, now>>

Again(at) ==
  [run EXCEPT !.at = at, !.attempt = @ + 1, !.ran = None, !.started = 0, !.fired = FALSE,
              !.ended = 0, !.result = "", !.promoted = FALSE, !.post = "",
              !.routed = FALSE]

RerunAll ==
  /\ run.at \in {"DONE", "REFUSED"} /\ run.attempt < MaxAttempts
  /\ run' = Again("QUEUED")
  /\ UNCHANGED <<main, now>>

\* What admission answered stands.
RerunFailed ==
  /\ run.at = "DONE" /\ run.result # "PASS" /\ run.attempt < MaxAttempts
  /\ run' = Again("ADMITTED")
  /\ UNCHANGED <<main, now>>

Cancel ==
  /\ run.at \in {"QUEUED", "GUARDED", "VALID", "WAITING", "CHILD"}
  /\ run' = IF run.at = "QUEUED" THEN [run EXCEPT !.at = "REFUSED"] ELSE End(run, "")
  /\ UNCHANGED <<main, now>>

\* The timer of a child is on time, and runs on where the clock is bounded.
Tick ==
  /\ now < MaxTime \/ (run.at = "CHILD" /\ ~run.fired)
  /\ ~TimerDue
  /\ now' = now + 1
  /\ UNCHANGED <<main, run>>

Job == Admit \/ Guard \/ ValidateRegistry \/ Prepare \/ Begin \/ TimerFires \/ Killed
QualificationNext ==
  \/ Dispatch \/ Job \/ Tick \/ StepFails \/ ChildCloses \/ Route
  \/ ChangeMain \/ RerunAll \/ RerunFailed \/ Cancel

QualificationSpec == QualificationInit /\ [][QualificationNext]_qualificationVars

\* The jobs of a run are run, the clock goes on, and a child that is killed ends.
QualificationFairSpec ==
  /\ QualificationSpec
  /\ WF_qualificationVars(Job) /\ WF_qualificationVars(Tick)

-----------------------------------------------------------------------------
(* Properties                                                              *)

\* A child is started only from the entry that the dispatched commit registers, whatever
\* main holds when the run is admitted, executed or run again.
RunsWhatWasRegistered ==
  run.ran # None =>
    /\ run.ran = run.control[run.id] /\ run.ran.workstream = run.workstream
    /\ run.ran.present /\ run.timeout <= MaxTimeout
    /\ run.overnight => run.ran.overnight /\ run.timeout <= run.ran.cap

\* A PASS of an overnight run was reached inside its window and its budget.
PassIsInTime ==
  run.result = "PASS" =>
    /\ run.ended <= run.started + run.timeout
    /\ run.overnight => run.window.from <= run.started /\ run.ended <= run.window.to

\* Promotion is authorized only by a child that exited with 0 before its timer, for an
\* entry of the promotion class.
PromotionIsEarned ==
  run.promoted => run.result = "PASS" /\ ~run.fired /\ run.control[run.id].gate = "promotion"

\* No run of the broker restarts the machine: that needs the hosted barrier.
NoReboot == run.post # "windows_reboot"

\* A run that its registry refused is never admitted, however often it is started again
\* and whatever main holds by then.
RegistryRefusalStands ==
  [][run.refusal \in OfRegistry => run'.refusal = run.refusal /\ run'.at # "ADMITTED"]_qualificationVars

\* Qualification runs: a child is started only from the entry that the dispatched commit
\* registers, whatever main holds when; an overnight PASS lies inside its window and its
\* budget; promotion is authorized by a child that exited with 0 before its timer; the
\* broker restarts no machine; and what a commit's registry refuses is refused in every
\* attempt of the run.
VerdictsAreEarned ==
  /\ [](RunsWhatWasRegistered /\ PassIsInTime /\ PromotionIsEarned /\ NoReboot)
  /\ RegistryRefusalStands

\* Every run that is queued comes to an end: a child that hangs is killed.
RunConcludes == run.at = "QUEUED" ~> run.at \in {"DONE", "REFUSED"}
=============================================================================
