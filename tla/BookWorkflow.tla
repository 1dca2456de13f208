----------------------------- MODULE BookWorkflow -----------------------------
(***************************************************************************)
(* A Book workflow: its sealed state and the transitions it may make, the  *)
(* plan bound to it, pausing, cancelling and resuming it, and the decision *)
(* whether an operation of a provider may be repeated                      *)
(* (system-master/book-system/book-workflow-state-model.js,                *)
(* -cancellation-resume.js, -retry-idempotency-rules.js).                  *)
(*                                                                         *)
(* The library holds no state of its own: a caller passes the workflow, a  *)
(* plan, a checkpoint.  Here there is one caller, which carries out the    *)
(* tasks in the order of the plan's dependencies, stops and resumes with   *)
(* the library's operations only, and repeats an operation only when       *)
(* deriveRetryDecision says so; providers are outside the code.  Digests   *)
(* bind a plan, a checkpoint and an operation to one state of the workflow *)
(* and each state has a version of its own, so the version stands for the  *)
(* digest.  The routing and service registries are given.                  *)
(***************************************************************************)
EXTENDS Naturals, FiniteSets

CONSTANTS
  Tasks,        \* tasks of the plan
  Plannings,    \* the classes of the tasks in the plans that are carried out
  Needs,        \* Needs[t]: required dependencies
  Idempotent,   \* specialist tasks whose operation is registered idempotent
  MaxVersion    \* bound on workflow versions

Terminal == {"COMPLETED_NO_CHANGE", "COMPLETED_ADMITTED", "FAILED_CLOSED", "CANCELLED",
             "SUPERSEDED"}

Stopping == {"PAUSED", "CANCELLED", "FAILED_CLOSED", "SUPERSEDED"}

\* STATUS_TRANSITIONS, of the statuses that a workflow may leave and of all
OpenTransitions ==
  [CREATED |-> {"PLANNING"} \union (Stopping \ {"PAUSED"}),
   PLANNING |-> {"READY", "WAITING_EVIDENCE", "WAITING_AUTHOR"} \union Stopping,
   READY |-> {"RUNNING"} \union Stopping,
   RUNNING |-> {"WAITING_SPECIALIST", "WAITING_EVIDENCE", "WAITING_AUTHOR",
                "READY_FOR_ADMISSION_HANDOFF", "COMPLETED_NO_CHANGE"} \union Stopping,
   WAITING_SPECIALIST |-> {"RUNNING", "WAITING_EVIDENCE"} \union Stopping,
   WAITING_EVIDENCE |-> {"RUNNING", "WAITING_AUTHOR", "READY_FOR_ADMISSION_HANDOFF"}
                          \union Stopping,
   WAITING_AUTHOR |-> {"RUNNING", "READY_FOR_ADMISSION_HANDOFF", "COMPLETED_NO_CHANGE"}
                        \union Stopping,
   READY_FOR_ADMISSION_HANDOFF |-> {"ADMISSION_PENDING", "COMPLETED_NO_CHANGE"}
                                     \union (Stopping \ {"PAUSED"}),
   ADMISSION_PENDING |-> {"COMPLETED_ADMITTED", "FAILED_CLOSED", "SUPERSEDED"},
   PAUSED |-> {"PLANNING", "READY", "RUNNING", "WAITING_SPECIALIST", "WAITING_EVIDENCE",
               "WAITING_AUTHOR"} \union (Stopping \ {"PAUSED"})]

WorkflowStatuses == Terminal \union DOMAIN OpenTransitions

Transitions == [s \in WorkflowStatuses |-> IF s \in Terminal THEN {} ELSE OpenTransitions[s]]

Pausable == {"PLANNING", "READY", "RUNNING", "WAITING_SPECIALIST", "WAITING_EVIDENCE",
             "WAITING_AUTHOR"}

Cancellable == Pausable \union {"CREATED", "READY_FOR_ADMISSION_HANDOFF", "PAUSED"}

VARIABLES
  taskClass,   \* taskClass[t]: the class that the plan gives t
  workflow,    \* version, status, tasks and checkpoint_ref (the version it was made at)
  plan,        \* the workflow version the plan is bound to, 0 without a plan
  checkpoint,  \* the last checkpoint
  source,      \* FALSE once Book's source is no longer the one the workflow has
  operation,   \* operation[t]: the version its last identity is bound to, 0 if none
  provider,    \* provider[t]: what became of that operation
  performed    \* performed[t]: how often its effect happened

workflowVars == <<taskClass, workflow, plan, checkpoint, source, operation, provider, performed>>
external == <<source, operation, provider, performed>>

NoCheckpoint == [class |-> "NONE", pre |-> 0, post |-> 0, status |-> "CREATED",
                 verified |-> {}, interrupted |-> {}]

WorkflowInit ==
  /\ taskClass \in Plannings
  /\ workflow = [version |-> 1, status |-> "CREATED",
                 tasks |-> [t \in Tasks |-> "PLANNED"], checkpoint |-> 0]
  /\ plan = 0
  /\ checkpoint = NoCheckpoint
  /\ source = TRUE
  /\ operation = [t \in Tasks |-> 0]
  /\ provider = [t \in Tasks |-> "IDLE"]
  /\ performed = [t \in Tasks |-> 0]

-----------------------------------------------------------------------------
(* The state model                                                         *)

\* Status stays or makes a legal transition; every advance is a new version.
AdvanceWorkflowState(status, tasks, ref) ==
  /\ workflow.status \notin Terminal
  /\ status \in Transitions[workflow.status] \union {workflow.status}
  /\ workflow.version < MaxVersion
  /\ workflow' = [version |-> workflow.version + 1, status |-> status,
                  tasks |-> tasks, checkpoint |-> ref]

AdvanceTasks(tasks) == AdvanceWorkflowState(workflow.status, tasks, workflow.checkpoint)

PlanCurrent == plan = workflow.version

CreateExecutionPlan ==
  /\ ~PlanCurrent
  /\ plan' = workflow.version
  /\ UNCHANGED <<workflow, checkpoint, external>>

\* The caller moves the workflow on; it stops and resumes with the operations below.
AdvanceStatus(status) ==
  /\ status \notin {workflow.status, "PAUSED", "CANCELLED"}
  /\ workflow.status = "PAUSED" => status \in Terminal
  /\ AdvanceWorkflowState(status, workflow.tasks, workflow.checkpoint)
  /\ UNCHANGED <<plan, checkpoint, external>>

-----------------------------------------------------------------------------
(* Stopping                                                                *)

Running == {t \in Tasks : workflow.tasks[t] = "RUNNING"}

\* What is not proved to be finished is blocked by a pause, cancelled by a cancellation.
AdjustedForStop(verified, cancel) ==
  [t \in Tasks |->
     LET status == workflow.tasks[t]
         unproven == status = "COMPLETED" /\ t \notin verified
     IN  IF cancel
         THEN IF status \notin {"COMPLETED", "FAILED", "SUPERSEDED"} \/ unproven
              THEN "CANCELLED" ELSE status
         ELSE IF status = "RUNNING" \/ unproven THEN "BLOCKED" ELSE status]

\* verified: tasks with a receipt for this state of the workflow and this plan.
Stop(class, status, verified) ==
  /\ PlanCurrent
  /\ source
  /\ \A t \in Running : taskClass[t] # "HANDOFF"
  /\ \A t \in verified : workflow.tasks[t] = "COMPLETED"
  /\ AdvanceWorkflowState(status, AdjustedForStop(verified, status = "CANCELLED"),
                          workflow.version)
  /\ checkpoint' = [class |-> class, pre |-> workflow.version, post |-> workflow.version + 1,
                    status |-> workflow.status, verified |-> verified,
                    interrupted |-> Running]
  /\ UNCHANGED <<plan, external>>

PauseWorkflow(verified) ==
  workflow.status \in Pausable /\ Stop("PAUSE", "PAUSED", verified)

CancelWorkflow(verified) ==
  workflow.status \in Cancellable /\ Stop("CANCEL", "CANCELLED", verified)

-----------------------------------------------------------------------------
(* Resuming                                                                *)

\* classifyInterruptedTask
Classify(t) ==
  CASE taskClass[t] = "SPECIALIST" /\ t \in Idempotent -> "READY_FOR_LATER_SCHEDULING"
    [] taskClass[t] = "SPECIALIST" -> "WAITING_FOR_RECONCILIATION"
    [] taskClass[t] = "WAIT" -> "WAITING_FOR_REQUIRED_AUTHORITY"
    [] OTHER -> "BLOCKED_DECLARED_INTERFACE"

Dispositions == {Classify(t) : t \in checkpoint.interrupted}

Recommended ==
  CASE "WAITING_FOR_RECONCILIATION" \in Dispositions -> "WAITING_EVIDENCE"
    [] /\ "WAITING_FOR_RECONCILIATION" \notin Dispositions
       /\ "WAITING_FOR_REQUIRED_AUTHORITY" \in Dispositions -> "WAITING_AUTHOR"
    [] Dispositions \intersect {"WAITING_FOR_RECONCILIATION", "WAITING_FOR_REQUIRED_AUTHORITY"} = {}
       /\ "BLOCKED_DECLARED_INTERFACE" \in Dispositions -> "WAITING_SPECIALIST"
    [] OTHER -> IF \/ checkpoint.interrupted # {}
                   \/ checkpoint.status \in {"RUNNING", "WAITING_SPECIALIST"}
                THEN "READY" ELSE checkpoint.status

\* validateCheckpoint: it was made by the advance that led to this very state.  The
\* caller has kept the plan that was stopped, whose version is checkpoint.pre.
CheckpointValid ==
  /\ checkpoint.post = workflow.version
  /\ checkpoint.pre = workflow.checkpoint
  /\ checkpoint.class = IF workflow.status = "PAUSED" THEN "PAUSE" ELSE "CANCEL"

ResumeAllowed == CheckpointValid /\ workflow.status = "PAUSED" /\ source

ResumeWorkflow ==
  /\ ResumeAllowed
  /\ AdvanceWorkflowState(
       Recommended,
       [t \in Tasks |-> IF t \in checkpoint.interrupted
                        THEN IF Classify(t) = "READY_FOR_LATER_SCHEDULING" THEN "READY" ELSE "BLOCKED"
                        ELSE workflow.tasks[t]],
       workflow.checkpoint)
  /\ UNCHANGED <<plan, checkpoint, external>>

-----------------------------------------------------------------------------
(* Retry decisions                                                         *)

\* What a truthful caller can say of an operation whose result it does not have.
Reconciliation(t) ==
  IF t \in Idempotent THEN {"NOT_APPLICABLE"}
  ELSE {"NOT_PERFORMED", "UNRESOLVED"} \union
       CASE provider[t] = "DONE" -> {"CONFIRMED_EXISTING_RESULT"}
         [] provider[t] = "LOST" -> {"CONFIRMED_NO_EFFECT"}
         [] OTHER -> {}

\* Faulty: what was looked for and not found may be tried again.
FaultyProviderDecision(t, state) ==
  CASE t \in Idempotent -> "SAFE_SAME_OPERATION_REPLAY"
    [] state \in {"CONFIRMED_NO_EFFECT", "UNRESOLVED"} -> "NEW_ATTEMPT_AFTER_CONFIRMED_NO_EFFECT"
    [] state = "CONFIRMED_EXISTING_RESULT" -> "REUSE_OR_REVIEW_EXISTING_RESULT"
    [] OTHER -> "RECONCILE_REQUIRED"

\* classifyProviderDecision for an outcome that is not a confirmed success.
ProviderDecision(t, state) ==
  CASE t \in Idempotent -> "SAFE_SAME_OPERATION_REPLAY"
    [] state = "CONFIRMED_NO_EFFECT" -> "NEW_ATTEMPT_AFTER_CONFIRMED_NO_EFFECT"
    [] state = "CONFIRMED_EXISTING_RESULT" -> "REUSE_OR_REVIEW_EXISTING_RESULT"
    [] OTHER -> "RECONCILE_REQUIRED"

\* With the identity of the earlier operation, it must be bound to the same state.
RetryDecision(t, state, withPrior) ==
  CASE withPrior /\ operation[t] # workflow.version -> "NEW_OPERATION_REQUIRED_CHANGED_INPUTS"
    [] taskClass[t] = "HANDOFF" -> "BOOK_ADMISSION_RETRY_NOT_AUTHORIZED"
    [] taskClass[t] # "SPECIALIST" -> "NOT_EXECUTABLE_BY_RETRY_POLICY"
    [] OTHER -> ProviderDecision(t, state)

\* The caller asks for a decision about an operation it started and acts on it.
DeriveRetryDecision(t, state, withPrior) ==
  /\ PlanCurrent
  /\ workflow.status \in {"RUNNING", "WAITING_SPECIALIST", "WAITING_EVIDENCE"}
  /\ workflow.tasks[t] \in {"RUNNING", "BLOCKED", "FAILED"}
  /\ operation[t] # 0
  /\ state \in Reconciliation(t)
  /\ LET decision == RetryDecision(t, state, withPrior)
     IN  \/ /\ decision \in {"SAFE_SAME_OPERATION_REPLAY", "NEW_ATTEMPT_AFTER_CONFIRMED_NO_EFFECT"}
            /\ AdvanceTasks([workflow.tasks EXCEPT ![t] = "READY"])
         \/ /\ decision = "REUSE_OR_REVIEW_EXISTING_RESULT"
            /\ AdvanceTasks([workflow.tasks EXCEPT ![t] = "COMPLETED"])
  /\ UNCHANGED <<plan, checkpoint, external>>

-----------------------------------------------------------------------------
(* The caller and its providers                                            *)

StartTask(t) ==
  /\ workflow.status = "RUNNING"
  /\ workflow.tasks[t] \in {"PLANNED", "READY"}
  /\ \A d \in Needs[t] : workflow.tasks[d] = "COMPLETED"
  /\ AdvanceTasks([workflow.tasks EXCEPT ![t] = "RUNNING"])
  /\ operation' = [operation EXCEPT ![t] = 0]
  /\ UNCHANGED <<plan, checkpoint, source, provider, performed>>

\* buildOperationIdentity, and the call: one for every start of the task.
CallProvider(t) ==
  /\ taskClass[t] = "SPECIALIST"
  /\ workflow.tasks[t] = "RUNNING"
  /\ PlanCurrent
  /\ operation[t] = 0
  /\ operation' = [operation EXCEPT ![t] = workflow.version]
  /\ provider' = [provider EXCEPT ![t] = "CALLED"]
  /\ UNCHANGED <<workflow, plan, checkpoint, source, performed>>

\* The effect happens, or the call ends without one.
ProviderActs(t) ==
  /\ provider[t] = "CALLED"
  /\ \/ /\ provider' = [provider EXCEPT ![t] = "DONE"]
        /\ performed' = [performed EXCEPT ![t] = @ + 1]
     \/ /\ provider' = [provider EXCEPT ![t] = "LOST"]
        /\ UNCHANGED performed
  /\ UNCHANGED <<workflow, plan, checkpoint, source, operation>>

\* The result, or the failure, reaches the caller.
FinishTask(t) ==
  /\ workflow.tasks[t] = "RUNNING"
  /\ \/ /\ taskClass[t] = "SPECIALIST" => operation[t] # 0 /\ provider[t] = "DONE"
        /\ AdvanceTasks([workflow.tasks EXCEPT ![t] = "COMPLETED"])
     \/ /\ taskClass[t] = "SPECIALIST" /\ operation[t] # 0 /\ provider[t] = "LOST"
        /\ AdvanceTasks([workflow.tasks EXCEPT ![t] = "FAILED"])
  /\ UNCHANGED <<plan, checkpoint, external>>

SourceChanges ==
  /\ source' = FALSE
  /\ UNCHANGED <<workflow, plan, checkpoint, operation, provider, performed>>

WorkflowNext ==
  /\ \/ CreateExecutionPlan
     \/ \E status \in WorkflowStatuses : AdvanceStatus(status)
     \/ \E verified \in SUBSET Tasks : PauseWorkflow(verified) \/ CancelWorkflow(verified)
     \/ ResumeWorkflow
     \/ \E t \in Tasks :
          \/ \E withPrior \in BOOLEAN : \E state \in Reconciliation(t) :
               DeriveRetryDecision(t, state, withPrior)
          \/ StartTask(t) \/ CallProvider(t) \/ ProviderActs(t) \/ FinishTask(t)
     \/ SourceChanges
  /\ UNCHANGED taskClass

WorkflowSpec == WorkflowInit /\ [][WorkflowNext]_workflowVars

-----------------------------------------------------------------------------
(* Properties                                                              *)

\* The effect of an operation that is not idempotent happens at most once, however
\* often the workflow is stopped and resumed while the operation is under way and
\* whatever is decided about repeating it.
NoBlindRepeat ==
  \A t \in Tasks : taskClass[t] = "SPECIALIST" /\ t \notin Idempotent => performed[t] <= 1

\* Nothing of a paused or cancelled workflow is scheduled as running, and what
\* its checkpoint calls verified is still complete.
StoppedIsAtRest ==
  workflow.status \in {"PAUSED", "CANCELLED"} =>
    /\ Running = {}
    /\ \A t \in checkpoint.verified : workflow.tasks[t] = "COMPLETED"

\* The tables agree: a workflow that may be paused, cancelled or resumed is never
\* refused by the transition table, so that no pause is a dead end.
StopAndResumeAgree ==
  /\ workflow.status \in Pausable => "PAUSED" \in Transitions[workflow.status]
  /\ workflow.status \in Cancellable => "CANCELLED" \in Transitions[workflow.status]
  /\ workflow.status = "PAUSED" => CheckpointValid /\ Recommended \in Transitions["PAUSED"]

\* A task that was interrupted with its operation under way is run again after the
\* workflow is resumed only if that is harmless, and what was proved to be
\* complete before the stop is complete after it.
SafeResumption ==
  /\ workflow.status = "PAUSED"
  /\ workflow'.status \notin Terminal \union {"PAUSED"}
  => /\ source
     /\ \A t \in checkpoint.verified : workflow'.tasks[t] = "COMPLETED"
     /\ \A t \in Tasks :
          /\ workflow'.tasks[t] = "READY"
          /\ workflow.tasks[t] # "READY"
          => t \in Idempotent

ResumeIsSafe == [][SafeResumption]_workflowVars

\* A workflow that ended stays as it is.
TerminalIsFinal == [][workflow.status \in Terminal => workflow' = workflow]_workflowVars

\* Book workflows: the effect of an operation that must not be repeated happens at most
\* once however often the workflow is stopped and resumed, a stopped workflow is at rest,
\* no pause is a dead end, an interrupted task is run again only if that is harmless, and a
\* workflow that ended stays as it is.
StopsAreClean ==
  /\ [](NoBlindRepeat /\ StoppedIsAtRest /\ StopAndResumeAgree)
  /\ ResumeIsSafe /\ TerminalIsFinal

=============================================================================
