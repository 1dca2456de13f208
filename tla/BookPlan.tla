------------------------------- MODULE BookPlan -------------------------------
(***************************************************************************)
(* Validation of an execution plan: its tasks, the capabilities they name  *)
(* in the routing registry, its dependency graph and its admission task    *)
(* (system-master/book-system/book-workflow-execution-plan.js and          *)
(* book-capability-routing-interface.js).                                  *)
(*                                                                         *)
(* validateExecutionPlan runs to its end without being interrupted; it is  *)
(* taken apart into the rounds of its two loops (topologicalLayers and     *)
(* requiredAncestors) because they are what can be wrong.  A registry is a *)
(* set of capabilities; service and operation names are one flag, present  *)
(* or null.  References, hashes and digests are left out.                  *)
(***************************************************************************)
EXTENDS Naturals, FiniteSets, Sequences

CONSTANTS
  PlanTasks,       \* task ids
  RequiredIds,     \* capability ids every registry must have
  Plans,           \* plans that are submitted
  PlanRegistries,  \* registries they are validated with
  ADMISSION,       \* BOOK.CANONICAL_MANUSCRIPT_ADMISSION
  RETIRED,         \* any PROSE id, or a retired PROSE owner
  Nothing          \* null

\* A plan is a list of tasks of the four classes; null is no authority domain.
ASSUME PlanAssumption ==
  /\ IsFiniteSet(PlanTasks)
  /\ \A plan \in Plans : \A t \in PlanTasks :
       plan[t].class \in {"SPECIALIST", "DECLARED", "WAIT", "HANDOFF"}
  /\ Nothing # "CANONICAL"

VARIABLES
  taskPlan, registry,
  verdict,      \* "LAYERING", "ANCESTORS", "ACCEPTED" or why the plan is refused
  indegree, ready, layers,
  stack, seen,
  readiness

planVars == <<taskPlan, registry, verdict, indegree, ready, layers, stack, seen, readiness>>

-----------------------------------------------------------------------------
(* Capability routing                                                      *)

ValidCapability(c) ==
  /\ RETIRED \notin {c.id, c.owner}
  /\ c.dispatch = "SERVICE" => c.callable /\ c.service /\ ~c.write
  /\ c.dispatch = "DECLARED" => ~c.callable /\ ~c.service
  /\ c.dispatch = "GATE" => c.owner = "BOOK" /\ ~c.callable
  /\ c.domain = "WRITING" => c.owner = "BOOK" /\ c.component = "COMP-07"
  /\ IF c.domain = "CANONICAL"
     THEN c.owner = "BOOK" /\ c.component = "COMP-02" /\ c.id = ADMISSION /\ c.write
     ELSE ~c.write

ValidRegistry(R) ==
  /\ \A c \in R : ValidCapability(c)
  /\ \A c, d \in R : c.id = d.id => c = d
  /\ Cardinality({c \in R : c.domain = "CANONICAL"}) = 1
  /\ RequiredIds \subseteq {c.id : c \in R}

Resolve(id, domain, R) ==
  IF id = RETIRED \/ ~ValidRegistry(R) THEN {}
  ELSE {c \in R : c.id = id /\ c.domain = domain}

ResolveCallable(id, domain, R) ==
  {c \in Resolve(id, domain, R) : c.callable /\ c.dispatch = "SERVICE"}

-----------------------------------------------------------------------------
(* Tasks                                                                   *)

Dependencies(t) == taskPlan[t].required \union taskPlan[t].optional

ValidTask(t) ==
  LET task == taskPlan[t]
      resolved == Resolve(task.capability, task.domain, registry)
  IN  /\ task.required \intersect task.optional = {}
      /\ t \notin Dependencies(t)
      /\ CASE task.class = "SPECIALIST" ->
                /\ task.owner = Nothing
                /\ \E c \in ResolveCallable(task.capability, task.domain, registry) : ~c.write
           [] task.class = "DECLARED" ->
                /\ task.owner = Nothing
                /\ task.capability # ADMISSION
                /\ \E c \in resolved : ~c.callable /\ c.dispatch = "DECLARED" /\ ~c.write
           [] task.class = "WAIT" ->
                task.capability = Nothing /\ task.domain = Nothing /\ task.owner # Nothing
           [] task.class = "HANDOFF" ->
                /\ task.capability = ADMISSION
                /\ task.domain = "CANONICAL"
                /\ task.owner = Nothing
                /\ \E c \in resolved :
                     c.owner = "BOOK" /\ c.write /\ ~c.callable /\ c.dispatch = "GATE"

Admissions == {t \in PlanTasks : taskPlan[t].class = "HANDOFF"}

-----------------------------------------------------------------------------
(* validateExecutionPlan                                                   *)

PlanInit ==
  /\ taskPlan \in Plans
  /\ registry \in PlanRegistries
  /\ verdict = "SUBMITTED"
  /\ indegree = [t \in PlanTasks |-> 0]
  /\ ready = {}
  /\ layers = <<>>
  /\ stack = <<>>
  /\ seen = {}
  /\ readiness = Nothing

\* The tasks one by one, then buildGraph: dependencies are tasks of the plan, and each
\* counts in the indegree.
CheckTasks ==
  /\ verdict = "SUBMITTED"
  /\ IF \A t \in PlanTasks : ValidTask(t) /\ Dependencies(t) \subseteq PlanTasks
     THEN /\ verdict' = "LAYERING"
          /\ indegree' = [t \in PlanTasks |-> Cardinality(Dependencies(t))]
          /\ ready' = {t \in PlanTasks : Dependencies(t) = {}}
     ELSE /\ verdict' = "TASK_INVALID"
          /\ UNCHANGED <<indegree, ready>>
  /\ UNCHANGED <<taskPlan, registry, layers, stack, seen, readiness>>

\* A round of topologicalLayers: the ready tasks are a layer.
Layer ==
  /\ verdict = "LAYERING"
  /\ ready # {}
  /\ layers' = Append(layers, ready)
  /\ indegree' = [t \in PlanTasks |-> indegree[t] - Cardinality(Dependencies(t) \intersect ready)]
  /\ ready' = {t \in PlanTasks : indegree[t] > 0 /\ indegree'[t] = 0}
  /\ UNCHANGED <<taskPlan, registry, verdict, stack, seen, readiness>>

Visited == UNION {layers[i] : i \in DOMAIN layers}

ReadinessState ==
  LET blocked == {c \in {"DECLARED", "WAIT", "HANDOFF"} : \E t \in PlanTasks : taskPlan[t].class = c}
  IN  CASE blocked = {} -> "READY_FOR_EXECUTION_POLICY"
        [] blocked = {"DECLARED"} -> "BLOCKED_ON_DECLARED_INTERFACE"
        [] blocked = {"WAIT"} -> "BLOCKED_ON_AUTHORITY_WAIT"
        [] blocked = {"HANDOFF"} -> "BLOCKED_ON_ADMISSION_HANDOFF"
        [] OTHER -> "BLOCKED_MULTIPLE"

Accept == verdict' = "ACCEPTED" /\ readiness' = ReadinessState

\* Nothing is ready: all tasks are in a layer, or the rest is on a cycle.  Then
\* the admission task, if there is one, must have no dependant.
EndOfLayers ==
  /\ verdict = "LAYERING"
  /\ ready = {}
  /\ \/ Visited # PlanTasks /\ verdict' = "CYCLE" /\ UNCHANGED <<stack, readiness>>
     \/ /\ Visited = PlanTasks
        /\ \/ Cardinality(Admissions) > 1 /\ verdict' = "MULTIPLE" /\ UNCHANGED <<stack, readiness>>
           \/ Admissions = {} /\ Accept /\ UNCHANGED stack
           \/ \E a \in Admissions :
                /\ Admissions = {a}
                /\ IF \E t \in PlanTasks : a \in Dependencies(t)
                   THEN verdict' = "NOT_A_SINK" /\ UNCHANGED stack
                   ELSE verdict' = "ANCESTORS" /\ stack' = <<taskPlan[a].required>>
                /\ UNCHANGED readiness
  /\ UNCHANGED <<taskPlan, registry, indegree, ready, layers, seen>>

\* Faulty: what is before the admission only optionally counts too.
FaultyAncestor ==
  /\ verdict = "ANCESTORS"
  /\ stack # <<>>
  /\ IF Head(stack) = {}
     THEN stack' = Tail(stack) /\ UNCHANGED seen
     ELSE \E t \in Head(stack) :
            LET rest == <<Head(stack) \ {t}>> \o Tail(stack)
            IN  /\ seen' = seen \union {t}
                /\ stack' = IF t \in seen THEN rest ELSE <<Dependencies(t)>> \o rest
  /\ UNCHANGED <<taskPlan, registry, verdict, indegree, ready, layers, readiness>>

\* A task leaves the stack of requiredAncestors; its own required dependencies go
\* on it unless it was seen before.  The stack is kept as a stack of sets.
Ancestor ==
  /\ verdict = "ANCESTORS"
  /\ stack # <<>>
  /\ IF Head(stack) = {}
     THEN stack' = Tail(stack) /\ UNCHANGED seen
     ELSE \E t \in Head(stack) :
            LET rest == <<Head(stack) \ {t}>> \o Tail(stack)
            IN  /\ seen' = seen \union {t}
                /\ stack' = IF t \in seen THEN rest ELSE <<taskPlan[t].required>> \o rest
  /\ UNCHANGED <<taskPlan, registry, verdict, indegree, ready, layers, readiness>>

EndOfAncestors ==
  /\ verdict = "ANCESTORS"
  /\ stack = <<>>
  /\ IF \A t \in PlanTasks \ Admissions : taskPlan[t].needed => t \in seen
     THEN Accept
     ELSE verdict' = "REQUIRED_TASK_NOT_BEFORE_ADMISSION" /\ UNCHANGED readiness
  /\ UNCHANGED <<taskPlan, registry, indegree, ready, layers, stack, seen>>

PlanNext == CheckTasks \/ Layer \/ EndOfLayers \/ Ancestor \/ EndOfAncestors

PlanSpec == PlanInit /\ [][PlanNext]_planVars /\ WF_planVars(PlanNext)

-----------------------------------------------------------------------------
(* Properties                                                              *)

\* A set of tasks none of which can ever start: each waits for another of them.
Stuck(S) == S # {} /\ \A t \in S : Dependencies(t) \intersect S # {}

\* topologicalLayers answers with layers exactly for the plans that can be carried
\* out: every task is in one layer, after all it depends on, and a plan is refused
\* for a cycle only if some of its tasks wait for each other.
LayeringIsExact ==
  /\ verdict \in {"MULTIPLE", "NOT_A_SINK", "ANCESTORS", "ACCEPTED"} =>
       /\ \A t \in PlanTasks : Cardinality({i \in DOMAIN layers : t \in layers[i]}) = 1
       /\ \A i, j \in DOMAIN layers : \A t \in layers[i], d \in layers[j] :
            d \in Dependencies(t) => j < i
  /\ verdict = "CYCLE" => \E S \in SUBSET PlanTasks : Stuck(S)

\* When an accepted plan's admission task may run, whatever order the tasks were run
\* in, every task the plan's success needs has been run, and none that has been
\* run needed the admission.
AdmissionComesLast ==
  verdict = "ACCEPTED" =>
    \A a \in Admissions : \A done \in SUBSET PlanTasks :
      /\ a \in done
      /\ \A t \in done : taskPlan[t].required \subseteq done
      => \A t \in PlanTasks : (taskPlan[t].needed => t \in done) /\ a \notin Dependencies(t)

\* A task of an accepted plan reaches a capability with write authority over the
\* canonical manuscript only as the admission handoff, through Book's own gate, and
\* no other capability of the registry has that authority.
OnlyTheGateWrites ==
  verdict = "ACCEPTED" =>
    \A t \in PlanTasks :
      LET reached == Resolve(taskPlan[t].capability, taskPlan[t].domain, registry)
      IN  /\ taskPlan[t].class = "HANDOFF" =>
               /\ {c \in registry : c.write} = reached
               /\ \A c \in reached : c.dispatch = "GATE" /\ c.owner = "BOOK" /\ ~c.callable
          /\ taskPlan[t].class # "HANDOFF" => \A c \in reached : ~c.write

\* Book execution plans: topologicalLayers answers with layers exactly for the plans
\* that can be carried out; when an accepted plan's admission task may run, in any order
\* of the tasks, all that the plan's success needs has been run; and no task writes to the
\* canonical manuscript but the admission handoff, through Book's own gate.
PlansAreSafe == LayeringIsExact /\ AdmissionComesLast /\ OnlyTheGateWrites

\* Validation ends.
ValidationEnds == <>(verdict \notin {"SUBMITTED", "LAYERING", "ANCESTORS"})
=============================================================================
