----------------------------- MODULE MCLibraries -----------------------------
(***************************************************************************)
(* Instances for TLC of the libraries that callers use within their own    *)
(* process.  They share no state, so a behaviour is one of one library     *)
(* (part); the variables of the others keep their first values, and the    *)
(* states of the run are the sum of those of the parts.                    *)
(***************************************************************************)
EXTENDS BookLifecycle, BookPlan, BookWorkflow, BookStore, ValidatorEvidence,
        WorkflowDispatch, QualificationRun, TLC

CONSTANTS
  Parts,   \* the parts that are run
  i1, i2, i3

VARIABLE part

-----------------------------------------------------------------------------
\* Lifecycle: three phases that need an item each, the first one mandatory, a pair
\* of flags, one event with fixed targets.
MCRequired   == [p \in 1 .. PhaseCount |-> CASE p = 1 -> {i1} [] p = 2 -> {i2} [] OTHER -> {i3}]
MCMandatory  == {1}
MCRequires   == {<<2, 3>>}
MCReopenable == 1 .. PhaseCount
MCEvents     == {{1, 3}}

-----------------------------------------------------------------------------
\* Plans, "graphs": every dependency graph on three tasks with required and optional
\* edges, one registry; "routes": capabilities that an admission one stands beside,
\* and every request for them.
Gate == [id |-> "ADMISSION", owner |-> "BOOK", domain |-> "CANONICAL", dispatch |-> "GATE",
         callable |-> FALSE, service |-> FALSE, write |-> TRUE, component |-> "COMP-02"]

Service == [id |-> "svc", owner |-> "OTHER", domain |-> "RESEARCH", dispatch |-> "SERVICE",
            callable |-> TRUE, service |-> TRUE, write |-> FALSE, component |-> Nothing]

Declared == [id |-> "dec", owner |-> "OTHER", domain |-> "EVALUATION", dispatch |-> "DECLARED",
             callable |-> FALSE, service |-> FALSE, write |-> FALSE, component |-> Nothing]

Task(class, required, optional, needed) ==
  [class      |-> class,
   capability |-> CASE class = "SPECIALIST" -> "svc" [] class = "DECLARED" -> "dec"
                    [] class = "HANDOFF" -> "ADMISSION" [] OTHER -> Nothing,
   domain     |-> CASE class = "SPECIALIST" -> "RESEARCH" [] class = "DECLARED" -> "EVALUATION"
                    [] class = "HANDOFF" -> "CANONICAL" [] OTHER -> Nothing,
   owner      |-> IF class = "WAIT" THEN "t1" ELSE Nothing,
   required   |-> required,
   optional   |-> optional,
   needed     |-> needed]

EdgesOf(t) == {e \in (SUBSET PlanTasks) \X (SUBSET PlanTasks) :
               t \notin e[1] \union e[2] /\ e[1] \intersect e[2] = {}}

\* t3 may be the handoff; t1 may be, and the plan's success may do without it, or it is a
\* declared capability or a wait, with fewer edges.
FirstTasks ==
  {"SPECIALIST", "HANDOFF"} \X BOOLEAN \X EdgesOf("t1")
    \union {"DECLARED", "WAIT"} \X {TRUE} \X {<<{}, {}>>, <<{"t2"}, {}>>}

GraphPlans ==
  {[t \in PlanTasks |-> CASE t = "t1" -> Task(c1, e1[1], e1[2], n1)
                          [] t = "t2" -> Task("SPECIALIST", e2[1], e2[2], TRUE)
                          [] OTHER    -> Task(c3, e3[1], e3[2], TRUE)] :
     <<c1, n1, e1>> \in FirstTasks, c3 \in {"SPECIALIST", "HANDOFF"},
     e2 \in EdgesOf("t2"), e3 \in EdgesOf("t3")}

Capability ==
  [id : {"ADMISSION", "svc"}, owner : {"BOOK", "OTHER", "RETIRED"},
   domain : {"CANONICAL", "WRITING", "RESEARCH"}, dispatch : {"SERVICE", "GATE", "DECLARED"},
   callable : BOOLEAN, service : BOOLEAN, write : BOOLEAN, component : {"COMP-02", Nothing}]

\* The admission capability and any service beside it, or any admission capability.
SomeRegistries ==
  {{Gate, c} : c \in {x \in Capability : x.id = "svc" /\ x.component = Nothing}}
    \union {{g, Service} : g \in {x \in Capability : x.id = "ADMISSION" /\ x.domain = "CANONICAL"}}

\* One task of every class for every capability and domain, that may depend on a task the
\* plan does not have; the other two wait.
RoutePlans ==
  {[t \in PlanTasks |->
      IF t = "t1"
      THEN [Task(class, {}, needs, TRUE) EXCEPT !.capability = id, !.domain = domain]
      ELSE Task("WAIT", {}, {}, FALSE)] :
     class \in {"SPECIALIST", "DECLARED", "HANDOFF"}, id \in {"ADMISSION", "svc"},
     needs \in {{}, {"t4"}},
     domain \in {"CANONICAL", "WRITING", "RESEARCH"}}

SomeDeclared == {Gate, Service, Declared}

\* TLC evaluates these two once, and what a constant is replaced by each time.
AllPlans      == GraphPlans \union RoutePlans
AllRegistries == SomeRegistries \union {SomeDeclared}

MCPlans          == AllPlans
MCPlanRegistries == AllRegistries

Submitted ==
  CASE part = "graphs" -> taskPlan \in GraphPlans /\ registry = SomeDeclared
    [] part = "routes" -> taskPlan \in RoutePlans /\ registry \in SomeRegistries

NoPlan ==
  /\ taskPlan = Nothing /\ registry = {} /\ verdict = "Nothing" /\ indegree = Nothing /\ ready = {}
  /\ layers = << >> /\ stack = << >> /\ seen = {} /\ readiness = Nothing

-----------------------------------------------------------------------------
\* Workflow: a task that must not be repeated and one that may be, or that is an author's
\* decision.
MCPlannings ==
  {[t \in Tasks |-> IF t = "again" THEN class ELSE "SPECIALIST"] : class \in {"SPECIALIST", "WAIT"}}

MCNeeds == [t \in Tasks |-> {}]

-----------------------------------------------------------------------------
\* Store, "store": one process with every kind of record, two of them at a time, crashes and
\* power failures, up to the one that takes the directory;
\* "shared": two processes that write to the evidence chain, one of them one receipt only.
StoreKept ==
  CASE part = "store"  -> /\ users = {"p1"}
                          /\ \E k \in Keys : files[k] = Absent
                          /\ root = "LOST" => \A k \in Keys : files[k] = Absent /\ proc["p1"] = NoCall
                          /\ IF proc["p1"].key = "RECEIPTS"
                             THEN \A r \in ToSet(proc["p1"].want) : r.id = "c1"
                             ELSE \A c \in ToSet(proc["p1"].want) : c = "c1"
    [] part = "shared" -> /\ users = Procs /\ root = "SAFE"
                          /\ \A p \in Procs : proc[p].pc = "READ" =>
                               /\ proc[p].key = "RECEIPTS" /\ Len(known[p].RECEIPTS) < 2
                               /\ p = "p2" => proc[p].want[1].id = "c2"

-----------------------------------------------------------------------------
\* Validator closure, "evidence": of workflows and schemas, with one id; "closure": of
\* contracts and dependencies, which refer to other evidence.  An artifact that declares more
\* families than there are items is never covered.
RequestKept ==
  /\ \A a \in artifacts : Cardinality(a.families) <= MaxItems
  /\ CASE part = "evidence" -> /\ \A a \in artifacts : a.kind \in {"WORKFLOW", "SCHEMA"}
                               /\ \A e \in evidence :
                                    /\ e.id = "i1"
                                    /\ e.refers \subseteq {"SCHEMA", "ROUTING", "RECEIPT"} \X {"i1"}
       [] part = "closure"  -> /\ \A a \in artifacts : a.kind \in {"CONTRACT", "GOVERNANCE"}
                               /\ \A e \in artifacts \union evidence : e.path = "p1" /\ e.digest = "d1"

-----------------------------------------------------------------------------
\* Dispatch, "dispatch": callers that keep apart; "guesses": callers that do not, with
\* fewer runs.
DispatchKept ==
  CASE part = "dispatch" -> apart
    [] part = "guesses"  -> ~apart /\ Len(made) < MaxMade /\ clock < MaxClock

-----------------------------------------------------------------------------
\* Qualification runs.
MCEntry == [workstream |-> "ws1", gate |-> "promotion", reboots |-> FALSE, overnight |-> TRUE,
            cap |-> 2, present |-> TRUE, sound |-> TRUE]

Registered == ("q1" :> MCEntry) @@ ("q2" :> None)

\* q1 is registered for promotion, by day only, without its executable and for less time, or
\* not at all; q2 for another workstream, with a restart, badly or not.
MCRegistries ==
  {Registered,
   ("q1" :> [MCEntry EXCEPT !.gate = "focused", !.overnight = FALSE])
     @@ ("q2" :> [MCEntry EXCEPT !.workstream = "ws2"]),
   ("q1" :> [MCEntry EXCEPT !.cap = 1, !.present = FALSE])
     @@ ("q2" :> [MCEntry EXCEPT !.reboots = TRUE]),
   ("q1" :> None) @@ ("q2" :> [MCEntry EXCEPT !.sound = FALSE])}

MCWindows == {[from |-> 1, to |-> 3], [from |-> 2, to |-> 2]}

-----------------------------------------------------------------------------
LibraryInit ==
  /\ part \in Parts
  /\ Init /\ (part = "lifecycle" \/ profile = Phases)
  /\ WorkflowInit /\ (part = "workflow" \/ \A t \in Tasks : taskClass[t] = "SPECIALIST")
  /\ StoreInit /\ IF part \in {"store", "shared"} THEN StoreKept ELSE users = {}
  /\ EvidenceInit
  /\ DispatchInit /\ IF part \in {"dispatch", "guesses"} THEN DispatchKept ELSE apart
  /\ QualificationInit /\ (part = "qualification" \/ main = Registered)
  /\ IF part \in {"graphs", "routes"} THEN Submitted /\ PlanInit ELSE NoPlan

Lifecycle ==
  /\ part = "lifecycle" /\ Operation
  /\ UNCHANGED <<part, planVars, workflowVars, storeVars, evidenceVars,
                 dispatchVars, qualificationVars>>

Planning ==
  /\ part \in {"graphs", "routes"} /\ PlanNext
  /\ UNCHANGED <<part, vars, workflowVars, storeVars,
                 evidenceVars, dispatchVars, qualificationVars>>

Working ==
  /\ part = "workflow" /\ WorkflowNext
  /\ UNCHANGED <<part, vars, planVars, storeVars,
                 evidenceVars, dispatchVars, qualificationVars>>

Storing ==
  /\ part \in {"store", "shared"} /\ StoreNext
  /\ UNCHANGED <<part, vars, planVars, workflowVars,
                 evidenceVars, dispatchVars, qualificationVars>>
  /\ StoreKept'

Closing ==
  /\ part \in {"evidence", "closure"} /\ EvidenceNext
  /\ UNCHANGED <<part, vars, planVars, workflowVars,
                 storeVars, dispatchVars, qualificationVars>>
  /\ RequestKept'

Dispatching ==
  /\ part \in {"dispatch", "guesses"} /\ DispatchNext
  /\ UNCHANGED <<part, vars, planVars, workflowVars,
                 storeVars, evidenceVars, qualificationVars>>
  /\ DispatchKept'

Qualifying ==
  /\ part = "qualification" /\ QualificationNext
  /\ UNCHANGED <<part, vars, planVars, workflowVars,
                 storeVars, evidenceVars, dispatchVars>>

LibraryNext ==
  \/ Lifecycle \/ Planning \/ Working \/ Storing \/ Closing \/ Dispatching \/ Qualifying

libraryVars ==
  <<part, vars, planVars, workflowVars, storeVars, evidenceVars,
    dispatchVars, qualificationVars>>

\* A lifecycle's owner takes the action that is shown next, a validation goes on, a caller
\* that has dispatched polls, the jobs of a qualification run are run, and the clock goes on.
LibraryFairness ==
  /\ WF_vars(part = "lifecycle" /\ Guided)
  /\ WF_planVars(part = "graphs" /\ PlanNext)
  /\ WF_dispatchVars(part = "dispatch" /\ \E c \in Callers : Poll(c))
  /\ WF_qualificationVars(part = "qualification" /\ Job)
  /\ WF_qualificationVars(part = "qualification" /\ Tick)

LibrarySpec == LibraryInit /\ [][LibraryNext]_libraryVars /\ LibraryFairness

-----------------------------------------------------------------------------
(* What is checked beside the properties of the libraries: their progress. *)

\* What is started comes to its end: a lifecycle whose owner takes the action it is shown,
\* the validation of a plan, a dispatch that was answered, and a qualification run, whose
\* child is killed when it hangs.
CallsConclude ==
  /\ part = "lifecycle" => GuidanceConverges
  /\ part = "graphs" => ValidationEnds
  /\ part = "dispatch" => CallsEnd
  /\ part = "qualification" => RunConcludes
=============================================================================
