SPECIFICATION LibrarySpec
CONSTANTS
  Parts = {"lifecycle", "graphs", "routes", "workflow", "store", "shared",
           "evidence", "closure", "dispatch", "guesses", "qualification"}
  PhaseCount = 3
  i1 = i1
  i2 = i2
  i3 = i3
  Items = {i1, i2, i3}
  Required <- MCRequired
  Mandatory <- MCMandatory
  Requires <- MCRequires
  Reopenable <- MCReopenable
  Events <- MCEvents
  Receipts = {r1}
  Checkpoints = {c1}
  NONE = NONE
  PlanTasks = {"t1", "t2", "t3"}
  RequiredIds = {"ADMISSION", "svc"}
  ADMISSION = "ADMISSION"
  RETIRED = "RETIRED"
  Nothing = Nothing
  Plans <- MCPlans
  PlanRegistries <- MCPlanRegistries
  Tasks = {"once", "again"}
  Plannings <- MCPlannings
  Needs <- MCNeeds
  Idempotent = {"again"}
  MaxVersion = 8
  Procs = {"p1", "p2"}
  Changes = {"c1", "c2"}
  InUse = {"WORKFLOW", "CHECKPOINT", "RECEIPTS"}
  MaxLength = 2
  Paths = {"p1", "p2"}
  Scope = {"p1"}
  Digests = {"d1", "d2"}
  Ids = {"i1", "i2"}
  Earned = {"i1"}
  Kinds = {"WORKFLOW", "SCHEMA", "CONTRACT", "GOVERNANCE"}
  MaxItems = 2
  MaxArtifacts = 1
  Callers = {"c1", "c2"}
  MaxMade = 3
  MaxClock = 2
  PollAttempts = 2
  Slack = 1
  NoRun = NoRun
  Qualifications = {"q1", "q2"}
  Registries <- MCRegistries
  Workstreams = {"ws1"}
  Timeouts = {2, 3}
  MaxTimeout = 2
  Windows <- MCWindows
  MaxTime = 3
  MaxAttempts = 2
  None = None
INVARIANTS
  StateIsSound PlansAreSafe GrantsAreShown
PROPERTIES
  RecordsAreKept ReceiptsAreKept StopsAreClean AttributionsAreOwn VerdictsAreEarned CallsConclude
CHECK_DEADLOCK FALSE
