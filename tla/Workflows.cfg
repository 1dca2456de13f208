SPECIFICATION WorkflowSpec
CONSTANTS
  Parts = {"publication", "race", "long", "swaps", "edits", "moments", "create", "sessions", "writers",
           "retitled", "timely", "again", "expiring", "repairs", "claims", "late", "circuits", "idle"}
  Operations = {o1, o2}
  ReceiptIds = {r1}
  Subjects = {s1, s2}
  o1 = o1
  o2 = o2
  r1 = r1
  s1 = s1
  None = None
  Null = Null
  Offers <- MCOffers
  Edges <- MCEdges
  First <- MCFirst
  Procs = {p1}
  Writers = {"w1", "w2"}
  MaxEdits = 1
  Jobs = {j1, j2}
  Mutations = {"m1", "m2"}
  Segments = {"src", "docs", "a", "b", "x"}
  Covered <- MCCovered
  Calls = {"c1", "c2"}
  SessionClaims <- MCSessionClaims
  Authorities <- MCAuthorities
  FirstAuthority <- MCFirstAuthority
  MaxHistory = 2
  Nothing = Nothing
  Files = {"f1", "f2"}
  PathsOf <- MCPathsOf
  Scope <- MCScope
  TTL = 2
  MaxAttempts = 1
  Timely = TRUE
  MaxClock = 2
  MaxEpoch = 3
  MaxLength = 4
  MaxLate = 1
  PullRequests = {p1, p2}
  OperationIds = {x}
  Paths = {gov, gate}
  Governed = {gov}
  Fenced = {gate}
  Retitling = FALSE
  NoOperation = NoOperation
  Recoveries = {"r1", "r2"}
  OpIds = {"o1", "o2"}
  Publishable <- MCPublishable
  Absent = Absent
  MaxDepth = 1
  MaxPubs = 1
  MaxCommits = 1
  MaxGrants = 1
  Ids = {"t1"}
  RepairSubjects = {"s1", "s2", "s3"}
  Root = "s1"
  Openings <- MCOpenings
  Outcomes <- MCOutcomes
  Budgets = {1, 2}
  MaxRuns = 3
  Redelivered = TRUE
  Nil = Nil
  Kinds = {"SHIFT_OPEN", "READY", "CLAIMED", "RUNNING", "HEARTBEAT", "PROGRESS", "COMPLETED",
           "BLOCKED", "STALE", "RETRY", "CIRCUIT_OPEN", "CIRCUIT_HALF_OPEN", "CIRCUIT_CLOSED",
           "SUCCESSOR_BOUND", "ALL_RUNGS_EXHAUSTED", "IDLE_VALID", "SHIFT_CLOSE"}
  Works = {"w1"}
  Heads = {"h1", "h2"}
  Keys = {"k1", "k2"}
  Leases = {"l1", "l2"}
  Dependencies = {"d1", "d2"}
  LastTime = 4
  MaxBudget = 2
  MaxEvents = 6
SYMMETRY Symmetry
INVARIANTS
  BranchIsTrue OneWriter SingleWhateverChanges RecoveryHasAuthority MutationsAreSingle
  LedgersAreConsistent WorkIsAccounted
PROPERTIES
  PublishesALog ClaimsAreExclusive LeasesAreSettled RepairsAreBounded
CHECK_DEADLOCK FALSE
