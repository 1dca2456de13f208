SPECIFICATION WorkerSpec
CONSTANTS
  NONE = NONE
  Lanes = {l1,l2}
  Delegations = {d1, d2}
  Keys = {k1, k2}
  Heads = {h1}
  Runs = {k1, k2}
  Evaluators = {}
  Digests = {}
  FailureIds = {}
  VerdictIds = {}
  LeaseTerms = {}
  EvalTerms = {}
  Budgets = {}
  HeartbeatSLA = 1
  MaxLag = 0
  MaxTime = 2
  MaxFence = 1
  Workers = {p1, p2}
  Mortal = {p1, p2}
  Independent = {d2}
  Registered = {k1}
  RetrySafe = {k1}
  LeaseSeconds = 1
  LastCrash = 1
SYMMETRY LaneSymmetry
INVARIANTS AuditLiveClaim
CHECK_DEADLOCK FALSE
