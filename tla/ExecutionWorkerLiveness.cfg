SPECIFICATION WorkerFairSpec
CONSTANTS
  NONE = NONE
  Lanes = {l1}
  Delegations = {d1}
  Keys = {k1, k2}
  Heads = {h1}
  Runs = {k1, k2}
  Evaluators = {}
  Digests = {}
  FailureIds = {}
  VerdictIds = {}
  LeaseTerms = {}
  EvalTerms = {}
  Budgets = {}
  HeartbeatSLA = 1
  MaxLag = 0
  MaxTime = 3
  MaxFence = 2
  Workers = {p1, p2}
  Mortal = {p1, p2}
  Independent = {}
  Registered = {k1, k2}
  RetrySafe = {k1}
  LeaseSeconds = 2
  LastCrash = 1
PROPERTIES ClaimsServed
CHECK_DEADLOCK FALSE
