SPECIFICATION Spec
CONSTANTS
  NONE = NONE
  Lanes = {l1}
  Delegations = {d1, d2}
  Keys = {k1, k2}
  Heads = {h1}
  Runs = {w1, w2}
  Evaluators = {}
  Digests = {}
  FailureIds = {f1, f2, f3}
  VerdictIds = {}
  LeaseTerms = {1}
  EvalTerms = {1}
  Budgets = {2, 3}
  HeartbeatSLA = 1
  MaxLag = 0
  MaxTime = 2
  MaxFence = 2
SYMMETRY Symmetry
INVARIANTS RetryAccounting
CHECK_DEADLOCK FALSE
