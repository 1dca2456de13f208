SPECIFICATION Spec
CONSTANTS
  NONE = NONE
  Lanes = {l1, l2}
  Delegations = {d1, d2}
  Keys = {k1, k2}
  Heads = {h1, h2}
  Runs = {w1}
  Evaluators = {e1}
  Digests = {c1}
  FailureIds = {}
  VerdictIds = {v1}
  LeaseTerms = {1}
  EvalTerms = {1}
  Budgets = {}
  HeartbeatSLA = 1
  MaxLag = 0
  MaxTime = 2
  MaxFence = 2
SYMMETRY Symmetry
PROPERTIES ImplementsLifecycle
CHECK_DEADLOCK FALSE
