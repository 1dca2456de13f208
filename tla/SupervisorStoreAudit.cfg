SPECIFICATION Spec
CONSTANTS
  NONE = NONE
  Lanes = {l1}
  Delegations = {d1, d2}
  Keys = {k1, k2}
  Heads = {h1, h2}
  Runs = {w1}
  Evaluators = {w1, e1}
  Digests = {c1}
  FailureIds = {f1}
  VerdictIds = {v1}
  LeaseTerms = {2}
  EvalTerms = {2}
  Budgets = {2}
  HeartbeatSLA = 1
  MaxLag = 1
  MaxTime = 3
  MaxFence = 3

INVARIANTS AuditLiveClaim

CHECK_DEADLOCK FALSE
