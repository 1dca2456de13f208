SPECIFICATION FairSpec
CONSTANTS
  NONE = NONE
  Lanes = {l1}
  Delegations = {d1, d2}
  Keys = {k1, k2}
  Heads = {h1}
  Runs = {w1}
  Evaluators = {e1}
  Digests = {c1}
  FailureIds = {f1}
  VerdictIds = {v1}
  LeaseTerms = {2}
  EvalTerms = {1}
  Budgets = {2}
  HeartbeatSLA = 1
  MaxLag = 0
  MaxTime = 3
  MaxFence = 3
PROPERTIES ClaimsEnd
CHECK_DEADLOCK FALSE
