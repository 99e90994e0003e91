SPECIFICATION Spec
CONSTANTS
  a = a
  b = b
  c1 = c1
  c2 = c2
  s1 = s1
  t1 = t1
  t2 = t2
  Kind = {"postgres"}
  Proc = {c1, c2}
  Scope = {t1}
  Subscription = {}
  Deployment <- MCDeployment
  EventType = {a, b}
  Filters <- MCTwoFilters
  Batch <- MCBatches
  PoolSize = 2
  StatementErrors = FALSE
  MaxCalls <- MCTwice
INVARIANTS
  MinimumIsRespected
CHECK_DEADLOCK FALSE
