SPECIFICATION Spec
CONSTANTS
  a = a
  b = b
  c1 = c1
  c2 = c2
  s1 = s1
  t1 = t1
  t2 = t2
  Kind = {"postgres", "d1", "supabase", "realtime"}
  Proc = {c1, c2}
  Scope = {t1, t2}
  Subscription = {s1}
  Deployment <- MCDeployment
  EventType = {a, b}
  Filters <- MCAllFilters
  Batch <- MCBatches
  PoolSize = 1
  StatementErrors = TRUE
  MaxCalls <- MCCalls
VIEW MCView
INVARIANTS
  SqlTypeOK
  PoolFollowsCalls
  PollingMissesNothing
  DeliveredOnce
  JoinedChannelsMissNothing
PROPERTIES
  AnswersMatchTheQuery
  DecisionIsCurrentInD1
  LaterConflictsAreRefused
  RefusalsAreJustified
  ImplementsTable

CHECK_DEADLOCK FALSE
