SPECIFICATION Spec
CONSTANTS
  a = a
  b = b
  c1 = c1
  c2 = c2
  Proc = {c1, c2}
  Subscription = {}
  Workflow = {}
  Saver = {}
  Stuck = {}
  EventType = {a, b}
  Batch <- MCBatch
  Query <- MCQuery
  WriteThru = FALSE
  FileErrors = FALSE
  MaxCalls = 3
  MaxCrashes = 0
INVARIANTS
  StoreTypeOK
  LockFollowsCalls
PROPERTIES
  DecisionIsCurrent
  ImplementsLog
SYMMETRY SymmetricCallers
CHECK_DEADLOCK FALSE
