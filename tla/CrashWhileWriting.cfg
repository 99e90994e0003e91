SPECIFICATION Spec
CONSTANTS
  a = a
  b = b
  c1 = c1
  Proc = {c1}
  Subscription = {}
  Workflow = {}
  Saver = {}
  Stuck = {}
  EventType = {a}
  Batch <- MCOneBatch
  Query <- MCNoQuery
  WriteThru = TRUE
  FileErrors = FALSE
  MaxCalls = 2
  MaxCrashes = 1
INVARIANTS
  AcknowledgedSurvivesCrash
CHECK_DEADLOCK FALSE
