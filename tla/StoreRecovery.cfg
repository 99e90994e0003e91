SPECIFICATION Spec
CONSTANTS
  a = a
  b = b
  c1 = c1
  c2 = c2
  s1 = s1
  Proc = {c1, c2}
  Subscription = {s1}
  Workflow = {}
  Saver = {}
  Stuck = {}
  EventType = {a}
  Batch <- MCOneBatch
  Query <- MCOneQuery
  WriteThru = TRUE
  FileErrors = TRUE
  MaxCalls = 2
  MaxCrashes = 1
INVARIANTS
  StreamIsDense
  AcknowledgedIsOnFile
  DeliveredInOrder
PROPERTIES
  ImplementsLog
CHECK_DEADLOCK FALSE
