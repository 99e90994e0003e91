SPECIFICATION FairSpec
CONSTANTS
  a = a
  b = b
  c1 = c1
  s1 = s1
  Proc = {c1, s1}
  Subscription = {s1}
  Workflow = {s1}
  Saver = {}
  Stuck = {}
  EventType = {a}
  Batch <- MCOneBatch
  Query <- MCNoQuery
  WriteThru = FALSE
  FileErrors = FALSE
  MaxCalls = 1
  MaxCrashes = 0
PROPERTIES
  CallsSettle
CHECK_DEADLOCK FALSE
