SPECIFICATION FairSpec
CONSTANTS
  a = a
  b = b
  c1 = c1
  c2 = c2
  s1 = s1
  v1 = v1
  Proc = {c1, c2, v1}
  Subscription = {s1}
  Workflow = {}
  Saver = {v1}
  Stuck = {}
  EventType = {a}
  Batch <- MCOneBatch
  Query <- MCOneQuery
  WriteThru = FALSE
  FileErrors = FALSE
  MaxCalls = 1
  MaxCrashes = 0
PROPERTIES
  CallsSettle
  SubscribersAreNotified
CHECK_DEADLOCK FALSE
