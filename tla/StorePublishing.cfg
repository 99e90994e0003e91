SPECIFICATION Spec
CONSTANTS
  a = a
  b = b
  c1 = c1
  c2 = c2
  s1 = s1
  s2 = s2
  Proc = {c1, c2, s1}
  Subscription = {s1, s2}
  Workflow = {s1}
  Saver = {}
  Stuck = {}
  EventType = {a, b}
  Batch <- MCBatches
  Query <- MCOneQuery
  WriteThru = TRUE
  FileErrors = FALSE
  MaxCalls = 1
  MaxCrashes = 0
INVARIANTS
  ChainFollowsStream
  DeliveredWithoutGaps
  ObservedIsOnFile
  OnlyTheWriterIsAhead
CHECK_DEADLOCK FALSE
