SPECIFICATION LockSpec
CONSTANTS
  p1 = p1
  p2 = p2
  p3 = p3
  p4 = p4
  Proc = {p1, p2, p3, p4}
INVARIANTS
  LockTypeOK
  MutualExclusion
  CountsMatchHolders
  WaitersAreDistinct
  NoLostWakeup
PROPERTIES
  NoOvertaking
  WaitersAreServed
