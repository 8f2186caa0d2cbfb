SPECIFICATION Spec
CONSTANTS
  Syncs = {s1}
  Writers = {w1}
  ReclaimSize = 2
  MaxCommits = 3
CHECK_DEADLOCK FALSE
INVARIANTS
  NoLostWakeup
  ClosedMeansFlushed
PROPERTIES
  SyncReturns
  SpaceIsReclaimed
  CloseReturns
