SPECIFICATION Spec
CONSTANTS
  t1 = t1
  t2 = t2
  t3 = t3
  p1 = p1
  p2 = p2
  NoThread = NoThread
  NoPort = NoPort
  Threads <- ThreeThreads
  Waiters <- TwoThreads
  Ports <- OnePort
  FlagSets <- VirtualOnly
  Calls = {"wait", "trigger", "mask"}
  Stamps = {1}
  MaxEvents = 6
INVARIANTS
  WaitIsAborted
CHECK_DEADLOCK FALSE
