SPECIFICATION Spec
CONSTANTS
  t1 = t1
  t2 = t2
  t3 = t3
  p1 = p1
  p2 = p2
  NoThread = NoThread
  NoPort = NoPort
  Threads <- TwoThreads
  Waiters <- OneThread
  Ports <- OnePort
  FlagSets <- EventForms
  Calls = {"bind_vcpu"}
  Stamps = {1}
  MaxEvents = 6
INVARIANTS
  NoLockCycle
CHECK_DEADLOCK FALSE
