SPECIFICATION Spec
CONSTANTS
  t1 = t1
  t2 = t2
  t3 = t3
  p1 = p1
  p2 = p2
  NoThread = NoThread
  NoPort = NoPort
  Threads <- ThreeThreads
  Waiters <- OneThread
  Ports <- OnePort
  FlagSets <- AllForms
  Calls = {"wait", "trigger", "ack", "bind", "mask"}
  Stamps = {1}
  MaxEvents = 6
INVARIANTS
  MaskedMeansPending
  NoLostTrigger
  WakeupNotLost
  NothingOutlives
CHECK_DEADLOCK FALSE
