SPECIFICATION Spec
CONSTANTS
  t1 = t1
  t2 = t2
  t3 = t3
  p1 = p1
  p2 = p2
  NoThread = NoThread
  NoPort = NoPort
  Threads <- ThreeThreads
  Waiters <- TwoThreads
  Ports <- TwoPorts
  FlagSets <- AllForms
  Calls = {"wait", "trigger", "ack", "bind", "unbind", "bind_vcpu", "mask"}
  Stamps = {0, 1}
  MaxEvents = 6
INVARIANTS
  QueuedMeansBound
  VcpuTakesOver
PROPERTIES
  DestroyedIsFinal
  PhysicalInterruptHasVcpu
CHECK_DEADLOCK FALSE
