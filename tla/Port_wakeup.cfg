SPECIFICATION FairSpec
CONSTANTS
  d1 = d1
  h1 = h1
  h2 = h2
  Threads = {t1, t2, t3}
  Objects = {d1}
  Handles = {h1}
  ObjOf <- OneHandle
  Keys = {k1}
  Sigs = {s1}
  Observers = {o1}
  UserPackets = {u1}
  Interrupts = {i1}
  MaxPackets = 0
  MaxCalls = 4
  NoThread = NoThread
  NoObs = NoObs
  NoHandle = NoHandle
  AnyKey = AnyKey
  Freed = Freed
CHECK_DEADLOCK FALSE
INVARIANTS
  EphemeralCount
  NoLostWakeup
PROPERTIES
  CallsReturn
