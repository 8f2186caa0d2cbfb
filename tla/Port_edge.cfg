SPECIFICATION Spec
CONSTANTS
  d1 = d1
  h1 = h1
  h2 = h2
  Threads = {t1, t2}
  Objects = {d1}
  Handles = {h1}
  ObjOf <- OneHandle
  Keys = {k1}
  Sigs = {s1, s2}
  Observers = {o1}
  UserPackets = {}
  Interrupts = {}
  MaxPackets = 0
  MaxCalls = 3
  NoThread = NoThread
  NoObs = NoObs
  NoHandle = NoHandle
  AnyKey = AnyKey
  Freed = Freed
SYMMETRY Symmetry
INVARIANTS
  EdgeNeedsTransition
CHECK_DEADLOCK FALSE
