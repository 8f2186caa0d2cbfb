SPECIFICATION Spec
CONSTANTS
  d1 = d1
  h1 = h1
  h2 = h2
  Threads = {t1, t2, t3}
  Objects = {d1}
  Handles = {h1, h2}
  ObjOf <- TwoHandles
  Keys = {k1}
  Sigs = {s1}
  Observers = {o1, o2}
  UserPackets = {}
  Interrupts = {}
  MaxPackets = 0
  MaxCalls = 6
  NoThread = NoThread
  NoObs = NoObs
  NoHandle = NoHandle
  AnyKey = AnyKey
  Freed = Freed
SYMMETRY Symmetry
INVARIANTS
  NoDanglingObserver
  ExactlyOneDestroyer
  ClosedPortIsEmpty
  CanceledStaysSilent
  LevelNeverMissed
CHECK_DEADLOCK FALSE
