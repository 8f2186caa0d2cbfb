SPECIFICATION FairSpec
CONSTANTS
  p1 = p1
  p2 = p2
  t1 = t1
  t2 = t2
  NoMsg = NoMsg
  NoChan = NoChan
  Procs = {p1}
  Threads = {t1, t2}
  ProcOf <- SameProcess
  HalfTxid = 2
  UserTxids = {3}
  MaxPending = 0
  MaxWrites = 1
  Killable = {t1}
  UserSignals = {"USER_0"}
PROPERTY ClosedCallReturns
PROPERTY KilledThreadExits
CHECK_DEADLOCK FALSE
