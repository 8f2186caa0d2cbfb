SPECIFICATION Spec
CONSTANTS
  p1 = p1
  p2 = p2
  t1 = t1
  t2 = t2
  NoMsg = NoMsg
  NoChan = NoChan
  Procs = {p1}
  Threads = {t1, t2}
  ProcOf <- SameProcess
  HalfTxid = 2
  UserTxids = {0, 3}
  MaxPending = 3
  MaxWrites = 3
  Killable = {}
  UserSignals = {}
INVARIANT TimedOutMeansListed
INVARIANT UniqueTxids
INVARIANT ReplyToItsCall
INVARIANT SignalsMatch
VIEW View
CHECK_DEADLOCK FALSE
