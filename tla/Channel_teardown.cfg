SPECIFICATION Spec
CONSTANTS
  p1 = p1
  p2 = p2
  t1 = t1
  t2 = t2
  NoMsg = NoMsg
  NoChan = NoChan
  Procs = {p1, p2}
  Threads = {t1, t2}
  ProcOf <- TwoProcesses
  HalfTxid = 1
  UserTxids = {1}
  MaxPending = 1
  MaxWrites = 2
  Killable = {t1}
  UserSignals = {}
INVARIANT ListedMeansArmed
INVARIANT NoCallLeftBehind
INVARIANT MessagesConserved
PROPERTY OnlyOwnerWrites
VIEW TxidView
CHECK_DEADLOCK FALSE
