SPECIFICATION Spec
CONSTANTS
  p1 = p1
  p2 = p2
  t1 = t1
  t2 = t2
  NoMsg = NoMsg
  NoChan = NoChan
  Procs = {p1, p2}
  Threads = {t1, t2}
  ProcOf <- TwoProcesses
  HalfTxid = 2
  UserTxids = {0, 2, 3}
  MaxPending = 1
  MaxWrites = 2
  Killable = {}
  UserSignals = {}
INVARIANT KillOnlyOnContractViolation
CHECK_DEADLOCK FALSE
