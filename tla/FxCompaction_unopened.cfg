SPECIFICATION Spec
CONSTANTS
  Objects = {"root", "allocator", "volume"}
  ReclaimSize = 1
  MaxUserTxns = 1
  MaxTxns = 32
  MaxCrashes = 2
CHECK_DEADLOCK FALSE
INVARIANT
  StoresOpenedAfterReplay
