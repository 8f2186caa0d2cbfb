SPECIFICATION Spec
CONSTANTS
  Files = {f1}
  NoFile = NoFile
  Blocks = {1, 2}
  BlockSize = 3
  MutationSize = 2
  JournalBlocks = 5
  MaxTxns = 2
  MaxCrashes = 3
CHECK_DEADLOCK FALSE
INVARIANT
  NothingComesBack
