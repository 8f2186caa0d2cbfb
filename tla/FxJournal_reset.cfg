SPECIFICATION Spec
CONSTANTS
  Files = {f1}
  NoFile = NoFile
  Blocks = {1, 2}
  BlockSize = 4
  MutationSize = 2
  JournalBlocks = 5
  MaxTxns = 3
  MaxCrashes = 2
CHECK_DEADLOCK FALSE
INVARIANT
  SyncedTransactionsAreFound
