SPECIFICATION Spec
CONSTANTS
  Files = {f1}
  NoFile = NoFile
  Blocks = {1, 2}
  BlockSize = 3
  MutationSize = 2
  JournalBlocks = 5
  MaxTxns = 4
  MaxCrashes = 2
CHECK_DEADLOCK FALSE
INVARIANTS
  DataIntact
PROPERTY
  ImplementsDurableLog
