SPECIFICATION Spec
CONSTANTS
  Txns <- MCTxns
  KeysOf <- MCKeysOf
  MaxTs = 5
  MaxTasks = 1
  MaxApply = 1
INVARIANTS ResolvedRight LocksRight
CHECK_DEADLOCK FALSE
