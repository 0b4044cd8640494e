SPECIFICATION LiveSpec
CONSTANTS
  ElectionTicks = 1
  MaxIndex = 2
  MaxTerm = 2
  MergeIndex = 2
  MaxCmds = 2
INVARIANTS NoPanic PrefixRight ReadFresh
CHECK_DEADLOCK FALSE
PROPERTY Answered
