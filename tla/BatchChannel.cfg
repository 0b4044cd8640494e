SPECIFICATION LiveSpec
CONSTANTS
  Senders = {s1, s2}
  NotifySize = 2
  MaxBatch = 2
  MaxSends = 3
INVARIANTS NoStall FlushDone Conserved
PROPERTIES BacklogEnds StreamEnds
CHECK_DEADLOCK FALSE
