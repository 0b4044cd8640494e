SPECIFICATION Spec
CONSTANTS
  Threads = {t1, t2}
  Keys = {1, 2}
  None = None
INVARIANTS NoDeadEntry
PROPERTIES Completes
CHECK_DEADLOCK FALSE
