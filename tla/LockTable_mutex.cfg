SPECIFICATION Spec
CONSTANTS
  Threads = {t1, t2, t3}
  Keys = {1}
  None = None
INVARIANTS MutualExclusion
CHECK_DEADLOCK FALSE
