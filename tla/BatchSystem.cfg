SPECIFICATION FairSpec
CONSTANTS
  Normals = {n1, n2}
  Pollers = {p1}
  MaxBatch = 1
  Markers = 1
  MaxMail = 4
INVARIANTS OnePlace MarksRight
PROPERTIES NoStarvation ShutdownEnds
CHECK_DEADLOCK FALSE
