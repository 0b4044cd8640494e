SPECIFICATION Spec
CONSTANTS
  max_lease = 2
  ElectionTimeout = 2
  Sec = 5
  Grain = 2
  Slots = 3
  MaxTime = 4
  MaxTerm = 3
  MaxProps = 1
  MaxReads = 1
  MaxAsked = 3
  MaxReadId = 2
INVARIANTS ReadRight RemoteWithin SnapshotRight
CHECK_DEADLOCK FALSE
