SPECIFICATION Spec
CONSTANTS
  r1 = r1
  r2 = r2
  NoReq = NoReq
  Requests <- MCRequests
  Kinds = {"normal", "ChangePeer", "Split", "PrepareMerge"}
  ForeignKinds = {"noop", "Split"}
  MaxTerm = 3
  MaxLog = 4
SYMMETRY Symmetric
INVARIANTS NoConflictPanic
CHECK_DEADLOCK FALSE
