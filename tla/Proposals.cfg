SPECIFICATION LiveSpec
CONSTANTS
  r1 = r1
  r2 = r2
  NoReq = NoReq
  Requests <- MCRequests
  Kinds = {"normal", "ChangePeer", "Split", "PrepareMerge"}
  ForeignKinds = {"Split"}
  MaxTerm = 3
  MaxLog = 4
INVARIANTS CheckedNotRejected CheckerRight CalledOnce AnswerRight
PROPERTIES WaiterAnswered
CHECK_DEADLOCK FALSE
