SPECIFICATION JobsSpec
CONSTANTS
  j1 = j1
  Jobs = {j1}
  QueueMax = 1
  MaxConn = 2
  MaxInst = 1
  MaxServer = 1
  Silent = {}
CHECK_DEADLOCK FALSE
INVARIANTS
  OmissionIsSafe
