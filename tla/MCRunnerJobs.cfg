SPECIFICATION JobsSpec
CONSTANTS
  j1 = j1
  Jobs = {j1}
  QueueMax = 1
  MaxConn = 2
  MaxInst = 2
  MaxServer = 2
  Silent = {1}
CHECK_DEADLOCK FALSE
INVARIANTS
  JobsTypeOK
  UndispatchedNeverRuns
  QueuedHasRequest
  SettledAgrees
PROPERTIES
  TerminalStays
