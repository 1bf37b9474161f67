SPECIFICATION CodingSpec
CONSTANTS
  k1 = k1
  k2 = k2
  Calls = {k1}
  MaxAttempts = 1
  MaxRuns = 1
  MaxInst = 2
  MaxUpdates = 3
  MaxFaults = 1
  TurnEnds = {"completed", "failed"}
  Outcomes = {"failed"}
CHECK_DEADLOCK FALSE
PROPERTIES
  RestartIsReported
