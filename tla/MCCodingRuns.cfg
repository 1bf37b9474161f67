SPECIFICATION CodingSpec
CONSTANTS
  k1 = k1
  k2 = k2
  Calls = {k1, k2}
  MaxAttempts = 2
  MaxRuns = 1
  MaxInst = 2
  MaxUpdates = 3
  MaxFaults = 1
  TurnEnds = {"completed", "failed"}
  Outcomes = {"failed"}
SYMMETRY Symmetry
CHECK_DEADLOCK FALSE
INVARIANTS
  CodingTypeOK
  OnePrompt
  NotStartedIsTrue
  SettledByTruth
