SPECIFICATION Spec
CONSTANTS
  s1 = s1
  s2 = s2
  c1 = c1
  c2 = c2
  NoOwner = NoOwner
  NoCheck = NoCheck
  Supervisors = {s1}
  Provider = "codex"
  Checks = {c1}
  InitialAccept = {c1}
  ExternalGates = {}
  DependsOn <- NoDeps
  Disturbances = {"pause", "cancel"}
  MaxRounds = 1
  MaxGeneration = 2
  MaxAttempts = 1
  MaxRevision = 1
  MaxProposals = 0
  MaxOid = 4
  MaxStreak = 3
  OpKeys <- OpKey
VIEW View
CHECK_DEADLOCK FALSE
PROPERTIES
  CancelOutranksPark
