SPECIFICATION Spec
CONSTANTS
  s1 = s1
  s2 = s2
  c1 = c1
  c2 = c2
  NoOwner = NoOwner
  NoCheck = NoCheck
  Supervisors = {s1}
  Provider = "codex"
  Checks = {c1, c2}
  InitialAccept = {c1}
  ExternalGates = {c1}
  DependsOn <- C2NeedsC1
  Disturbances = {"crash", "deadline"}
  MaxRounds = 2
  MaxGeneration = 2
  MaxAttempts = 2
  MaxRevision = 2
  MaxProposals = 1
  MaxOid = 4
  MaxStreak = 3
  OpKeys <- OpKey
VIEW View
CHECK_DEADLOCK FALSE
INVARIANTS
  SuccessNeverRefused
  RoundsInOrder
PROPERTIES
  ImplementsContract
