SPECIFICATION FairSpec
CONSTANTS
  s1 = s1
  s2 = s2
  c1 = c1
  c2 = c2
  NoOwner = NoOwner
  NoCheck = NoCheck
  Supervisors = {s1}
  Provider = "chatgpt"
  Checks = {c1}
  InitialAccept = {c1}
  ExternalGates = {}
  DependsOn <- NoDeps
  Disturbances = {"cancel"}
  MaxRounds = 2
  MaxGeneration = 3
  MaxAttempts = 1
  MaxRevision = 1
  MaxProposals = 0
  MaxOid = 7
  MaxStreak = 3
  OpKeys <- OpKey
CHECK_DEADLOCK FALSE
INVARIANTS
  RoundNeedsGoalCheck
PROPERTIES
  GoalCheckIsServed
