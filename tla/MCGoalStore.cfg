SPECIFICATION CodexSpec
CONSTANTS
  s1 = s1
  c1 = c1
  c2 = c2
  Supervisors = {s1}
  NoOwner = NoOwner
  Provider = "codex"
  Checks = {c1, c2}
  NoCheck = NoCheck
  InitialAccept = {c1}
  ExternalGates = {c1}
  MaxRounds = 1
  MaxGeneration = 2
  MaxAttempts = 2
  MaxRevision = 2
  MaxProposals = 1
  MaxOid = 2
  MaxStreak = 0
  OpKeys <- CommitOnly
VIEW CodexView
CHECK_DEADLOCK FALSE
INVARIANTS
  StoreTypeOK
  SucceededIsProved
  ReceiptsNameOneCommit
  CompletedCountsRounds
  LeaseOnlyWhileRunning
PROPERTIES
  TerminalIsFinal
