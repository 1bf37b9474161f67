SPECIFICATION WakeSpec
CONSTANTS
  v1 = v1
  v2 = v2
  wa = wa
  wb = wb
  t1 = t1
  Views = {v1, v2}
  NoView = NoView
  Windows = {wa, wb}
  NoWindow = NoWindow
  Tasks = {t1}
  MaxGeneration = 2
  MaxMessages = 2
  MaxAttempts = 2
  MaxFaults = 2
  MaxEvents = 3
VIEW Kept
SYMMETRY Alike
CHECK_DEADLOCK FALSE
INVARIANTS
  WakeTypeOK
  OneTurnPerWake
  OneDispatchedWake
  SentStaysConsumable
  WaitAgrees
  EveryMessageAnnounced
PROPERTIES
  ResolvedIsFinal
