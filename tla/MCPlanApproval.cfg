SPECIFICATION PlanSpec
CONSTANTS
  o1 = o1
  o2 = o2
  p1 = p1
  p2 = p2
  a1 = a1
  a2 = a2
  a3 = a3
  t1 = t1
  t2 = t2
  Owners = {o1}
  Projects = {"x", "y"}
  Plans = {p1, p2}
  Approvals = {a1, a2}
  Threads = {t1, t2}
  Roots = {"root"}
  Commits = {"head"}
  Unborn = "unborn"
  MaxRevision = 2
  MaxClock = 1
  MaxCalls = 5
  LockTTL = 1
  ApprovalTTL = 1
VIEW View
SYMMETRY Symmetry
CHECK_DEADLOCK FALSE
INVARIANTS
  PlanTypeOK
  OneLockPerOwner
  ActiveApprovalIsCurrent
  RunsMatchApprovals
  NoApprovalLeftBehind
  GuardMatchesStore
PROPERTIES
  PlanModeHolds
