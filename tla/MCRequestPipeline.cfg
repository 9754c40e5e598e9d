CONSTANTS
  worker = worker  parent = parent
  Threads = {t1, t2}
  Agents = {worker, parent}
  Guard <- Settings8
  Shapes <- ManyShapes
  Replies <- FewReplies
  RevokeOnTrip = TRUE
  KillOnTrip = TRUE
  Notify = TRUE
  Budget <- SmallBudget
  RunModes <- TwoModes
  MaxClock = 1
  MaxOps = 1
  MaxApprovals = 1
SYMMETRY Symmetry
SPECIFICATION Spec
INVARIANTS TripBars CanaryStopped DrainBounded BypassAudited AnswersClean DangerousApproved AuditMatchesBackend
CHECK_DEADLOCK FALSE
