CONSTANTS
  agent = agent  receipt = receipt
  Keys = {agent, receipt}
  Threads = {t1, t2}
  Window <- TwoWindows
  Allowance <- TwoAllowances
  Cap = 1
  MaxClock = 7
  MaxGrants = 4
SYMMETRY ThreadSymmetry
SPECIFICATION Spec
INVARIANTS TypeOK WindowBound RetryAfterSuffices
CHECK_DEADLOCK FALSE
