SPECIFICATION Spec
CONSTANTS
  c1 = c1
  c2 = c2
  Calls <- MCCalls
  Task <- MCTask
  Ttl = 4
  SshTimeout = 3
  LockWait = 1
  VmTimeout = 1
  MaxClock = 4
  MaxFaults = 1
INVARIANTS EndedIsDead TripEndsTheRun TimeoutsNest RewriteReserved
PROPERTY CallsEnd
CHECK_DEADLOCK FALSE
