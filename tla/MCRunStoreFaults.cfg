CONSTANTS
  r1 = r1  k1 = k1
  chat = chat  search = search  inspect = inspect
  parent = parent  worker = worker  t1 = t1  t2 = t2
  Runs = {r1}
  Tokens = {k1}
  NoToken = NoToken
  Routes <- AllRoutes
  Roles = {parent, worker}
  Template = worker
  Scopes <- TwoScopes
  StaticRuns <- NoStatic
  Configs <- TwoConfigs
  Plain = {TRUE}
  Ttls = {1}
  Threads = {t1}
  RequireKnownRunId = TRUE
  MaxClock = 2
  MaxRecords = 3
  MaxTears = 1
SYMMETRY ThreadSymmetry
SPECIFICATION Spec
PROPERTY NoRevivalWhileRunning
CHECK_DEADLOCK FALSE
