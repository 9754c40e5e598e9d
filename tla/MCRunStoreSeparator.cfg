CONSTANTS
  r1 = r1  k1 = k1
  chat = chat  search = search  inspect = inspect
  parent = parent  worker = worker  t1 = t1  t2 = t2
  Runs = {r1}
  Tokens = {k1}
  NoToken = NoToken
  Routes <- AllRoutes
  Roles = {parent, worker}
  Template = worker
  Scopes <- TwoScopes
  StaticRuns <- NoStatic
  Configs <- OneConfig
  Plain = {TRUE, FALSE}
  Ttls = {1, 3}
  Threads = {t1, t2}
  RequireKnownRunId = TRUE
  MaxClock = 2
  MaxRecords = 2
  MaxTears = 0
SYMMETRY ThreadSymmetry
SPECIFICATION Spec
INVARIANT NewestRecordDecides
CHECK_DEADLOCK FALSE
