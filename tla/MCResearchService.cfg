SPECIFICATION Spec
CONSTANTS
  Runs = {r1}
  home = home
  away = away
  blocked = blocked
  here = here
  there = there
  Urls = {home, away, blocked}
  Problematic = {blocked}
  HostOf <- MCHostOf
  SeedSets <- MCSeedSets
  Threads = {t1, t2}
  SearchLimit = 1
  FetchLimit = 3
  HostLimit = 1
  ByteLimit = 1
  PageMax = 1
  MaxFound = 1
  MaxRedirects = 1
  RunTtl = 0
  MaxRegistrations = 2
  MaxClock = 1
INVARIANTS Provenance ByteOvershoot DrainsAfterDrop
PROPERTY RequestsEnd
CHECK_DEADLOCK FALSE
