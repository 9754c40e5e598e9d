CONSTANTS
  Runs = {r1, r2, r3}
  Callers = {t1, t2, t3}
  Quota = 2
  MaxKeys = 2
  Ttl = 0
  MaxMonotonic = 1
  MaxForwards = 4
SYMMETRY Symmetry
SPECIFICATION QuotaSpec
INVARIANTS OvershootBounded CountsEveryCall
CHECK_DEADLOCK FALSE
