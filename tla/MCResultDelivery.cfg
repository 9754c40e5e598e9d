SPECIFICATION DeliverySpec
CONSTANTS
  Requests = {r1, r2}
  Pace = 1
  Allowance = 1
  Window = 4
  MaxRetries = 1
  Backoff = 3
  BackoffMax = 3
  Delay = 1
  LastSubmit = 1
  MaxClock = 11
INVARIANTS Paced StoredOnce Admitted
PROPERTY ResultsEnd
CHECK_DEADLOCK FALSE
