CONSTANTS
  Conns = {c1, c2, c3}
  MaxPermits = 2
SPECIFICATION ServerSpec
INVARIANTS PermitsMatch ReadInTimeIsAnswered
PROPERTY ConnectionsEnd
