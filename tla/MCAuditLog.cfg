CONSTANTS
  Writers = {handler, collector}
  NoWriter = NoWriter
  Separated = {3}
  MaxEvents = 5
  MaxTears = 2
  MaxCopy = 3
  MaxForged = 1
SYMMETRY WriterSymmetry
SPECIFICATION Spec
INVARIANTS DetectsEdits DamageIsLocal AnchorsStay
CHECK_DEADLOCK FALSE
