CONSTANTS
  Txns = {t1, t2}
  Keys = {x, y}
  MaxAttempts = 2
  MaxWrites = 1
  MaxAbandoned = 1
SPECIFICATION Spec
SYMMETRY Symmetry
INVARIANTS TypeOK OkIsApplied
PROPERTY Serial
CHECK_DEADLOCK FALSE
