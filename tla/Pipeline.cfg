CONSTANTS
  Users = {u1, u2}
  MaxPending = 2
  MaxWrites = 4
SPECIFICATION FairSpec
INVARIANTS Consistent NewestStands
PROPERTIES DurableSpec WritesSettle
CHECK_DEADLOCK FALSE
