CONSTANTS
  Users = {u1, u2}
  NoUser = NoUser
  MaxChanges = 3
  MaxCloses = 1
SPECIFICATION FairSpec
INVARIANTS RightCredentials Asserted
PROPERTY StartSettles
CHECK_DEADLOCK FALSE
