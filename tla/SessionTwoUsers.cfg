CONSTANTS
  Devices = {d1}
  Users = {u1, u2}
  None = None
  NoDoc = NoDoc
  NullId = NullId
  NotCached = NotCached
  MaxPending = 2
SPECIFICATION FairSpec

PROPERTIES BindingSpec SplashLeaves FormSettles ClaimsSettle

