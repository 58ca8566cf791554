CONSTANTS
  Devices = {d1, d2}
  Users = {u1}
  None = None
  NoDoc = NoDoc
  NullId = NullId
  NotCached = NotCached
  MaxPending = 1
SPECIFICATION Spec
SYMMETRY Symmetry
INVARIANTS TypeOK HomeSignedIn HomeClaimed SingleRegistration
PROPERTIES OrphanStays DisplacedStaysOut BindingSpec

