CONSTANTS
  Devices = {d1}
  Sciences = {c1}
  Engineering = {}
  Pharmacy = {c2}
  Taps = {k1, k2}
  NoCourse = NoCourse
  Gone = Gone
  MaxPending = 2
SPECIFICATION Spec
SYMMETRY Symmetry
INVARIANTS TypeOK AppliedIsRecorded ManualNeedsApproval
PROPERTIES ApprovalLasts AlreadyIsTrue OthersKept ApprovedOpens
