CONSTANTS
  Devices = {d1}
  Sciences = {}
  Engineering = {c1}
  Pharmacy = {}
  Taps = {k1}
  NoCourse = NoCourse
  Gone = Gone
  MaxPending = 1
SPECIFICATION Spec
PROPERTIES ApprovedOpens
