CONSTANTS
  Devices = {d1}
  Sciences = {c1}
  Engineering = {}
  Pharmacy = {}
  Taps = {k1, k2, k3}
  NoCourse = NoCourse
  Gone = Gone
  MaxPending = 3
SPECIFICATION FairSpec
PROPERTIES PressSettles
