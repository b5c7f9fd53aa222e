SPECIFICATION Spec
CONSTANTS
  d1 = d1  d2 = d2
  Devices <- TwoDevices
  Populated = {}
  MaxEdits = 2
  MaxCrashes = 0
  Radix = 2
  Events = {"remote"}
INVARIANT OrderDoesNotMatter
CHECK_DEADLOCK FALSE
