SPECIFICATION FairSpec
CONSTANTS
  d1 = d1  d2 = d2
  Devices <- TwoDevices
  Populated = {}
  MaxEdits = 2
  MaxCrashes = 1
  Radix = 10
  Events = {"remote"}
INVARIANT OrderDoesNotMatter
PROPERTY PatchesSpread
