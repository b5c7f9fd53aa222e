SPECIFICATION FairSpec
CONSTANTS
  d1 = d1  d2 = d2
  Devices <- TwoDevices
  Populated = {}
  MaxEdits = 2
  MaxCrashes = 0
  Radix = 10
  Events = {"remote"}
PROPERTY EveryCommitPublished
CHECK_DEADLOCK FALSE
