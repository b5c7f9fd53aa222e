SPECIFICATION Spec
CONSTANTS
  d1 = d1  d2 = d2
  Devices <- TwoDevices
  Populated <- TwoDevices
  MaxEdits = 2
  MaxCrashes = 2
  Radix = 10
  Events = {"remote", "revert", "hgfail", "disk", "partial"}
SYMMETRY Interchangeable
INVARIANTS TypeOK NoHoleInOutgoing MemoryMatchesDisk AppliedIsInStore StoredOnce
PROPERTY ImplementsExchange
CHECK_DEADLOCK FALSE
