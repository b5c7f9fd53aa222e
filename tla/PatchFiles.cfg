CONSTANTS
  p1 = p1
  p2 = p2
  q1 = q1
  Incoming = {p1, p2}
  Outgoing = {q1}
  MaxCrashes = 2
SPECIFICATION Spec
INVARIANTS TypeOK FinalIsWhole KnownIsOnDisk
PROPERTIES MovesAreAtomic
CHECK_DEADLOCK FALSE
