SPECIFICATION Spec
CONSTANTS
  c1 = c1  c2 = c2  c3 = c3  p1 = p1  p2 = p2
  NoProc = NoProc
  Commands <- ThreeCommands
  Malformed <- BadCommand
  Procs <- TwoProcs
  Prompts = {"I"}
  Faults = {"exit", "spawn", "read", "stop"}
SYMMETRY Interchangeable
INVARIANTS TypeOK QueueHoldsWaiting FlagMatchesQueue OneServer FrontIsOutstanding
PROPERTY ImplementsService
CHECK_DEADLOCK FALSE
