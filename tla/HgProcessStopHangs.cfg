SPECIFICATION FairSpec
CONSTANTS
  c1 = c1  c2 = c2  c3 = c3  p1 = p1  p2 = p2
  NoProc = NoProc
  Commands <- TwoCommands
  Malformed = {}
  Procs <- TwoProcs
  Prompts = {}
  Faults = {"stop"}
PROPERTY StopReleasesCallers
CHECK_DEADLOCK FALSE
