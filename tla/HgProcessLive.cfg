SPECIFICATION FairSpec
CONSTANTS
  c1 = c1  c2 = c2  c3 = c3  p1 = p1  p2 = p2
  NoProc = NoProc
  Commands <- ThreeCommands
  Malformed <- BadCommand
  Procs <- TwoProcs
  Prompts = {}
  Faults = {"spawn"}
INVARIANT NoUndefinedBehaviour
PROPERTY EveryCommandAnswered
