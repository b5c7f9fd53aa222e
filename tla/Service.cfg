CONSTANTS
  c1 = c1
  c2 = c2
  f1 = f1
  f2 = f2
  NoFolder = NoFolder
  Calls = {c1, c2}
  Folders = {f1, f2}
  MaxRestarts = 1
SPECIFICATION LiveSpec
INVARIANTS CoreTypeOK StopMeansStopped ServiceKeepsItsCore
  RegistryTypeOK OneManagerPerFolder AddedIsKept StopLeavesNoSave
PROPERTIES StopReturnsUnless CallsFinish
CHECK_DEADLOCK FALSE
