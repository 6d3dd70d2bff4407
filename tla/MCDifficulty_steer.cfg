SPECIFICATION LiveSpec
CONSTANTS
  w1 = w1
  w2 = w2
  Controllers <- MCControllers
  MinL = 1
  MaxL = 3
  LowUpTo = 1
  MidUpTo = 3
  SlewInterval = 2
  FaultKinds = {"redis", "crash", "loss"}
  MaxFaults = 1
  MaxTime = 2
CHECK_DEADLOCK FALSE
INVARIANT
  TypeOK
  SlewWindow
PROPERTIES
  PairSettles
  CacheCatchesUp
