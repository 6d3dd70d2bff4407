SPECIFICATION Spec
CONSTANTS
  ch1 = ch1
  ch2 = ch2
  w1 = w1
  w2 = w2
  Challenges <- OneChallenge
  Workers <- MCWorkers
  Poison = Poison
  None = None
  Window = 1
  MaxLag = 1
  SeenTTL = 3
  FaultKinds = {"redis"}
  MaxFaults = 1
  MaxRecords = 2
  MaxTime = 2
CHECK_DEADLOCK FALSE
INVARIANT
  CommittedHandled
