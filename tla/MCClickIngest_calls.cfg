SPECIFICATION Spec
CONSTANTS
  u1 = u1
  ch1 = ch1
  ch2 = ch2
  r1 = r1
  r2 = r2
  r3 = r3
  NoUser = NoUser
  Users <- OneUser
  Challenges <- MCChallenges
  Calls <- TwoCalls
  MinIntervals = {2}
  Life = 1
  MaxRequest = 3
  FaultKinds = {"redis", "produce", "unknown", "abort"}
  MaxFaults = 2
  MaxRecords = 3
  MaxTime = 6
CHECK_DEADLOCK FALSE
SYMMETRY Symmetry
INVARIANTS
  TypeOK
  IntervalKept
  RecordInWindow
  PromptInOrder
