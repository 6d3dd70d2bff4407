SPECIFICATION Spec
CONSTANTS
  u1 = u1
  ch1 = ch1
  ch2 = ch2
  r1 = r1
  r2 = r2
  r3 = r3
  NoUser = NoUser
  Users <- OneUser
  Challenges <- MCChallenges
  Calls <- ThreeCalls
  MinIntervals = {2}
  Life = 3
  MaxRequest = 3
  FaultKinds = {}
  MaxFaults = 0
  MaxRecords = 2
  MaxTime = 5
CHECK_DEADLOCK FALSE
INVARIANT
  EventOrder
