SPECIFICATION LiveSpec
CONSTANTS
  u1 = u1
  ch1 = ch1
  r1 = r1
  w1 = w1
  w2 = w2
  NoUser = NoUser
  Poison = Poison
  None = None
  Users <- MCUsers
  Challenges <- OneChallenge
  Calls <- OneCall
  Workers <- MCWorkers
  MinIntervals = {1}
  IngestFaults = {"unknown"}
  GroupFaults = {"crash", "rebalance", "commit"}
  MaxFaults = 1
  MaxRequest = 1
  Life = 1
  MaxLag = 0
  SeenTTL = 3
  MaxRecords = 2
  MaxTime = 4
CHECK_DEADLOCK FALSE
INVARIANT
  CommittedHandled
PROPERTIES
  EveryRecordHandled
  GroupSpec
  AckedIsCounted
