SPECIFICATION Spec
CONSTANTS
  ch1 = ch1
  ch2 = ch2
  w1 = w1
  w2 = w2
  Challenges <- OneChallenge
  Workers <- MCWorkers
  Poison = Poison
  None = None
  Window = 1
  MaxLag = 1
  SeenTTL = 3
  FaultKinds = {"poison", "crash", "rebalance", "redis", "resend", "fetch", "commit"}
  MaxFaults = 3
  MaxRecords = 2
  MaxTime = 5
CHECK_DEADLOCK FALSE
SYMMETRY Symmetry
INVARIANTS
  TypeOK
  CreditAtMostOnce
  HandledCredited
  StatsFollowCredits
