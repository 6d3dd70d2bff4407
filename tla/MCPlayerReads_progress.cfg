SPECIFICATION ReadSpec
CONSTANTS
  w1 = w1
  w2 = w2
  None = None
  bad = bad
  Poison = bad
  Workers <- MCWorkers
  Users <- MCUsers
  Days <- MCDays
  Hash <- MCHash
  Logs <- MCLogs
  FaultKinds = {"redis", "crash", "rebalance", "fetch", "commit", "produce", "call"}
  Budget = 4
CHECK_DEADLOCK FALSE
SYMMETRY Symmetry
INVARIANTS
  TypeOK
  SeenApplied
  StreakEarned
  StreakComplete
  ThresholdTold
  RewardsEarned
  MaxBatchIsMax
  QuestOnce
  AnswerFits
PROPERTIES
  TallySpec
