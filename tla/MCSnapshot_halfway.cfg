SPECIFICATION Spec
CONSTANTS
  u1 = u1
  w1 = w1
  w2 = w2
  Game = Game
  Users <- MCUsers
  Workers <- OneWorker
  FaultKinds = {"crash", "coldloss", "halfway"}
  MaxFaults = 4
  MaxClicks = 1
  MaxDays = 0
INVARIANT
  AheadOfBackup
