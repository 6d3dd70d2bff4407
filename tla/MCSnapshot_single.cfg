SPECIFICATION LiveSpec
CONSTANTS
  u1 = u1
  w1 = w1
  w2 = w2
  Game = Game
  Users <- MCUsers
  Workers <- OneWorker
  FaultKinds = {"crash", "coldloss", "error"}
  MaxFaults = 4
  MaxClicks = 2
  MaxDays = 1
INVARIANTS
  TypeOK
  AheadOfBackup
PROPERTIES
  BackupNeverShrinks
  CountBackedUp
