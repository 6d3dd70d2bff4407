SPECIFICATION Spec
CONSTANTS
  u1 = u1
  w1 = w1
  w2 = w2
  Game = Game
  Users <- MCUsers
  Workers <- TwoWorkers
  FaultKinds = {"crash", "coldloss"}
  MaxFaults = 3
  MaxClicks = 2
  MaxDays = 0
PROPERTY
  RestoreOnlyAdds
