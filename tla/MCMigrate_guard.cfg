SPECIFICATION Spec
CONSTANTS
  r1 = r1
  r2 = r2
  r3 = r3
  Runners <- MCRunners
  None = None
  Latest = 4
  MinSafe = 1
  MaxRuns = 8
CHECK_DEADLOCK FALSE
SYMMETRY Symmetry
INVARIANTS
  TypeOK
  DataKept
  NoGap
