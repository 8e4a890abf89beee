CONSTANTS
  c = c
  d = d
  Jobs = {j1, j2}
  Commands = {c, d}
  Runs <- MCRuns
  Web = {w1, w2}
  Saver = saver
  Absent = absent
  Torn = torn
  Hole = hole
  W = 3
  MaxSaves = 3
  MaxAsks = 2
  MaxFaults = 1
SPECIFICATION Spec
SYMMETRY Symmetry
INVARIANTS
  TypeOK
  MemoryIsDisk
  StartFailsOnCutOnly
  SettledModelIsCurrent
  WalltimeUnlessScraped
CHECK_DEADLOCK FALSE
