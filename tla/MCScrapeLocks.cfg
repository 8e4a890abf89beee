CONSTANTS
  a = a
  b = b
  a1 = a1
  b1 = b1
  b2 = b2
  Root = root
  Proxies = {a, b, a1, b1, b2}
  Tree <- MCTree
  Level <- MCLevel
  None = none
  MaxCrashes = 2
  MaxTries = 2
SPECIFICATION LocksSpec
INVARIANTS
  LocksTypeOK
  OneParentUnlessLate
PROPERTIES
  NobodyWaitsForever
CHECK_DEADLOCK FALSE
