CONSTANTS
  Root = root
  a = a
  b = b
  c = c
  Others = {a, b, c}
  Parent <- Tree
  Unknown = unknown
  Absent = absent
  MaxClients = 3
  MaxIncrements = 2
  MaxFaults = 1
SPECIFICATION FairSpec
CHECK_DEADLOCK FALSE
INVARIANTS
  TypeOK
  SeenIsCounted
  ExactWhileCalm
PROPERTIES
  Propagates
