CONSTANTS
  Root = root
  None = none
  Proxies = {a, b, c, d, e}
  Branches = 2
  Faults = {"crash", "suspicion", "retry", "restart", "leave", "sigterm"}
  MaxFaults = 2
SPECIFICATION Spec
SYMMETRY Symmetry
CHECK_DEADLOCK FALSE
INVARIANTS
  TypeOK
  TreeUnlessStray
