CONSTANTS
  Root = root
  None = none
  Proxies = {a, b, c, d, e}
  Branches = 2
  Faults = {"crash"}
  MaxFaults = 1
SPECIFICATION CalmSpec
SYMMETRY Symmetry
CHECK_DEADLOCK FALSE
INVARIANT StitchedTogether
