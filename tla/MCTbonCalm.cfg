CONSTANTS
  Root = root
  None = none
  Proxies = {a, b, c, d}
  Branches = 1
  Faults = {"crash", "suspicion", "retry", "restart", "leave", "sigterm"}
  MaxFaults = 3
SPECIFICATION CalmSpec
CHECK_DEADLOCK FALSE
INVARIANT ScrapersFollowTable
PROPERTY RepairsComplete
