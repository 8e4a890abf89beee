CONSTANTS
  Jobs = {main, a}
  SysJobs = {main}
  Shared = main
  Clients = {c1, c2}
  Children = {s1, s2}
  Self = self
  None = none
  Aggregator = TRUE
  MaxLost = 1
SPECIFICATION Spec
SYMMETRY Symmetry
INVARIANTS
  TypeOK
  RefcountCovers
  RefcountExactUnlessLost
  OpenTraceIsScrapedUnlessBroken
PROPERTIES
  RetiredWhenUnused
  ImplementsJobLife
