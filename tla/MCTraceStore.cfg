CONSTANTS
  Names = {x, y}
  MaxTraceSize = 6
  LengthBytes = 1
  DescBytes = 1
  MetaBytes = 1
  SampleBytes = 2
  EntryBytes = 1
  MaxClock = 8
  MaxKills = 2
  MaxFaults = 1
SPECIFICATION Spec
SYMMETRY Symmetry
CHECK_DEADLOCK FALSE
INVARIANTS
  TypeOK
  DiskIsMemory
  SamplesDescribed
  SamplesInOrder
  SampledPerPeriod
  IdsAreUnique
  SamplesBounded
  ReadersReturn
