CONSTANTS
  load = load
  Metrics = {load}
  Values = {0, 1, 2}
  Names = {a}
  Conditions <- MCConditions
  Checkers = {checker}
  Listers = {lister}
  Icc = icc
  Writers = {w1, w2}
  None = none
SPECIFICATION Spec
INVARIANTS
  TypeOK
  ListedIsConsistent
  ControllerAgrees
PROPERTIES
  AnsweredUnlessNested
CHECK_DEADLOCK FALSE
