SPECIFICATION Spec
CONSTANTS
  Sources = {s1, s2}
  Preparers = {p1, p2}
  Stagers = {g1}
  MaxFailures = 2
  MaxCrashes = 1
SYMMETRY Symmetry
INVARIANTS OnlyGoodImages SuccessIsCached
CHECK_DEADLOCK FALSE
