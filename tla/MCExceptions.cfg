SPECIFICATION Spec
CONSTANTS
  Threads = {t1, t2}
  Alone = {t1}
  Primaries = {a, b}
  Dependents = {d}
  Foreigns = {f}
  SharedDepth = 3
  AloneDepth = 4
  SharedPtrs = 2
  AlonePtrs = 1
  NestedForeign = 1
SYMMETRY Symmetry
CHECK_DEADLOCK FALSE
INVARIANTS LivesWhileOwned CountsRight RightException Tiled UnwindsAsPlanned
PROPERTIES SpecHonoured
