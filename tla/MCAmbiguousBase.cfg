SPECIFICATION Spec
CONSTANTS
  Handlers = {}
  Thrown = {}
  Classes = 4
  MaxBases = 2
CHECK_DEADLOCK FALSE
INVARIANT OnlyUnambiguous
