SPECIFICATION Spec
CONSTANTS
  Thread = {t1, t2, t3}
  MaxPhase = 3
  Byte = 4
  Favorite = TRUE
  StartAt = {0}
INVARIANT InTree
