SPECIFICATION AlgorithmsSpec
CONSTANTS
  Thread = {t1,t2,t3,t4}
  Loc = {x,y}
  t1 = t1
  t2 = t2
  t3 = t3
  t4 = t4
  x = x
  y = y
  Bits = 2
  Signed = FALSE
  Cases <- MCCases
CHECK_DEADLOCK FALSE
INVARIANTS
  OnlyInterleavings
  HappensBeforeSeen
  Faithful
  LengthAgrees
  CastRight
  CatchRight
PROPERTIES
  GetsThrough
