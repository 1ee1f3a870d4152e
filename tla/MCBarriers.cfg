SPECIFICATION BarriersSpec
CONSTANTS
  Thread = {t1, t2, t3}
  Observer = {o1}
  M = 4
  TreeByte = 4
  MaxPhase = 3
  Quiesce = TRUE
INVARIANTS WordInv CompletionCounts TreeClimbed
PROPERTIES ObserverNotEarly AllReturn Implements OthersImplement
