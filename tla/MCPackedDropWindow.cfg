SPECIFICATION FairSpec
CONSTANTS
  Thread = {t1, t2}
  Observer = {}
  M = 4
  MaxPhase = 5
  Quiesce = FALSE
PROPERTY WaitReturns
CHECK_DEADLOCK FALSE
