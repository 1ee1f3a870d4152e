SPECIFICATION Spec
CONSTANTS
  HeapUnits = 14
  Lens = {12}
  GlobalsLen = 1
  MaxHeld = 5
  LastFirst = FALSE
  FrontInMiddle = TRUE
CHECK_DEADLOCK FALSE
INVARIANT HandedOutOnce
