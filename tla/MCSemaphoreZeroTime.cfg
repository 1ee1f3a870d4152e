SPECIFICATION FairSpec
CONSTANTS
  Thread = {t1}
  Initial = 0
  MaxCount = 1
  Batch = {1}
  Remaining = {"zero"}
  Calls = 1
PROPERTY TimedReturns
CHECK_DEADLOCK FALSE
