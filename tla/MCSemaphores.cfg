SPECIFICATION SemaphoresSpec
CONSTANTS
  Thread = {t1, t2, t3}
  Initial = 1
  MaxCount = 3
  Batch = {1, 2}
  Remaining = {"nonzero"}
  Calls = 5
  First = 0
  Expected = 4
  \* A release of 4 wakes three threads and leaves a permit over.
  NativeMax = 4
  Starts = {0, 4}
  Amounts = {1, 4}
  AcquireKinds = {TRUE, FALSE}
  Overlap = FALSE
  NativeCalls = 4
CHECK_DEADLOCK FALSE
INVARIANTS CountInv NativePermits PassedMeansZero
PROPERTIES PermitIsTaken Implements CallsReturn BinaryImplements
