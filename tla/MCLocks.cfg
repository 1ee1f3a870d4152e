SPECIFICATION Spec
CONSTANTS
  Waiter = {w1, w2}
  Notifier = {n1, n2}
  Value = {0, 1}
  VersionNotifier = {n1}
  Thread = {t1, t2, t3}
  NoThread = NoThread
  MaxCount = 2
  \* Room for two readers, so that a third thread finds the mutex full.
  Readers = 2
  NativeWaits = 3
  Waits = 2
  Notifies = 3
  LockCalls = 6
  SharedCalls = 5
CHECK_DEADLOCK FALSE
INVARIANTS WakeUpNotLost Exclusion NoneForgotten
PROPERTIES CallsReturn
