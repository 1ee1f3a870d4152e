SPECIFICATION Spec
CONSTANTS
  Thread = {t1, t2, t3}
  Flag = {f, g}
  Owner = Owner
  Runner = Runner
  NoThread = NoThread
  HasThreadId = TRUE
  Recursion = TRUE
  OnceCalls = 5
  MutexCalls = 4
  FutexCalls = 5
  WaitCalls = 3
  Copies = 5
CHECK_DEADLOCK FALSE
INVARIANTS GuardsRight FutureNotUsedAfterFree OneResult ControlBlockRight
PROPERTIES CallsReturn InitializedOnce
