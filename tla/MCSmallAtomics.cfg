SPECIFICATION Spec
CONSTANTS
  Thread = {t1, t2}
  SmallBits = 2
  WordBits = 4
  PartBits = 1
  Parts = {0, 1}
  ProxyCalls = 3
  WordCalls = 2
CHECK_DEADLOCK FALSE
PROPERTIES CallsReturn ProxyImplements WordImplements
