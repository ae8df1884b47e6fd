SPECIFICATION ReadSpec
CONSTANTS
  MaxId = 7
  Limits <- MCLimits
  Window = 4
  Misses = 3
  Batch = 2
  m1 = m1
  m2 = m2
  Markets = {m1, m2}
  AxUsdFirst <- MCAxUsdFirst
  MaxRows = 4
INVARIANTS ReadTypeOK ScanComplete HistoryIsOwn
CHECK_DEADLOCK FALSE
