SPECIFICATION ResidentSpec
CONSTANTS
  Rows = {p}
  Temporal = {}
  Threads = {t1}
  MaxOps = 2
  MaxDrops = 1
INVARIANT RemovalsAreHeard
CHECK_DEADLOCK FALSE
