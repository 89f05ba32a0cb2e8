SPECIFICATION ReplSpec
CONSTANTS
  r1 = r1
  r2 = r2
  Rows = {r1}
  Requests <- OnlyModel
  Capacity = 9
  MaxRev = 2
  MaxStreams = 1
INVARIANTS
  LiveChangesAreStreamed
CHECK_DEADLOCK FALSE
