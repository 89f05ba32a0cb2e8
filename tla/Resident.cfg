SPECIFICATION FairResidentSpec
CONSTANTS
  Rows = {p, q}
  Temporal = {q}
  Threads = {t1, t2}
  MaxOps = 4
  MaxDrops = 1
INVARIANTS ResidentTypeOK MembersFollow ShowsTable
PROPERTY OnlyCirclesJam
CHECK_DEADLOCK FALSE
