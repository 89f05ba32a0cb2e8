SPECIFICATION MCReplSpec
CONSTANTS
  r1 = r1
  r2 = r2
  Rows = {r1, r2}
  Requests <- Both
  Capacity = 3
  MaxRev = 2
  MaxStreams = 2
INVARIANTS
  ReplTypeOK
  MarkerMeansComplete
  DeletedStaysDeleted
PROPERTIES
  NeverRegresses
  EventsArrive
  WatchesEnd
  SubscriptionsAreAnswered
  GoneIsNoticed
CHECK_DEADLOCK FALSE
