SPECIFICATION FairClientSpec
CONSTANTS
  a = a
  v = v
  Servers = {s1}
  Keys = {a, v}
  Standing <- OneStanding
  MaxConns = 2
  MaxViewCalls = 2
INVARIANTS
  ClientTypeOK
  PendingIsAttended
  ActiveIsOpen
  EntriesFollow
PROPERTIES
  DroppedEnds
  StandingIsServed
CHECK_DEADLOCK FALSE
