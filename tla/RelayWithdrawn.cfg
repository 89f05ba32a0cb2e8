SPECIFICATION FairRelaySpec
CONSTANTS
  gs=gs
  ls1=ls1
  ls2=ls2
  client=client
  agent=agent
  Starts <- NoneUp
  Global = gs
  Locals = {ls1}
  Clients = {}
  Agents = {agent}
  MaxHops = 4
  Capacity = 1
  MaxConns = 3
  MaxAsks = 0
  MaxFailed = 1
PROPERTY RoutesFollow
CHECK_DEADLOCK FALSE
