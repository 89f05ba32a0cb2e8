SPECIFICATION MCRelaySpec
CONSTANTS
  gs=gs
  ls1=ls1
  ls2=ls2
  client=client
  agent=agent
  Starts <- Topologies
  Global = gs
  Locals = {ls1, ls2}
  Clients = {client}
  Agents = {agent}
  MaxHops = 4
  Capacity = 1
  MaxConns = 4
  MaxAsks = 4
  MaxFailed = 1
PROPERTY AnswersReturn
INVARIANTS RelayTypeOK HopsToSpare
CHECK_DEADLOCK FALSE
