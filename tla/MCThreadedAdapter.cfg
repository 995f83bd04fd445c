SPECIFICATION FairSpec
CONSTANTS
  Clients = {c1, c2}
  NULL = NULL
  MaxClients = 2
  Stalling = {c1, c2}
  ServerThread = server
  Gatherers = {g1}
  NumData = 2
  FlushData = {2}
  Values = {u}
  NoValue = novalue
  Heartbeating = {c1}
INVARIANT TypeOK
INVARIANT LoopsStayInList
INVARIANT OneGatherPerLine
INVARIANT ClientsInStep
PROPERTY GatherCompletes
PROPERTY InitialDataSent
