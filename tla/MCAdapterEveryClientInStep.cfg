SPECIFICATION Spec
CONSTANTS
  Clients = {c1, c2}
  NULL = NULL
  MaxClients = 2
  Stalling = {c1, c2}
  NumData = 2
  FlushData = {2}
  Values = {u, v}
  NoValue = novalue
INVARIANT EveryClientInStep
