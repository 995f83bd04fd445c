SPECIFICATION FairSpec
CONSTANTS
  Clients = {c1, c2}
  NULL = NULL
  MaxClients = 1
  Stalling = {c1, c2}
  NumData = 1
  FlushData = {1}
  Values = {u}
  NoValue = novalue
INVARIANT TypeOK
PROPERTY AcceptedEventually
PROPERTY ClosedRemoved
PROPERTY SilentRemoved
