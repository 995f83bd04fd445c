SPECIFICATION FairSpec
CONSTANTS
  UNAVAILABLE = UNAVAILABLE
  AVAILABLE = AVAILABLE
  Epsilon = 0
  Long = {}
  c1 = c1
  c2 = c2
  NULL = NULL
  Clients = {c1, c2}
  Stalling = {c1, c2}
  MaxPaths = 1
  Followed = {"macropath"}
  MaxSessions = 2
INVARIANT TypeOK
INVARIANT HandleBalanced
INVARIANT LostMeansUnavailable
INVARIANT OneConnection
PROPERTY Recovers
CHECK_DEADLOCK FALSE
