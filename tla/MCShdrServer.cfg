SPECIFICATION FairSpec
CONSTANTS
  Conns = {c1, c2}
  NoConn = NoConn
  MaxLines = 2
INVARIANT TypeOK
INVARIANT NoSocketLeak
INVARIANT LastLineReceived
PROPERTY StopClosesAll
PROPERTY GoneIsClosed
CHECK_DEADLOCK FALSE
