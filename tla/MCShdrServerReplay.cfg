SPECIFICATION Spec
CONSTANTS
  Conns = {c1}
  NoConn = NoConn
  MaxLines = 2
INVARIANT LastLineShown
CHECK_DEADLOCK FALSE
