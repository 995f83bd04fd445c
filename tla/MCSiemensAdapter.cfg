SPECIFICATION SiemensFairSpec
CONSTANTS
  Conns = {c1}
  NoConn = NoConn
  MaxLines = 5
  Windows = {"auto", "jog"}
  Alarms = {"normal", "fault"}
  None = None
  UNAVAILABLE = UNAVAILABLE
  AVAILABLE = AVAILABLE
  MaxFaults = 1
  MaxChanges = 1
  Start <- StartSample
INVARIANT SiemensTypeOK
INVARIANT ViewIsTrue
PROPERTY LossReported
PROPERTY Follows
CHECK_DEADLOCK FALSE
