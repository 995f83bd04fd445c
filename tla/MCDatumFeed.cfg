SPECIFICATION Spec
CONSTANTS
  UNAVAILABLE = UNAVAILABLE
  AVAILABLE = AVAILABLE
  Epsilon = 2
  Long = {3, 5}
  MaxValue = 6
INVARIANT TypeOK
INVARIANT ShownIsTold
INVARIANT NoFalseChange
