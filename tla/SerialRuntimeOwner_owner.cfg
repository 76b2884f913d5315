\* Four calls and two closing threads.  The system stops when everyone has
\* called and closed.
CONSTANTS
  Call = {c1, c2, c3, c4}
  Closer = {k1, k2}
  Stop = Stop
  NoCall = NoCall
SPECIFICATION SerialFairSpec
CHECK_DEADLOCK FALSE
PROPERTIES
  ImplementsSerialService
  ClosersReturn
