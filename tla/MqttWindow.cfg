SPECIFICATION Spec
CONSTANTS
  MaxId = 3
  InIds = {}
  MaxWindow = 1
  MaxMessages = 2
  MaxConnects = 1
  MaxPackets = 2
INVARIANT WindowRespected
CHECK_DEADLOCK FALSE
