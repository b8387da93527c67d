SPECIFICATION FairSpec
CONSTANTS
  MaxId = 2
  InIds = {1, 2}
  MaxWindow = 1
  MaxMessages = 1
  MaxConnects = 3
  MaxPackets = 1
PROPERTIES
  InDelivered
  Arrives
CHECK_DEADLOCK FALSE
