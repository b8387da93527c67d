SPECIFICATION FairSpec
CONSTANTS
  MaxId = 5
  InIds = {}
  MaxWindow = 1
  MaxMessages = 2
  MaxConnects = 3
  MaxPackets = 2
INVARIANTS
  TypeOK
  LimitsHold
  QueuedInOrder
  HandlersMatchFlows
PROPERTIES
  OutDelivered
  Settles
CHECK_DEADLOCK FALSE
