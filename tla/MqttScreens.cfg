SPECIFICATION FairSpec
CONSTANT MaxSwitches = 6
INVARIANTS
  TypeOK
  Settled
  NothingLeftOver
  GoodbyeIsLast
PROPERTY Unwinds
CHECK_DEADLOCK FALSE
