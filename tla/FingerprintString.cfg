SPECIFICATION Spec
CONSTANTS
  Majors = {10000, 65535, 999}
  Averages <- MCAverages
  Ranged <- MCRanged
  Proofreading = 0
  Columns = 4
  MaxSlots = 3
INVARIANTS
  TypeOK
  RoundTrip
\* getPoint goes on, or the application has ended.
CHECK_DEADLOCK FALSE
