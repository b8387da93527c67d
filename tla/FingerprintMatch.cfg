SPECIFICATION Spec
\* getPoint returns.
CHECK_DEADLOCK FALSE
CONSTANTS
  Seats = 6
  Columns = 4
  Limit = 20
  Absent = 1000
  Records <- StoredRecords
  MaxRecords = 7
INVARIANTS
  TypeOK
  SeatsAgree
  NearestKept
  EstimateNeedsAllSeats
  BestVotesAveraged
  DominanceRespected
