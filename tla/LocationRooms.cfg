SPECIFICATION Spec
CONSTANTS
  a = a
  b = b
  c = c
  hall = hall
  lab = lab
  Majors = {a, b}
  NoMajor = NoMajor
  Readings <- RoomReadings
  Batches <- RoomBatches
  Stations = 1
  Slots = 2
  Rounds = 2
  Rooms = {hall, lab}
  NoRoom = NoRoom
  RoomOf <- TwoRooms
  Scales = {1}
  NoScale = 0
  Points = {p}
  NoPoint = NoPoint
  DbAnswers = {TRUE, FALSE}
  MaxAborts = 0
  MaxWaiting = 2
INVARIANTS
  RangingIsServed
  StartedMeansRanging
  SwitchedTogether
  RulerOfTrackedRoom
