SPECIFICATION FairSpec
CONSTANTS
  a = a
  b = b
  c = c
  hall = hall
  lab = lab
  Majors = {a, b, c}
  NoMajor = NoMajor
  Readings <- CollectReadings
  Batches <- CollectBatches
  Stations = 2
  Slots = 3
  Rounds = 3
  Rooms = {}
  NoRoom = NoRoom
  RoomOf <- NoRooms
  Scales = {1}
  NoScale = 0
  Points = {p}
  NoPoint = NoPoint
  DbAnswers = {TRUE}
  MaxAborts = 1
  MaxWaiting = 1
INVARIANTS
  TypeOK
  SlotSums
  PushedReadable
  PushedComplete
  PushedOwnReadings
  PushedFullCount
PROPERTY CollectionEnds
