SPECIFICATION Spec
CONSTANTS
  Phones = {p1}
  Locations = {here, there}
  Rooms = {hall, lab}
  Fingerprints = {f1, f2, f3}
  NoJob = NoJob
  NoEntry = NoEntry
  SelectAnswers = {TRUE}
  WriteAnswers = {TRUE, FALSE}
  MaxRows = 9
PROPERTY
  ImplementsMap
