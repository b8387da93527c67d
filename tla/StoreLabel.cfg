SPECIFICATION Spec
CONSTANTS
  Phones = {p1}
  Locations = {here}
  Rooms = {hall}
  Fingerprints = {f1}
  NoJob = NoJob
  NoEntry = NoEntry
  SelectAnswers = {TRUE}
  WriteAnswers = {TRUE, FALSE}
  MaxRows = 9
PROPERTY
  ShownIsStored
