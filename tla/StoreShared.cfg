SPECIFICATION Spec
CONSTANTS
  Phones = {p1, p2, p3}
  Locations = {here}
  Rooms = {hall, lab}
  Fingerprints = {f1}
  NoJob = NoJob
  NoEntry = NoEntry
  SelectAnswers = {TRUE}
  WriteAnswers = {TRUE, FALSE}
  MaxRows = 9
INVARIANTS
  TypeOK
  OneRowPerPhone
PROPERTY
  RowsArePermanent
