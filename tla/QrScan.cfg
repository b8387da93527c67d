SPECIFICATION Spec
CONSTANTS
  Codes <- MCCodes
  Known <- MCKnown
  NoLabels = "none"
  MaxQueued = 2
INVARIANTS
  TypeOK
  ScreenAlive
  CameraOffWhenHidden
