SPECIFICATION Spec
CONSTANTS
  MaxOpens = 3
  MaxPictures = 4
INVARIANTS TypeOK InStep PictureShownWhole ClosedIsStopped SurvivesNotedLoss
CHECK_DEADLOCK FALSE
