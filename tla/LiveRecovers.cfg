SPECIFICATION LiveSpec
CONSTANTS
  MaxTrial = 2
  Erased = Erased
  Images <- MCImages
  FlashFaults = FALSE
  APP_AUTO_CONFIRM = FALSE
  GoodSlot = 0
  Commands = {"trial", "run", "boot"}
  Patient = TRUE
  MaxOutside = 5
PROPERTIES
  BoardRecovers
  WindowEnds
CHECK_DEADLOCK FALSE
