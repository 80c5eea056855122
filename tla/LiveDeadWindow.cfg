SPECIFICATION LiveSpec
CONSTANTS
  MaxTrial = 2
  Erased = Erased
  Images <- MCImages
  FlashFaults = FALSE
  APP_AUTO_CONFIRM = FALSE
  GoodSlot = 0
  Commands = {"run"}
  Patient = FALSE
  MaxOutside = 2
PROPERTIES
  WindowEnds
CHECK_DEADLOCK FALSE
