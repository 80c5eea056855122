SPECIFICATION Spec
CONSTANTS
  MaxTrial = 2
  Erased = Erased
  Images <- FewImages
  FlashFaults = TRUE
  APP_AUTO_CONFIRM = TRUE
INVARIANTS
  TypeOK
  RecordsWellFormed
