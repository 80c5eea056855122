SPECIFICATION Spec
CONSTANTS
  MaxTrial = 2
  Erased = Erased
  Images <- MCImages
  FlashFaults = FALSE
  APP_AUTO_CONFIRM = FALSE
INVARIANTS
  TrialBudget
  StartsElectedOrTrial
  BlamesTrialOrOperator
  AppIsWatched
PROPERTIES
  BootStartsNewestSigned
  ImplementsPolicy
