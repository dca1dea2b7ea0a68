CONSTANTS
  Cap <- Slots
  MaxWork = 4
  Events <- Undisturbed
SPECIFICATION FairSpec
PROPERTY SendReturns
CHECK_DEADLOCK FALSE
