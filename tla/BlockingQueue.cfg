CONSTANTS
  Producers = {p1, p2}
  Values = {a, b}
  Undef = Undef
  Capacity = 2
  MaxPushes = 4
SPECIFICATION LiveSpec
INVARIANTS NobodyStranded RefusalJustified
PROPERTIES ImplementsFifo BlockedReturns FlagReleases
CHECK_DEADLOCK FALSE
