CONSTANTS
  Cap <- Slots
  MaxWork = 3
  Events <- Endings
SPECIFICATION FairSpec
INVARIANTS LockDiscipline NothingUsesFreed NoLostWake
PROPERTY JoinsFinish
CHECK_DEADLOCK FALSE
