CONSTANTS
  Valid <- AB
  Matching <- A
  Invalid <- Bracket
  Failing <- A
  Acts <- AllActs
  MaxGen = 3
  MaxSelects = 1
SPECIFICATION Spec
INVARIANTS ResultsCurrent ReplacedCurrent
PROPERTY BarFollows
CHECK_DEADLOCK FALSE
