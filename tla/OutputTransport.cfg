CONSTANTS
  MaxChunks = 2
  Captures <- SomeReads
  MaxMade = 4
  MaxEpoch = 3
SPECIFICATION FairSpec
INVARIANTS NoSilentGap ResetsInPlace TrueToEpoch
PROPERTY PushEnds
