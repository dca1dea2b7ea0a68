CONSTANTS
    None = None
    MaxPanes = 3
    MaxTabs = 3
    HistoryMax = 2
    SplitSides <- RightOnly
    DropSides <- LeftOnly
SPECIFICATION Spec
CHECK_DEADLOCK FALSE
INVARIANTS
    MappingAgrees
    PanesAccounted
    RetainedIsHeld
    RoundTrips
    RefusalsExplained
PROPERTIES
    UndoReverts
