\* One buffer with two contents, in a pane of two sizes that may be empty.
CONSTANTS
    b1 = b1
    t1 = t1
    t2 = t2
    Buffer = {b1}
    Texture = {}
    Target = {t1, t2}
    NoTarget = NoTarget
    Value = {0, 1}
    Blank = 0
    MaxSize = 2
    Window = 1
    TestGap = 1
    Failure = {"failed"}
    RestoreFails = FALSE
    FallbackGap = 1
    MaxFailures = 1
    Syncs = {TRUE}
    Happens = {"resize", "empty"}
SPECIFICATION Spec
SYMMETRY Handles
INVARIANTS
    SettledIsCurrent
