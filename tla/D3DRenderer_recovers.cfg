\* One buffer with two contents, in a pane of one size; a graphics stack that
\* may refuse calls, and may stop failing.
CONSTANTS
    b1 = b1
    t1 = t1
    t2 = t2
    Buffer = {b1}
    Texture = {}
    Target = {t1, t2}
    NoTarget = NoTarget
    Value = {0, 1}
    Blank = 0
    MaxSize = 1
    Window = 1
    TestGap = 1
    Failure = {"failed", "contract"}
    RestoreFails = FALSE
    FallbackGap = 1
    MaxFailures = 1
    Syncs = {TRUE}
    Happens = {"calm", "feature"}
SPECIFICATION FairSpec
PROPERTY Recovers
