\* The cells in one buffer and the atlas in one texture, with two contents; a
\* pane of one size, images that need OpenGL, a graph that is lost; one tick
\* in every window, and one failure before OpenGL is tried.
CONSTANTS
    b1 = b1
    x1 = x1
    t1 = t1
    t2 = t2
    Buffer = {b1}
    Texture = {x1}
    Target = {t1, t2}
    NoTarget = NoTarget
    Value = {0, 1}
    Blank = 0
    MaxSize = 1
    Window = 1
    TestGap = 1
    Failure = {"lost", "failed"}
    RestoreFails = FALSE
    FallbackGap = 1
    MaxFailures = 1
    Syncs = {TRUE, FALSE}
    Happens = {"graph", "feature"}
SPECIFICATION Spec
SYMMETRY Handles
INVARIANTS
    MirrorsAgree
    RetainedFrameWhole
    CommittedIsAttached
    OneProbePerWindow
PROPERTIES
    NeverGoesBack
