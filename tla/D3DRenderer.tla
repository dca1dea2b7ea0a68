---------------------------- MODULE D3DRenderer ----------------------------
(***************************************************************************)
(* A pane drawn with Direct3D 11: the frames of the generic renderer       *)
(* (generic.zig drawFrame) made of calls to the bridge, the loop around    *)
(* them that retries a frame, counts failures and falls back to OpenGL     *)
(* (Windows.zig drawFrame), and the graphics stack under them, which may   *)
(* fail any call, lose the device at any time and hide the window.         *)
(*                                                                         *)
(* A frame runs on the UI thread under the draw mutex: the terminal, the   *)
(* window's size and its visibility change between frames, the device may  *)
(* be lost between any two calls of one.                                   *)
(***************************************************************************)
EXTENDS D3DBridge

CONSTANTS FallbackGap,   \* ticks between two tries of OpenGL (5 s)
          MaxFailures,   \* frames that fail before OpenGL is tried (3)
          Syncs,         \* the values of sync a paint may pass; all pass TRUE today
          Happens        \* what this instance's environment does, of Kinds

\* The pane is resized, a feature Direct3D lacks is asked for, the client area
\* is empty at times, the composition graph is lost alone, failures and
\* requests come to an end.
Kinds == {"resize", "feature", "empty", "graph", "calm"}

ASSUME RendererAssumption ==
    /\ FallbackGap \in Nat \ {0} /\ MaxFailures \in Nat \ {0}
    /\ Happens \subseteq Kinds /\ Syncs \in {{TRUE}, BOOLEAN}
    /\ \E t, u \in Target : t # u

VARIABLES
    d,           \* the bridge
    screen,      \* what the terminal wants each resource to hold
    dirty,       \* resources whose change no frame has uploaded
    todo,        \* dirty resources the frame has still to upload
    rebuilt,     \* cells_rebuilt
    view,        \* the pane's size
    seen,        \* size.screen: the size the renderer has taken over
    minimised,   \* the client area is empty
    cur,         \* the frame state's target
    pc,          \* where the UI thread is in a frame
    sync,        \* the frame must not be skipped
    attempt,     \* of the two attempts at a frame
    err,         \* the attempt returned an error
    healthy,     \* the renderer's health
    failures,    \* draw_failures
    paint,       \* the pane has been asked to draw
    retry,       \* presentation_pending: it draws again within 250 ms
    backend,     \* "d3d11", or "opengl" for good
    wants,       \* pending_fallback
    blocked,     \* fallback_blocked
    fallbackIn   \* ticks until fallback_retry_ms

content == <<screen, rebuilt, view, minimised>>
frame == <<seen, cur, sync, attempt, err>>
locals == <<todo, sync, attempt, err>>
fallback == <<backend, wants, blocked, fallbackIn>>
vars == <<d, screen, dirty, todo, rebuilt, view, seen, minimised, cur, pc, sync,
          attempt, err, healthy, failures, paint, retry, backend, wants, blocked,
          fallbackIn>>

\* A pane starts with one device, the candidate startup chose, and with its
\* resources created; the user's policy is given to the bridge next.
Init ==
    \E soft \in BOOLEAN, first \in Target :
        /\ cur = first
        /\ d = Created(soft,
                [r \in Resource |-> [size |-> IF r \in Buffer THEN 1 ELSE MaxSize,
                                     data |-> Blank]],
                [t \in Target |-> IF t = first
                    THEN [Freed EXCEPT !.made = TRUE, !.gpu = TRUE, !.size = 1] ELSE Freed])
        /\ screen = [r \in Resource |-> Blank] /\ dirty = Resource /\ todo = {}
        /\ rebuilt = TRUE /\ view = 1 /\ seen = 1 /\ minimised = FALSE
        /\ pc = "policy" /\ sync = FALSE /\ attempt = 1 /\ err = FALSE
        /\ healthy = TRUE /\ failures = 0 /\ paint = TRUE /\ retry = FALSE
        /\ backend = "d3d11" /\ wants = FALSE /\ blocked = FALSE /\ fallbackIn = 0

SetPolicy ==
    /\ pc = "policy"
    /\ \E force \in {FALSE, d.warp} : d' = SetRecoveryPreference(d, force)
    /\ pc' = "idle"
    /\ UNCHANGED <<content, dirty, todo, frame, healthy, failures, paint, retry, fallback>>

----------------------------------------------------------------------------
(***************************************************************************)
(* Trying OpenGL.                                                          *)
(***************************************************************************)
WantsFallback == wants \/ d.unavailable \/ failures >= MaxFailures

\* The locals of a frame end with it.
EndFrame == /\ pc' = "idle"
            /\ todo' = {} /\ sync' = FALSE /\ attempt' = 1 /\ err' = FALSE

Kept == UNCHANGED <<screen, view, minimised, dirty, seen, cur, healthy>>

\* The swapchain has been taken off the window and OpenGL has started on it.
FallBack ==
    /\ fallbackIn = 0
    /\ \E x \in SuspendPresentation(d) : ~Failed(x.hr) /\ d' = ReleaseDevice(x.d)
    /\ backend' = "opengl" /\ wants' = FALSE /\ retry' = FALSE
    /\ EndFrame
    /\ Kept /\ UNCHANGED <<rebuilt, failures, paint, blocked, fallbackIn>>

\* The swapchain stays, or OpenGL does not start: Direct3D goes on.
FallBackFails ==
    /\ fallbackIn = 0
    /\ \E x \in SuspendPresentation(d) : (Failed(x.hr) \/ ~d.calm) /\ d' = x.d
    /\ wants' = FALSE /\ blocked' = TRUE /\ fallbackIn' = FallbackGap
    /\ rebuilt' = TRUE
    /\ UNCHANGED backend

NoFallBack == /\ fallbackIn > 0
              /\ UNCHANGED <<d, wants, blocked, fallbackIn, rebuilt, backend>>

----------------------------------------------------------------------------
(***************************************************************************)
(* One frame.                                                              *)
(***************************************************************************)
Paint ==
    /\ pc = "idle" /\ backend = "d3d11"
    /\ paint \/ retry
    /\ paint' = FALSE
    /\ \E s \in Syncs : sync' = s
    /\ attempt' = 1 /\ err' = FALSE
    /\ pc' = IF WantsFallback THEN "fallback" ELSE "recover"
    /\ UNCHANGED <<d, content, dirty, todo, seen, cur, healthy, failures, retry, fallback>>

\* Without OpenGL an unavailable device waits for the next try of it.
EnterFallback ==
    /\ pc = "fallback"
    /\ \/ FallBack
       \/ /\ FallBackFails \/ NoFallBack
          /\ IF d.unavailable THEN EndFrame /\ retry' = TRUE
             ELSE pc' = "recover" /\ UNCHANGED <<retry, locals>>
          /\ Kept /\ UNCHANGED <<failures, paint>>

\* drawFrameStart: what it answers is only logged.
RecoverFirst ==
    /\ pc = "recover"
    /\ \E x \in Recover(d) : d' = x.d
    /\ pc' = "decide"
    /\ UNCHANGED <<content, dirty, todo, frame, healthy, failures, paint, retry, fallback>>

MustRedraw == NeedsRedraw(d) \/ seen # view \/ rebuilt \/ sync \/ failures # 0

\* The apprt may know that the pane is empty, or still have its last size.
SkipEmpty ==
    /\ pc = "decide" /\ minimised
    /\ pc' = "judge" /\ err' = FALSE
    /\ UNCHANGED <<d, content, dirty, todo, seen, cur, sync, attempt, healthy, failures,
                   paint, retry, fallback>>

PresentRetained ==
    /\ pc = "decide" /\ ~MustRedraw
    /\ \E x \in PresentLast(d, minimised) : d' = x.d /\ err' = Failed(x.hr)
    /\ pc' = "judge"
    /\ UNCHANGED <<content, dirty, todo, seen, cur, sync, attempt, healthy, failures,
                   paint, retry, fallback>>

Prepare ==
    /\ pc = "decide" /\ MustRedraw
    /\ rebuilt' = FALSE /\ seen' = view /\ todo' = dirty
    /\ pc' = "target"
    /\ UNCHANGED <<d, screen, view, minimised, dirty, cur, sync, attempt, err, healthy,
                   failures, paint, retry, fallback>>

\* FrameState.resize: the new target first, then the end of the old one.
ReplaceTarget ==
    /\ pc = "target"
    /\ IF d.targets[cur].size = seen
       THEN /\ pc' = "upload"
            /\ UNCHANGED <<d, cur, err>>
       ELSE \E t \in {u \in Target : ~d.targets[u].made} :
            \E x \in TargetCreate(d, t, seen) :
               IF Failed(x.hr)
               THEN d' = x.d /\ cur' = cur /\ err' = TRUE /\ pc' = "judge"
               ELSE d' = TargetDestroy(x.d, cur) /\ cur' = t /\ err' = err /\ pc' = "upload"
    /\ UNCHANGED <<content, dirty, todo, seen, sync, attempt, healthy, failures, paint,
                   retry, fallback>>

\* Buffer.sync and syncAtlasTexture: room first, when there is not enough,
\* and the contents into it.
Room(r) == IF r \in Texture THEN {Result(d, "ok")} \cup TextureReplace(d, r)
           ELSE UNION {BufferReserve(d, r, n) : n \in 1..MaxSize}

\* The cells stay dirty until all of them are uploaded.
Upload(r) ==
    /\ pc = "upload" /\ r \in todo
    /\ \E room \in Room(r) :
        LET x == IF Failed(room.hr) THEN room
                 ELSE IF r \in Texture THEN TextureWrite(room.d, r, screen[r])
                 ELSE BufferWrite(room.d, r, screen[r])
        IN  /\ d' = x.d
            /\ IF Failed(x.hr)
               THEN err' = TRUE /\ pc' = "judge" /\ UNCHANGED <<todo, dirty>>
               ELSE /\ todo' = todo \ {r}
                    /\ dirty' = IF r \in Texture THEN dirty \ {r}
                                ELSE IF todo \cap Buffer = {r} THEN dirty \ Buffer
                                ELSE dirty
                    /\ UNCHANGED <<err, pc>>
    /\ UNCHANGED <<content, seen, cur, sync, attempt, healthy, failures, paint, retry, fallback>>

BeginFrame ==
    /\ pc = "upload" /\ todo = {}
    /\ \E x \in Recover(d) :
        /\ d' = x.d
        /\ err' = Failed(x.hr)
        /\ pc' = IF Failed(x.hr) THEN "judge" ELSE "clear"
    /\ UNCHANGED <<content, dirty, todo, seen, cur, sync, attempt, healthy, failures, paint,
                   retry, fallback>>

\* A pass that fails makes the frame unhealthy, and it is not presented.
Pass(from, x, to) ==
    /\ pc = from
    /\ d' = x.d
    /\ IF Failed(x.hr) THEN pc' = "judge" /\ err' = TRUE /\ healthy' = FALSE
       ELSE pc' = to /\ UNCHANGED <<err, healthy>>
    /\ UNCHANGED <<content, dirty, todo, seen, cur, sync, attempt, failures, paint, retry,
                   fallback>>

ClearTarget == Pass("clear", Clear(d, cur), "draw")
DrawPass == Pass("draw", Draw(d, cur), "present")

Present ==
    /\ pc = "present"
    /\ \E x \in PresentTarget(d, cur, TRUE, minimised) : d' = x.d /\ healthy' = ~Failed(x.hr)
    /\ pc' = "judge"
    /\ UNCHANGED <<content, dirty, todo, frame, failures, paint, retry, fallback>>

----------------------------------------------------------------------------
(***************************************************************************)
(* After an attempt: again, for a device that waits for its recovery, or   *)
(* the end of the frame, with OpenGL tried for a device that has none and  *)
(* after MaxFailures failures in a row.                                    *)
(***************************************************************************)
Counted == IF failures = MaxFailures THEN failures ELSE failures + 1

\* MUTANT: nothing asks for the next draw.
LaterNever == /\ EndFrame
              /\ Kept /\ UNCHANGED <<paint, retry>>
\* The end of a frame that is to be drawn again.
Later == /\ EndFrame /\ retry' = TRUE
         /\ Kept /\ UNCHANGED paint

Attempted(n) ==   \* draw_failures once this attempt's error is counted
    /\ failures' = n
    /\ \/ /\ d.unavailable
          /\ \/ FallBackFails \/ NoFallBack
          /\ Later
       \/ /\ ~d.unavailable /\ ~d.pending
          /\ err \/ ~healthy
          /\ IF n >= MaxFailures THEN FallBackFails \/ NoFallBack
             ELSE UNCHANGED <<d, fallback, rebuilt>>
          /\ Later
       \/ /\ ~d.unavailable /\ d.pending /\ attempt = 2
          /\ UNCHANGED <<d, fallback, rebuilt>>
          /\ Later
       \/ /\ ~d.unavailable /\ d.pending /\ attempt = 1
          /\ attempt' = 2 /\ err' = FALSE /\ pc' = "recover"
          /\ UNCHANGED <<d, content, dirty, todo, seen, cur, sync, healthy, paint, retry,
                         fallback>>

\* An attempt that returned an error counts, and one that ended unhealthy.
Counts == err \/ (~d.unavailable /\ ~d.pending /\ ~healthy)

JudgeFailure == /\ pc = "judge"
                /\ Attempted(IF Counts THEN Counted ELSE failures)

JudgeFallback ==
    /\ pc = "judge"
    /\ d.unavailable \/ (~d.pending /\ Counts /\ Counted >= MaxFailures)
    /\ FallBack

\* MUTANT: a frame for a hidden window is as good as any.
JudgeSuccessSettles ==
    /\ pc = "judge"
    /\ ~d.unavailable /\ ~d.pending /\ ~err /\ healthy
    /\ failures' = 0 /\ retry' = FALSE /\ EndFrame
    /\ Kept /\ UNCHANGED <<d, rebuilt, paint, fallback>>

JudgeSuccess ==
    /\ pc = "judge"
    /\ ~d.unavailable /\ ~d.pending /\ ~err /\ healthy
    /\ failures' = 0 /\ retry' = d.occluded /\ EndFrame
    /\ Kept /\ UNCHANGED <<d, rebuilt, paint, fallback>>

FrameStep ==
    \/ EnterFallback \/ RecoverFirst \/ SkipEmpty \/ PresentRetained \/ Prepare
    \/ ReplaceTarget \/ (\E r \in Resource : Upload(r)) \/ BeginFrame
    \/ ClearTarget \/ DrawPass \/ Present
    \/ JudgeFailure \/ JudgeFallback \/ JudgeSuccess

----------------------------------------------------------------------------
(***************************************************************************)
(* The terminal, the window and the graphics stack.                        *)
(***************************************************************************)
Between == pc = "idle" /\ backend = "d3d11" /\ ~d.calm

Write(r, v) ==
    /\ Between /\ screen[r] # v
    /\ screen' = [screen EXCEPT ![r] = v]
    /\ dirty' = dirty \cup {r} /\ rebuilt' = TRUE /\ paint' = TRUE
    /\ UNCHANGED <<d, todo, view, minimised, frame, pc, healthy, failures, retry, fallback>>

Resize(n) ==
    /\ "resize" \in Happens
    /\ Between /\ view # n
    /\ view' = n /\ paint' = TRUE
    /\ UNCHANGED <<d, screen, rebuilt, minimised, dirty, todo, frame, pc, healthy, failures,
                   retry, fallback>>

Minimise(empty) ==
    /\ "empty" \in Happens
    /\ Between /\ minimised # empty
    /\ minimised' = empty
    /\ paint' = (paint \/ ~empty)
    /\ UNCHANGED <<d, screen, rebuilt, view, dirty, todo, frame, pc, healthy, failures, retry,
                   fallback>>

Expose ==
    /\ Between /\ ~paint
    /\ paint' = TRUE
    /\ UNCHANGED <<d, content, dirty, todo, frame, pc, healthy, failures, retry, fallback>>

\* An image the backend cannot draw, or a configuration that asks for one.
NeedFeature(reload) ==
    /\ "feature" \in Happens
    /\ Between /\ ~wants
    /\ reload \/ ~blocked
    /\ wants' = TRUE
    /\ IF reload THEN blocked' = FALSE /\ fallbackIn' = 0 ELSE UNCHANGED <<blocked, fallbackIn>>
    /\ paint' = TRUE
    /\ UNCHANGED <<d, content, dirty, todo, frame, pc, healthy, failures, retry, backend>>

LoseDevice ==
    /\ d.device # "none" /\ ~d.gone /\ ~d.calm
    /\ d' = [d EXCEPT !.gone = TRUE]
    /\ UNCHANGED <<content, dirty, todo, frame, pc, healthy, failures, paint, retry, fallback>>

InvalidateGraph ==
    /\ "graph" \in Happens
    /\ d.graph.valid /\ ~d.calm
    /\ d' = [d EXCEPT !.graph.valid = FALSE]
    /\ UNCHANGED <<content, dirty, todo, frame, pc, healthy, failures, paint, retry, fallback>>

Less(n) == IF n = 0 THEN 0 ELSE n - 1
More(n) == IF n = Window THEN n ELSE n + 1

\* A frame is short against every gap: no deadline passes within one.
Tick ==
    /\ pc = "idle"
    /\ d' = [d EXCEPT !.retryIn = Less(d.retryIn), !.testIn = Less(d.testIn),
                      !.probeAge = More(d.probeAge)]
    /\ fallbackIn' = Less(fallbackIn)
    /\ UNCHANGED <<content, dirty, todo, frame, pc, healthy, failures, paint, retry,
                   backend, wants, blocked>>

\* From here on the graphics stack does what it is asked to, and nothing more
\* is asked of the pane.
Calm ==
    /\ "calm" \in Happens /\ ~d.calm /\ pc = "idle"
    /\ d' = [d EXCEPT !.calm = TRUE]
    /\ UNCHANGED <<content, dirty, todo, frame, pc, healthy, failures, paint, retry, fallback>>

Environment ==
    \/ \E r \in Resource, v \in Value : Write(r, v)
    \/ \E n \in 1..MaxSize : Resize(n)
    \/ \E empty \in BOOLEAN : Minimise(empty)
    \/ Expose
    \/ \E reload \in BOOLEAN : NeedFeature(reload)
    \/ LoseDevice \/ InvalidateGraph \/ Calm

Next == SetPolicy \/ Paint \/ FrameStep \/ Environment \/ Tick

Spec == Init /\ [][Next]_vars

\* The UI thread runs its frames, a draw that is due is made, and time
\* passes between frames, however many there are.
FairSpec == Spec /\ WF_vars(FrameStep) /\ WF_vars(Paint \/ SetPolicy) /\ SF_vars(Tick)

----------------------------------------------------------------------------
\* Types of every variable.
TypeOK ==
    /\ d \in Bridge
    /\ screen \in [Resource -> Value] /\ dirty \subseteq Resource /\ todo \subseteq Resource
    /\ rebuilt \in BOOLEAN /\ view \in 1..MaxSize /\ seen \in 1..MaxSize
    /\ minimised \in BOOLEAN /\ cur \in Target
    /\ pc \in {"policy", "idle", "fallback", "recover", "decide", "target", "upload",
               "clear", "draw", "present", "judge"}
    /\ sync \in BOOLEAN /\ attempt \in 1..2 /\ err \in BOOLEAN /\ healthy \in BOOLEAN
    /\ failures \in 0..MaxFailures /\ paint \in BOOLEAN /\ retry \in BOOLEAN
    /\ backend \in {"d3d11", "opengl"} /\ wants \in BOOLEAN /\ blocked \in BOOLEAN
    /\ fallbackIn \in 0..FallbackGap

\* Whatever was lost, failed or was rebuilt before, a bridge that draws draws
\* from copies of what preparation last wrote (the mirrors recovery uses).
MirrorsAgree ==
    ~d.pending /\ ~d.unavailable /\ backend = "d3d11"
        => \A r \in Resource : d.gpu[r] = CopyOf(d.cpu[r])

\* last_rendered never leads to a freed target, to one without a GPU texture
\* or to one whose pixels a recovery, a clear or a new target has taken.
RetainedFrameWhole ==
    d.last # NoTarget =>
        LET t == d.targets[d.last] IN t.made /\ t.gpu /\ t.rendered /\ t.pixels.whole

\* composition_committed says that what is presented is on the window: it is
\* never carried over to a graph that was not committed with its content.
CommittedIsAttached ==
    d.committed => d.swapchain /\ d.graph.made /\ (d.graph.live \/ ~d.graph.valid)

\* A device or a graph lost while nothing is due is noticed at the next draw.
AtRest == pc = "idle" /\ backend = "d3d11" /\ ~paint /\ ~retry
LostAtRest == AtRest /\ (d.gone \/ (d.graph.made /\ ~d.graph.valid))

\* A pane with nothing due shows what its terminal holds: no failure, skipped
\* frame, hidden window or recovery ends with an old frame left on screen.
OnScreen == d.swapchain /\ d.graph.live /\ d.front.whole /\ d.front.of = screen
SettledIsCurrent ==
    AtRest /\ ~minimised /\ ~LostAtRest => OnScreen

\* Recovery tries hardware once in a window at most.
OneProbePerWindow == d.probes <= 1

\* A bridge that gave up stays so, and shows nothing more; and no recovery
\* takes hardware from a user who chose software meanwhile.
NeverGoesBack ==
    [][/\ d.unavailable => d'.unavailable /\ d'.front \in {d.front, Undrawn}
       /\ d.forceWarp /\ d'.device = "hardware" => d.device = "hardware"]_vars

\* Once the graphics stack works again, the pane shows its terminal or has
\* gone over to OpenGL, and stays so.
Recovers ==
    <>[](d.calm => \/ OnScreen /\ ~d.gone /\ d.graph.valid
                   \/ backend = "opengl" \/ minimised \/ LostAtRest)
=============================================================================
