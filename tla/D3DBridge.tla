----------------------------- MODULE D3DBridge -----------------------------
(***************************************************************************)
(* The C bridge between the renderer and Direct3D 11 (bridge.c) and the    *)
(* composition graph that puts its swapchain on a window                   *)
(* (composition.cpp).  A bridge is a record, the struct NocttyD3D; every   *)
(* exported call is an operator that gives the set of its results, one for *)
(* each way the graphics stack may answer the calls it makes.  All calls   *)
(* are made under the renderer's draw mutex, so none runs inside another.  *)
(*                                                                         *)
(* What a resource holds is one value of Value, and a frame is the value   *)
(* each resource had when it was drawn.                                    *)
(***************************************************************************)
EXTENDS Naturals

CONSTANTS Buffer, Texture,   \* the resources a frame is drawn from
          Target,            \* handles of offscreen targets
          NoTarget,
          Value, Blank,      \* contents, and calloc's
          MaxSize,           \* largest buffer, target or window
          Window,            \* ticks between two hardware attempts (60 s)
          TestGap,           \* ticks between two PRESENT_TESTs (250 ms)
          Failure,           \* how a call to the graphics stack may fail
          RestoreFails       \* whether undoing a failed detach may fail too

Resource == Buffer \cup Texture

ASSUME BridgeAssumption ==
    /\ Buffer \cap Texture = {} /\ NoTarget \notin Target
    /\ Blank \in Value
    /\ MaxSize \in Nat \ {0} /\ Window \in Nat \ {0} /\ TestGap \in Nat \ {0}
    /\ Failure \subseteq {"lost", "failed", "contract"}
    /\ RestoreFails \in BOOLEAN

(***************************************************************************)
(* HRESULTs: success, S_FALSE and DXGI_STATUS_OCCLUDED; a removed or reset *)
(* device; E_INVALIDARG and DXGI_ERROR_INVALID_CALL; any other failure.    *)
(***************************************************************************)
Hresult == {"ok", "false", "occluded", "lost", "failed", "contract"}
Failed(hr) == hr \in {"lost", "failed", "contract"}

Mirror == [size : 0..MaxSize, data : Value]
Copy == [made : BOOLEAN, size : 0..MaxSize, data : Value]
Absent == [made |-> FALSE, size |-> 0, data |-> Blank]
CopyOf(m) == [made |-> TRUE, size |-> m.size, data |-> m.data]

Frame == [whole : BOOLEAN, of : [Resource -> Value]]
Undrawn == [whole |-> FALSE, of |-> [r \in Resource |-> Blank]]

TargetState == [made : BOOLEAN, gpu : BOOLEAN, rendered : BOOLEAN,
                size : 0..MaxSize, pixels : Frame]
Freed == [made |-> FALSE, gpu |-> FALSE, rendered |-> FALSE, size |-> 0,
          pixels |-> Undrawn]

\* tree: the root and its content are set; live: a commit made them visible.
Graph == [made : BOOLEAN, tree : BOOLEAN, live : BOOLEAN, committed : BOOLEAN,
          detached : BOOLEAN, valid : BOOLEAN]
NoGraph == [made |-> FALSE, tree |-> FALSE, live |-> FALSE, committed |-> FALSE,
            detached |-> FALSE, valid |-> FALSE]
NewGraph == [made |-> TRUE, tree |-> TRUE, live |-> FALSE, committed |-> FALSE,
             detached |-> FALSE, valid |-> TRUE]

\* gone: GetDeviceRemovedReason fails.  calm: the graphics stack has stopped
\* failing and hiding the window.  front: what the swapchain presented last.
\* retryIn, testIn: ticks until hardware_retry_after_ms, next_present_test_ms.
\* probeAge, probes: ticks since the last hardware candidate of a recovery,
\* and how many of them fell into one window.
Bridge == [device : {"none", "hardware", "warp"}, gone : BOOLEAN,
           warp : BOOLEAN, forceWarp : BOOLEAN,
           pending : BOOLEAN, unavailable : BOOLEAN, retryIn : 0..Window,
           swapchain : BOOLEAN, backbuffer : BOOLEAN, size : 0..MaxSize,
           graph : Graph, committed : BOOLEAN, front : Frame,
           occluded : BOOLEAN, testIn : 0..TestGap,
           cpu : [Resource -> Mirror], gpu : [Resource -> Copy],
           targets : [Target -> TargetState], last : Target \cup {NoTarget},
           calm : BOOLEAN, probeAge : 0..Window, probes : 0..2]

Result(b, h) == [d |-> b, hr |-> h]

\* The answers a call to the graphics stack may get now.
Answers(d) == {"ok"} \cup (IF d.calm THEN {} ELSE Failure)
PresentAnswers(d) == Answers(d) \cup (IF d.calm THEN {} ELSE {"occluded"})

\* A call that reports the loss of the device has a removed device behind it.
After(d, answer) == IF answer = "lost" THEN [d EXCEPT !.gone = TRUE] ELSE d

----------------------------------------------------------------------------
(***************************************************************************)
(* Classifying a result.                                                   *)
(***************************************************************************)
MarkRecoveryPending(d) ==
    [d EXCEPT !.pending = TRUE, !.last = NoTarget,
              !.targets = [t \in Target |-> [d.targets[t] EXCEPT !.rendered = FALSE]]]

RecordResult(d, hr) ==
    IF ~Failed(hr) THEN d
    ELSE IF hr = "lost" \/ d.gone THEN MarkRecoveryPending(d)
    ELSE IF hr = "contract" THEN d
    ELSE IF ~d.warp /\ ~d.forceWarp
         THEN MarkRecoveryPending([d EXCEPT !.retryIn = Window])
         ELSE [d EXCEPT !.unavailable = TRUE]

Recorded(d, hr) == Result(RecordResult(d, hr), hr)

\* A call made to the graphics stack, and its failure recorded.
Answered(d, answer) == Recorded(After(d, answer), answer)

CheckState(g) == IF g.made /\ g.valid THEN "ok" ELSE "lost"

DeviceStatus(d) ==
    IF d.unavailable THEN Result(d, "failed")
    ELSE IF d.pending THEN Result(d, "lost")
    ELSE IF d.device = "none" THEN Recorded(d, "failed")
    ELSE IF d.gone THEN Recorded(d, "lost")
    ELSE IF d.graph.made THEN Recorded(d, CheckState(d.graph))
    ELSE Result(d, "ok")

RecoveryWillRebuild(d) == d.pending /\ ~d.unavailable

----------------------------------------------------------------------------
(***************************************************************************)
(* Building a device and taking it down.                                   *)
(***************************************************************************)
BufferGpu(d, r) == [d EXCEPT !.gpu[r] = CopyOf(d.cpu[r])]
TextureGpu(d, r) == BufferGpu(d, r)
TargetGpu(d, t) ==
    IF d.targets[t].size = 0 THEN d
    ELSE [d EXCEPT !.targets[t].gpu = TRUE, !.targets[t].rendered = FALSE,
                   !.targets[t].pixels = Undrawn]

ReleaseDevice(d) ==
    [d EXCEPT
        !.gpu = [r \in Resource |-> Absent],
        !.targets = [t \in Target |->
            [d.targets[t] EXCEPT !.gpu = FALSE, !.rendered = FALSE, !.pixels = Undrawn]],
        !.last = NoTarget, !.graph = NoGraph, !.committed = FALSE,
        !.backbuffer = FALSE, !.swapchain = FALSE, !.front = Undrawn,
        !.device = "none", !.gone = FALSE, !.size = 0, !.occluded = FALSE]

\* create_device when its steps up to the last one done succeed: the device,
\* then the shaders with it, then the buffers, the textures and the targets.
\* A device that fails is taken down by its caller.
Steps == {"nothing", "device", "buffers", "textures", "targets"}
Built(d, soft, done) ==
    IF done = "nothing" THEN d
    ELSE [d EXCEPT
        !.device = IF soft THEN "warp" ELSE "hardware", !.warp = soft,
        !.gpu = [r \in Resource |->
            IF \/ r \in Buffer /\ done # "device"
               \/ r \in Texture /\ done \in {"textures", "targets"}
            THEN CopyOf(d.cpu[r]) ELSE d.gpu[r]],
        !.targets = [t \in Target |->
            IF done = "targets" /\ d.targets[t].made /\ d.targets[t].size # 0
            THEN [d.targets[t] EXCEPT !.gpu = TRUE, !.rendered = FALSE, !.pixels = Undrawn]
            ELSE d.targets[t]]]

CreateDevice(d, soft) ==
    {Result(Built(d, soft, "targets"), "ok")}
    \cup {Result(Built(d, soft, done), "failed") :
            done \in IF d.calm THEN {} ELSE Steps \ {"targets"}}

DiscardCandidate(d) == ReleaseDevice(d)

\* Hardware first when it may be tried, and WARP after it.
CreateWarp(d) ==
    {IF Failed(w.hr) THEN Result(DiscardCandidate(w.d), w.hr) ELSE w :
        w \in CreateDevice(d, TRUE)}

CreateCandidates(d, tryHardware) ==
    IF ~tryHardware THEN CreateWarp(d)
    ELSE UNION {IF Failed(h.hr) THEN CreateWarp(DiscardCandidate(h.d)) ELSE {h} :
                    h \in CreateDevice(d, FALSE)}

\* MUTANT: the next recovery may try hardware again.
ProbeFreely(d) ==
    [d EXCEPT !.probeAge = 0, !.probes = IF d.probeAge = Window THEN 1 ELSE 2]
Probe(d) ==
    [d EXCEPT !.retryIn = Window, !.probeAge = 0,
              !.probes = IF d.probeAge = Window THEN 1 ELSE 2]

\* MUTANT: a bridge that gave up is recovered by a later frame.
RecoverAnyway(d) ==
    LET s == DeviceStatus([d EXCEPT !.unavailable = FALSE]).d
    IN  IF ~s.pending THEN {DeviceStatus(s)}
        ELSE {Result(IF Failed(c.hr) THEN [c.d EXCEPT !.unavailable = TRUE]
                     ELSE [c.d EXCEPT !.pending = FALSE], c.hr) :
                c \in CreateCandidates(ReleaseDevice(s), FALSE)}

\* noctty_d3d11_recover, and noctty_d3d11_begin, which is the same call.
Recover(d) ==
    LET s == DeviceStatus(d).d
        hardware == ~s.forceWarp /\ s.retryIn = 0
        start == ReleaseDevice(IF hardware THEN Probe(s) ELSE s)
    IN  IF d.unavailable \/ ~s.pending THEN {DeviceStatus(s)}
        ELSE {Result(IF Failed(c.hr) THEN [c.d EXCEPT !.unavailable = TRUE]
                     ELSE [c.d EXCEPT !.pending = FALSE], c.hr) :
                c \in CreateCandidates(start, hardware)}

SetRecoveryPreference(d, force) ==
    [d EXCEPT !.forceWarp = force,
              !.retryIn = IF d.forceWarp /\ ~force /\ d.warp THEN Window ELSE d.retryIn]

NeedsRedraw(d) == d.pending \/ d.last = NoTarget

----------------------------------------------------------------------------
(***************************************************************************)
(* Buffers and textures: the copy in memory is written first, and stays    *)
(* written when the device is being replaced.                              *)
(***************************************************************************)
BufferReserve(d, r, n) ==
    IF n <= d.cpu[r].size THEN {Result(d, "ok")}
    ELSE LET big == [d EXCEPT !.cpu[r].size = n]
             s == DeviceStatus(big)
             tried == IF Failed(s.hr) THEN {s}
                      ELSE {IF a = "ok" THEN Result(BufferGpu(s.d, r), "ok")
                            ELSE Answered(s.d, a) : a \in Answers(s.d)}
         IN  {IF Failed(x.hr) /\ ~RecoveryWillRebuild(x.d)
              THEN Result([x.d EXCEPT !.cpu[r] = d.cpu[r]], x.hr)
              ELSE Result(x.d, "ok") : x \in tried}

\* MUTANT: the copy in memory is written only for a recovery to come.
BufferWriteOnce(d, r, v) ==
    LET s == DeviceStatus(d)
    IN  IF Failed(s.hr)
        THEN Result([s.d EXCEPT !.cpu[r].data = v],
                    IF RecoveryWillRebuild(s.d) THEN "ok" ELSE s.hr)
        ELSE IF ~s.d.gpu[r].made THEN Recorded(s.d, "failed")
        ELSE Result([s.d EXCEPT !.gpu[r].data = v], "ok")

BufferWrite(d, r, v) ==
    LET s == DeviceStatus([d EXCEPT !.cpu[r].data = v])
    IN  IF Failed(s.hr) THEN Result(s.d, IF RecoveryWillRebuild(s.d) THEN "ok" ELSE s.hr)
        ELSE IF ~s.d.gpu[r].made THEN Recorded(s.d, "failed")
        ELSE Result([s.d EXCEPT !.gpu[r].data = v], "ok")

TextureWrite(d, r, v) == BufferWrite(d, r, v)

\* texture_create for an atlas that grew, and texture_destroy of the old one,
\* which stays when the creation fails.
TextureReplace(d, r) ==
    LET blank == [d EXCEPT !.cpu[r] = [size |-> MaxSize, data |-> Blank],
                           !.gpu[r] = Absent]
        s == DeviceStatus(blank)
        tried == IF Failed(s.hr) THEN {s}
                 ELSE {IF a = "ok" THEN Result(TextureGpu(s.d, r), "ok")
                       ELSE Answered(s.d, a) : a \in Answers(s.d)}
    IN  {IF Failed(x.hr) /\ ~RecoveryWillRebuild(x.d)
         THEN Result([x.d EXCEPT !.cpu[r] = d.cpu[r], !.gpu[r] = d.gpu[r]], x.hr)
         ELSE Result(x.d, "ok") : x \in tried}

----------------------------------------------------------------------------
(***************************************************************************)
(* Targets and drawing.                                                    *)
(***************************************************************************)
TargetCreate(d, t, n) ==
    LET new == [d EXCEPT !.targets[t] = [Freed EXCEPT !.made = TRUE, !.size = n]]
        s == DeviceStatus(new)
        tried == IF Failed(s.hr) THEN {s}
                 ELSE {IF a = "ok" THEN Result(TargetGpu(s.d, t), "ok")
                       ELSE Answered(s.d, a) : a \in Answers(s.d)}
    IN  {IF Failed(x.hr) /\ ~RecoveryWillRebuild(x.d)
         THEN Result([x.d EXCEPT !.targets[t] = Freed], x.hr)
         ELSE Result(x.d, "ok") : x \in tried}

TargetDestroy(d, t) ==
    [d EXCEPT !.targets[t] = Freed,
              !.last = IF d.last = t THEN NoTarget ELSE d.last]

\* MUTANT: a target that is being drawn again counts as drawn.
ClearRetained(d, t) ==
    LET s == DeviceStatus(d)
    IN  IF Failed(s.hr) THEN s
        ELSE IF ~s.d.targets[t].gpu THEN Recorded(s.d, "failed")
        ELSE Result([s.d EXCEPT !.targets[t].pixels = Undrawn], "ok")

Clear(d, t) ==
    LET s == DeviceStatus(d)
    IN  IF Failed(s.hr) THEN s
        ELSE IF ~s.d.targets[t].gpu THEN Recorded(s.d, "failed")
        ELSE Result([s.d EXCEPT !.targets[t].rendered = FALSE,
                                !.targets[t].pixels = Undrawn,
                                !.last = IF s.d.last = t THEN NoTarget ELSE s.d.last], "ok")

\* The draw calls of a whole pass; the status is read again after them.
Draw(d, t) ==
    LET s == DeviceStatus(d)
    IN  IF Failed(s.hr) THEN s
        ELSE IF ~s.d.targets[t].gpu \/ \E r \in Resource : ~s.d.gpu[r].made
        THEN Recorded(s.d, "contract")
        ELSE DeviceStatus([s.d EXCEPT !.targets[t].pixels =
                [whole |-> TRUE, of |-> [r \in Resource |-> s.d.gpu[r].data]]])

----------------------------------------------------------------------------
(***************************************************************************)
(* The composition graph.                                                  *)
(***************************************************************************)
CompositionCommit(d) ==
    IF CheckState(d.graph) # "ok"
    THEN {Result(d, IF d.graph.made THEN "lost" ELSE "contract")}
    ELSE IF d.graph.detached THEN {Result(d, "failed")}
    ELSE IF d.graph.committed THEN {Result(d, "ok")}
    ELSE {IF a = "ok"
          THEN Result([d EXCEPT !.graph.committed = TRUE, !.graph.live = d.graph.tree], "ok")
          ELSE Result(After(d, a), a) : a \in Answers(d)}

\* restore_after_failed_detach: root and content again, and a commit of them
\* when they had been visible; what these calls answer is not looked at.
RestoreAfterFailedDetach(g) ==
    IF CheckState(g) # "ok" THEN {g}
    ELSE {[g EXCEPT !.tree = TRUE, !.live = IF g.committed THEN TRUE ELSE g.live]}
         \cup IF RestoreFails THEN {g} ELSE {}

\* SetRoot(NULL) or SetContent(NULL) fails, the commit of both fails, or the
\* graph is detached.
CompositionDetach(d) ==
    LET g == d.graph
        stripped == [g EXCEPT !.tree = FALSE]
        failing == Answers(d) \ {"ok"}
        fallen(from) == {Result([d EXCEPT !.graph = x], "failed") :
                            x \in RestoreAfterFailedDetach(from)}
    IN  IF CheckState(g) # "ok" THEN {Result(d, "lost")}
        ELSE IF g.detached THEN {Result(d, "ok")}
        ELSE {Result([d EXCEPT !.graph = [stripped EXCEPT !.live = FALSE,
                        !.committed = FALSE, !.detached = TRUE]], "ok")}
             \cup IF failing = {} THEN {} ELSE fallen(g) \cup fallen(stripped)

----------------------------------------------------------------------------
(***************************************************************************)
(* Presenting.                                                             *)
(***************************************************************************)
NewSwapchain(d) ==
    {Result(After(d, a), a) : a \in Answers(d) \ {"ok"}}
    \cup {Result(After([d EXCEPT !.swapchain = TRUE,
                                 !.graph = IF a = "ok" THEN NewGraph ELSE NoGraph], a), a) :
            a \in Answers(d)}

GetBuffer(d, n) ==
    {IF a = "ok" THEN Result([d EXCEPT !.backbuffer = TRUE, !.size = n], "ok")
     ELSE Result(After(d, a), a) : a \in Answers(d)}

ResizeSwapchain(d, n) ==
    LET e == [d EXCEPT !.backbuffer = FALSE]
        chain == IF e.swapchain THEN {Result(After(e, a), a) : a \in Answers(e)}
                 ELSE NewSwapchain(e)
    IN  IF d.size = n /\ d.backbuffer THEN {Result(d, "ok")}
        ELSE UNION {IF Failed(c.hr) THEN {c} ELSE GetBuffer(c.d, n) : c \in chain}

\* The copy to the back buffer, Present, and the first commit of the graph.
ShowBuffer(d, t) ==
    LET shown == [d EXCEPT !.front = d.targets[t].pixels]
    IN  {Answered(d, a) : a \in Answers(d) \ {"ok"}}
        \cup {Result([d EXCEPT !.occluded = TRUE, !.testIn = TestGap], "occluded") :
                a \in PresentAnswers(d) \cap {"occluded"}}
        \cup IF d.committed THEN {Result(shown, "ok")}
             ELSE {IF Failed(c.hr) THEN Recorded(c.d, c.hr)
                   ELSE Result([c.d EXCEPT !.committed = TRUE], "ok") :
                     c \in CompositionCommit(shown)}

\* While the window is hidden a PRESENT_TEST stands before Present.
PresentBuffer(d, t) ==
    LET tested == [d EXCEPT !.testIn = TestGap]
    IN  IF ~d.occluded THEN ShowBuffer(d, t)
        ELSE IF d.testIn > 0 THEN {Result(d, "occluded")}
        ELSE {Result(tested, "occluded") : a \in PresentAnswers(d) \cap {"occluded"}}
             \cup {Answered(tested, a) : a \in Answers(d) \ {"ok"}}
             \cup ShowBuffer([tested EXCEPT !.occluded = FALSE], t)

PresentTarget(d, t, encoded, minimised) ==
    LET s == DeviceStatus(d)
        e == IF encoded THEN [s.d EXCEPT !.targets[t].rendered = TRUE, !.last = t] ELSE s.d
    IN  IF Failed(s.hr) THEN {s}
        ELSE IF ~s.d.targets[t].gpu THEN {Recorded(s.d, "contract")}
        ELSE IF ~e.targets[t].rendered \/ minimised THEN {Result(e, "false")}
        ELSE UNION {IF Failed(c.hr) THEN {Recorded(c.d, c.hr)} ELSE PresentBuffer(c.d, t) :
                        c \in ResizeSwapchain(e, e.targets[t].size)}

PresentLast(d, minimised) ==
    IF d.last = NoTarget THEN {Result(d, "false")}
    ELSE PresentTarget(d, d.last, FALSE, minimised)

\* MUTANT: the graph goes, the flag that it was committed stays.
SuspendForgetful(d) ==
    {IF Failed(x.hr) THEN x
     ELSE Result([x.d EXCEPT !.graph = NoGraph, !.front = Undrawn, !.backbuffer = FALSE,
                             !.swapchain = FALSE, !.size = 0, !.occluded = FALSE], "ok") :
        x \in IF d.graph.made /\ d.graph.valid THEN CompositionDetach(d) ELSE {Result(d, "ok")}}

\* Before another renderer takes the window.
SuspendPresentation(d) ==
    LET bare(b) == [b EXCEPT !.graph = NoGraph, !.committed = FALSE, !.front = Undrawn,
                             !.backbuffer = FALSE, !.swapchain = FALSE,
                             !.size = 0, !.occluded = FALSE]
    IN  IF d.graph.made /\ d.graph.valid
        THEN {IF Failed(x.hr) THEN x ELSE Result(bare(x.d), "ok") : x \in CompositionDetach(d)}
        ELSE {Result(bare(d), "ok")}

\* noctty_d3d11_create: one device, and no resource yet.
Created(soft, mirrors, targets) ==
    [device |-> IF soft THEN "warp" ELSE "hardware", gone |-> FALSE, warp |-> soft,
     forceWarp |-> soft, pending |-> FALSE, unavailable |-> FALSE, retryIn |-> 0,
     swapchain |-> FALSE, backbuffer |-> FALSE, size |-> 0, graph |-> NoGraph,
     committed |-> FALSE, front |-> Undrawn, occluded |-> FALSE, testIn |-> 0,
     cpu |-> mirrors, gpu |-> [r \in Resource |-> CopyOf(mirrors[r])],
     targets |-> targets, last |-> NoTarget, calm |-> FALSE,
     probeAge |-> Window, probes |-> 0]
=============================================================================
