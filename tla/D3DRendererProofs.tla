-------------------------- MODULE D3DRendererProofs --------------------------
(***************************************************************************)
(* The safety properties of a pane drawn with Direct3D 11, for all sets of *)
(* resources, targets and contents, for all gaps and limits, and whatever  *)
(* the graphics stack and the environment do.                              *)
(*                                                                         *)
(* The first part is about the bridge alone.  Each call is a set of        *)
(* results; its lemma says that every one of them is sound, and that what  *)
(* the caller relies on is kept.  The second part is about the frames: the *)
(* invariant adds to the bridge's soundness what the calls of a frame rely *)
(* on: the frame's target exists, is not the retained one while it is      *)
(* drawn, and holds a frame when it is presented.                          *)
(***************************************************************************)
EXTENDS D3DRenderer, TLAPS

\* The GPU copies are what preparation last wrote.
Uploaded(B) == \A r \in Resource : B.gpu[r] = CopyOf(B.cpu[r])
Agree(B) == ~B.pending /\ ~B.unavailable => Uploaded(B)

\* The frame that may be presented again is there, and whole.
Retained(B) ==
    B.last # NoTarget =>
        /\ B.targets[B.last].made /\ B.targets[B.last].gpu
        /\ B.targets[B.last].rendered /\ B.targets[B.last].pixels.whole

\* The graph belongs to the swapchain, the bridge's flag is about the graph it
\* has, and what was committed is visible, unless undoing a detach may fail.
GraphSound(B) ==
    /\ B.graph.made => /\ ~B.graph.detached /\ B.swapchain
                       /\ RestoreFails \/ B.graph.tree
    /\ B.graph.committed => RestoreFails \/ B.graph.live
    /\ B.committed => B.graph.made /\ B.graph.committed

\* A window's hardware attempt is spent until the window is over.
ProbesSound(B) == B.retryIn + B.probeAge >= Window /\ B.probes <= 1

Sound(B) == B \in Bridge /\ Retained(B) /\ GraphSound(B) /\ ProbesSound(B)

\* What no call does: take hardware against the user's choice, revive a
\* bridge that gave up, or give or take a handle.
Holds(B, e) ==
    /\ e.forceWarp = B.forceWarp
    /\ B.forceWarp /\ e.device = "hardware" => B.device = "hardware"
    /\ B.unavailable => e.unavailable /\ e.front \in {B.front, Undrawn}
Keeps(B, e) == Holds(B, e) /\ \A t \in Target : e.targets[t].made = B.targets[t].made

Call(B, x) ==
    /\ x.hr \in Hresult
    /\ Sound(x.d) /\ Keeps(B, x.d)
    /\ Agree(B) => Agree(x.d)

----------------------------------------------------------------------------
(***************************************************************************)
(* Values.                                                                 *)
(***************************************************************************)
\* The contents of a resource that does not exist, a frame not drawn, a
\* freed target and the two graphs have their types.
LEMMA Constants ==
    /\ Absent \in Copy /\ Undrawn \in Frame /\ Freed \in TargetState
    /\ NoGraph \in Graph /\ NewGraph \in Graph
    /\ 0 \in 0..MaxSize /\ Window \in 0..Window /\ 0 \in 0..Window
    /\ 0 \in 0..TestGap /\ TestGap \in 0..TestGap
  <1>1. /\ 0 \in 0..MaxSize /\ Window \in 0..Window /\ 0 \in 0..Window
        /\ 0 \in 0..TestGap /\ TestGap \in 0..TestGap
    BY BridgeAssumption
  <1>2. Absent \in Copy
    BY <1>1, BridgeAssumption, Zenon DEF Absent, Copy
  <1>3. Undrawn \in Frame
    BY BridgeAssumption DEF Undrawn, Frame
  <1>4. Freed \in TargetState
    BY <1>1, <1>3, Zenon DEF Freed, TargetState
  <1>5. NoGraph \in Graph /\ NewGraph \in Graph
    BY Zenon DEF NoGraph, NewGraph, Graph
  <1> QED BY <1>1, <1>2, <1>3, <1>4, <1>5

\* The types of a bridge's fields.
LEMMA Fields ==
    ASSUME NEW B \in Bridge
    PROVE  /\ B.device \in {"none", "hardware", "warp"} /\ B.gone \in BOOLEAN
           /\ B.warp \in BOOLEAN /\ B.forceWarp \in BOOLEAN
           /\ B.pending \in BOOLEAN /\ B.unavailable \in BOOLEAN
           /\ B.retryIn \in 0..Window /\ B.probeAge \in 0..Window /\ B.probes \in 0..2
           /\ B.swapchain \in BOOLEAN /\ B.committed \in BOOLEAN /\ B.graph \in Graph
           /\ B.front \in Frame /\ B.size \in 0..MaxSize
           /\ B.cpu \in [Resource -> Mirror] /\ B.gpu \in [Resource -> Copy]
           /\ B.targets \in [Target -> TargetState] /\ B.last \in Target \cup {NoTarget}
  BY Zenon DEF Bridge

\* A copy of a mirror is a copy.
LEMMA CopyOfMirror == ASSUME NEW m \in Mirror PROVE CopyOf(m) \in Copy
  BY Zenon DEF CopyOf, Mirror, Copy

\* What is written to a mirror and to its copy leaves the copy a copy.
LEMMA CopyWritten ==
    ASSUME NEW m \in Mirror, NEW v
    PROVE  [CopyOf(m) EXCEPT !.data = v] = CopyOf([m EXCEPT !.data = v])
  <1> DEFINE w == [m EXCEPT !.data = v]
  <1>1. w.size = m.size /\ w.data = v
    BY Zenon DEF Mirror
  <1>2. [CopyOf(m) EXCEPT !.data = v] \in [made : {TRUE}, size : {m.size}, data : {v}]
    BY Zenon DEF CopyOf
  <1> HIDE DEF w
  <1>3. CopyOf(w) = [made |-> TRUE, size |-> m.size, data |-> v]
    BY <1>1 DEF CopyOf
  <1>4. \A n, u : \A c \in [made : {TRUE}, size : {n}, data : {u}] :
            c = [made |-> TRUE, size |-> n, data |-> u]
    <2> TAKE n, u
    <2> TAKE c \in [made : {TRUE}, size : {n}, data : {u}]
    <2> QED OBVIOUS
  <1> QED BY <1>2, <1>3, <1>4, Zenon DEF w

\* A result has its two parts.
LEMMA ResultParts == \A b, h : Result(b, h).d = b /\ Result(b, h).hr = h
  BY Zenon DEF Result

\* Keeps can be chained.
LEMMA KeepsChain ==
    ASSUME NEW a, NEW b, NEW c, Keeps(a, b), Keeps(b, c)
    PROVE  Keeps(a, c)
  BY Zenon DEF Keeps, Holds

\* And so can calls.
LEMMA CallChain ==
    ASSUME NEW a, NEW b, NEW x, Keeps(a, b), Agree(a) => Agree(b), Call(b, x)
    PROVE  Call(a, x)
  BY KeepsChain, Zenon DEF Call

\* A result of what was sound already.
LEMMA CallSame ==
    ASSUME NEW B, Sound(B), NEW hr \in Hresult
    PROVE  Call(B, Result(B, hr))
  BY Zenon DEF Call, Result, Keeps, Holds

\* Soundness reads nine fields.
LEMMA SoundFrame ==
    ASSUME NEW B, Sound(B), NEW e \in Bridge,
           e.last = B.last, e.targets = B.targets, e.graph = B.graph,
           e.committed = B.committed, e.swapchain = B.swapchain,
           e.retryIn = B.retryIn, e.probeAge = B.probeAge, e.probes = B.probes
    PROVE  Sound(e)
  BY Zenon DEF Sound, Retained, GraphSound, ProbesSound

----------------------------------------------------------------------------
(***************************************************************************)
(* Results.                                                                *)
(***************************************************************************)
\* mark_recovery_pending: nothing is left to present again.
LEMMA MarkSound ==
    ASSUME NEW B, Sound(B)
    PROVE  LET e == MarkRecoveryPending(B)
           IN  Sound(e) /\ Keeps(B, e) /\ Agree(e) /\ e.pending
                 /\ e.unavailable = B.unavailable
  <1> DEFINE e == MarkRecoveryPending(B)
             ts == [t \in Target |-> [B.targets[t] EXCEPT !.rendered = FALSE]]
  <1>1. B \in Bridge BY Zenon DEF Sound
  <1>2. \A t \in Target : B.targets[t] \in TargetState
    BY <1>1, Fields
  <1>3. \A t \in Target : ts[t] \in TargetState /\ ts[t].made = B.targets[t].made
    <2> SUFFICES ASSUME NEW t \in Target
                 PROVE  ts[t] \in TargetState /\ ts[t].made = B.targets[t].made
      OBVIOUS
    <2> QED BY <1>2, Zenon DEF TargetState
  <1>4. ts \in [Target -> TargetState] BY <1>3, Zenon
  <1>5. e = [B EXCEPT !.pending = TRUE, !.last = NoTarget, !.targets = ts]
    BY Zenon DEF MarkRecoveryPending
  <1> HIDE DEF ts, e
  <1>6. e \in Bridge /\ e.pending /\ e.last = NoTarget /\ e.targets = ts
          /\ e.graph = B.graph /\ e.committed = B.committed /\ e.swapchain = B.swapchain
          /\ e.retryIn = B.retryIn /\ e.probeAge = B.probeAge /\ e.probes = B.probes
          /\ e.forceWarp = B.forceWarp /\ e.device = B.device
          /\ e.unavailable = B.unavailable /\ e.front = B.front
    BY <1>1, <1>4, <1>5, Zenon DEF Bridge
  <1>7. Sound(e)
    BY <1>6, Zenon DEF Sound, Retained, GraphSound, ProbesSound
  <1>8. Keeps(B, e) /\ Agree(e)
    BY <1>3, <1>6, Zenon DEF Keeps, Holds, Agree
  <1> QED BY <1>6, <1>7, <1>8, Zenon DEF e

\* record_result: a failure that is no contract error ends in a recovery to
\* come or in a bridge that has given up.
LEMMA RecordSound ==
    ASSUME NEW B, Sound(B), NEW hr \in Hresult
    PROVE  LET e == RecordResult(B, hr)
           IN  /\ Sound(e) /\ Keeps(B, e) /\ (Agree(B) => Agree(e))
               /\ Failed(hr) /\ hr # "contract" => e.pending \/ e.unavailable
               /\ B.pending => e.pending
  <1> DEFINE e == RecordResult(B, hr)
             late == [B EXCEPT !.retryIn = Window]
             over == [B EXCEPT !.unavailable = TRUE]
  <1>1. B \in Bridge BY Zenon DEF Sound
  <1>2. Sound(late) /\ Keeps(B, late) /\ late.unavailable = B.unavailable
    <2>1. late \in Bridge /\ late.last = B.last /\ late.targets = B.targets
            /\ late.graph = B.graph /\ late.committed = B.committed
            /\ late.swapchain = B.swapchain /\ late.retryIn = Window
            /\ late.probeAge = B.probeAge /\ late.probes = B.probes
            /\ late.forceWarp = B.forceWarp /\ late.device = B.device
            /\ late.unavailable = B.unavailable /\ late.front = B.front
      BY <1>1, Constants, Zenon DEF Bridge
    <2>2. ProbesSound(late)
      <3>1. B.probeAge \in 0..Window /\ B.probes <= 1
        BY <1>1, Fields, Zenon DEF Sound, ProbesSound
      <3> QED BY <2>1, <3>1, BridgeAssumption DEF ProbesSound
    <2> QED BY <2>1, <2>2, Zenon DEF Sound, Retained, GraphSound, Keeps, Holds
  <1>3. Sound(over) /\ Keeps(B, over) /\ over.unavailable /\ over.pending = B.pending
    <2>1. over \in Bridge /\ over.last = B.last /\ over.targets = B.targets
            /\ over.graph = B.graph /\ over.committed = B.committed
            /\ over.swapchain = B.swapchain /\ over.retryIn = B.retryIn
            /\ over.probeAge = B.probeAge /\ over.probes = B.probes
            /\ over.forceWarp = B.forceWarp /\ over.device = B.device
            /\ over.unavailable /\ over.front = B.front /\ over.pending = B.pending
      BY <1>1, Zenon DEF Bridge
    <2> QED BY <2>1, SoundFrame, Zenon DEF Keeps, Holds
  <1> HIDE DEF late, over
  <1>4. CASE ~Failed(hr)
    BY <1>4, Zenon DEF RecordResult, Keeps, Holds
  <1>5. CASE Failed(hr) /\ (hr = "lost" \/ B.gone)
    BY <1>5, MarkSound, Zenon DEF RecordResult
  <1>6. CASE Failed(hr) /\ ~(hr = "lost" \/ B.gone) /\ hr = "contract"
    BY <1>6, Zenon DEF RecordResult, Keeps, Holds
  <1>7. CASE /\ Failed(hr) /\ ~(hr = "lost" \/ B.gone) /\ hr # "contract"
             /\ ~B.warp /\ ~B.forceWarp
    <2>1. e = MarkRecoveryPending(late)
      BY <1>7, Zenon DEF RecordResult, late
    <2>2. Sound(e) /\ Keeps(late, e) /\ Agree(e) /\ e.pending
      BY <1>2, <2>1, MarkSound, Zenon
    <2> QED BY <1>2, <2>2, KeepsChain, Zenon
  <1>8. CASE /\ Failed(hr) /\ ~(hr = "lost" \/ B.gone) /\ hr # "contract"
             /\ ~(~B.warp /\ ~B.forceWarp)
    <2>1. e = over
      BY <1>8, Zenon DEF RecordResult, over
    <2> QED BY <1>3, <2>1, Zenon DEF Agree
  <1> QED BY <1>4, <1>5, <1>6, <1>7, <1>8, Zenon

LEMMA RecordedSound ==
    ASSUME NEW B, Sound(B), NEW hr \in Hresult
    PROVE  /\ Call(B, Recorded(B, hr)) /\ Recorded(B, hr).hr = hr
           /\ Failed(hr) /\ hr # "contract"
                => Recorded(B, hr).d.pending \/ Recorded(B, hr).d.unavailable
  <1>1. Recorded(B, hr).d = RecordResult(B, hr) /\ Recorded(B, hr).hr = hr
    BY Zenon DEF Recorded, Result
  <1> QED BY <1>1, RecordSound, Zenon DEF Call

\* Answers and the removal they may be the sign of.
LEMMA AnswersTyped ==
    ASSUME NEW B
    PROVE  Answers(B) \subseteq Hresult /\ PresentAnswers(B) \subseteq Hresult
  BY BridgeAssumption DEF Answers, PresentAnswers, Hresult

LEMMA AfterSound ==
    ASSUME NEW B, Sound(B), NEW a
    PROVE  LET e == After(B, a)
           IN  Sound(e) /\ Keeps(B, e) /\ (Agree(B) => Agree(e))
  <1> DEFINE e == [B EXCEPT !.gone = TRUE]
  <1>1. B \in Bridge BY Zenon DEF Sound
  <1>2. e \in Bridge /\ e.last = B.last /\ e.targets = B.targets /\ e.graph = B.graph
          /\ e.committed = B.committed /\ e.swapchain = B.swapchain
          /\ e.retryIn = B.retryIn /\ e.probeAge = B.probeAge /\ e.probes = B.probes
          /\ e.forceWarp = B.forceWarp /\ e.device = B.device
          /\ e.unavailable = B.unavailable /\ e.front = B.front
          /\ e.pending = B.pending /\ e.gpu = B.gpu /\ e.cpu = B.cpu
    BY <1>1, Zenon DEF Bridge
  <1> HIDE DEF e
  <1>3. Sound(e) /\ Keeps(B, e) /\ (Agree(B) => Agree(e))
    BY <1>2, SoundFrame, Zenon DEF Keeps, Holds, Agree, Uploaded
  <1>4. After(B, a) = e \/ After(B, a) = B
    BY Zenon DEF After, e
  <1> QED BY <1>3, <1>4, Zenon DEF Keeps, Holds

LEMMA AnsweredSound ==
    ASSUME NEW B, Sound(B), NEW a \in Hresult
    PROVE  Call(B, Answered(B, a)) /\ Answered(B, a).hr = a
  BY AfterSound, RecordedSound, CallChain, Zenon DEF Answered

\* device_status: no failure of it leaves a bridge that goes on as it is.
LEMMA StatusSound ==
    ASSUME NEW B, Sound(B)
    PROVE  LET s == DeviceStatus(B)
           IN  /\ Call(B, s)
               /\ Failed(s.hr) => s.d.pending \/ s.d.unavailable
               /\ ~Failed(s.hr) => s.d = B /\ ~B.pending /\ ~B.unavailable
  <1>1. {"ok", "failed", "lost"} \subseteq Hresult /\ CheckState(B.graph) \in {"ok", "lost"}
        /\ ~Failed("ok") /\ Failed("failed") /\ Failed("lost")
    BY DEF Hresult, CheckState, Failed
  <1>2. \A hr \in {"ok", "failed", "lost"} :
            /\ Call(B, Recorded(B, hr)) /\ Recorded(B, hr).hr = hr
            /\ Failed(hr) => Recorded(B, hr).d.pending \/ Recorded(B, hr).d.unavailable
    BY <1>1, RecordedSound DEF Failed
  <1>3. \A hr \in {"ok", "failed", "lost"} :
            Call(B, Result(B, hr)) /\ Result(B, hr).d = B /\ Result(B, hr).hr = hr
    BY <1>1, CallSame, Zenon DEF Result
  <1>4. Recorded(B, "ok").d = B
    BY <1>1, Zenon DEF Recorded, Result, RecordResult
  <1>5. CASE B.unavailable
    BY <1>1, <1>3, <1>5, Zenon DEF DeviceStatus
  <1>6. CASE ~B.unavailable /\ B.pending
    BY <1>1, <1>3, <1>6, Zenon DEF DeviceStatus
  <1>7. CASE ~B.unavailable /\ ~B.pending /\ B.device = "none"
    BY <1>1, <1>2, <1>7, Zenon DEF DeviceStatus
  <1>8. CASE ~B.unavailable /\ ~B.pending /\ B.device # "none" /\ B.gone
    BY <1>1, <1>2, <1>8, Zenon DEF DeviceStatus
  <1>9. CASE ~B.unavailable /\ ~B.pending /\ B.device # "none" /\ ~B.gone /\ B.graph.made
    BY <1>1, <1>2, <1>4, <1>9, Zenon DEF DeviceStatus
  <1>10. CASE ~B.unavailable /\ ~B.pending /\ B.device # "none" /\ ~B.gone /\ ~B.graph.made
    BY <1>1, <1>3, <1>10, Zenon DEF DeviceStatus
  <1> QED BY <1>5, <1>6, <1>7, <1>8, <1>9, <1>10, Zenon

\* What recording a result leaves alone.
Noted(B, e) ==
    /\ e.cpu = B.cpu /\ e.gpu = B.gpu /\ (e.last = B.last \/ e.last = NoTarget)
    /\ e.graph = B.graph /\ e.committed = B.committed /\ e.swapchain = B.swapchain
    /\ B.pending => e.pending
    /\ B.unavailable => e.unavailable

LEMMA RecordNoted ==
    ASSUME NEW B \in Bridge, NEW hr
    PROVE  Noted(B, RecordResult(B, hr))
  <1>1. \A b \in Bridge : Noted(b, MarkRecoveryPending(b))
    BY Zenon DEF Noted, MarkRecoveryPending, Bridge
  <1> DEFINE late == [B EXCEPT !.retryIn = Window]
  <1>2. late \in Bridge /\ Noted(B, late)
    <2>1. late \in Bridge
      BY Constants, Zenon DEF Bridge
    <2>2. /\ late.cpu = B.cpu /\ late.gpu = B.gpu /\ late.last = B.last
          /\ late.graph = B.graph /\ late.committed = B.committed
          /\ late.swapchain = B.swapchain /\ late.pending = B.pending
          /\ late.unavailable = B.unavailable
      BY Zenon DEF Bridge
    <2> HIDE DEF late
    <2> QED BY <2>1, <2>2, Zenon DEF Noted
  <1> DEFINE over == [B EXCEPT !.unavailable = TRUE]
  <1>3. Noted(B, over) /\ Noted(B, B)
    BY Zenon DEF Noted, Bridge
  <1> HIDE DEF late, over
  <1>4. Noted(B, MarkRecoveryPending(late))
    <2>1. Noted(late, MarkRecoveryPending(late)) BY <1>1, <1>2, Zenon
    <2> QED BY <1>2, <2>1, Zenon DEF Noted
  <1>5. \/ RecordResult(B, hr) = B \/ RecordResult(B, hr) = MarkRecoveryPending(B)
        \/ RecordResult(B, hr) = MarkRecoveryPending(late)
        \/ RecordResult(B, hr) = over
    BY Zenon DEF RecordResult, late, over
  <1>6. Noted(B, MarkRecoveryPending(B)) BY <1>1, Zenon
  <1> QED BY <1>3, <1>4, <1>5, <1>6, Zenon

LEMMA AnsweredNoted ==
    ASSUME NEW B \in Bridge, NEW a
    PROVE  Noted(B, Answered(B, a).d)
  <1>1. After(B, a) \in Bridge /\ Noted(B, After(B, a))
    <2> DEFINE e == [B EXCEPT !.gone = TRUE]
    <2>1. After(B, a) = e \/ After(B, a) = B
      BY Zenon DEF After
    <2>2. e \in Bridge /\ Noted(B, B)
      BY Zenon DEF Noted, Bridge
    <2>3. /\ e.cpu = B.cpu /\ e.gpu = B.gpu /\ e.last = B.last
          /\ e.graph = B.graph /\ e.committed = B.committed
          /\ e.swapchain = B.swapchain /\ e.pending = B.pending
          /\ e.unavailable = B.unavailable
      BY Zenon DEF Bridge
    <2> HIDE DEF e
    <2>4. Noted(B, e) BY <2>3, Zenon DEF Noted
    <2>5. CASE After(B, a) = e BY <2>2, <2>4, <2>5, Zenon
    <2>6. CASE After(B, a) = B BY <2>2, <2>6, Zenon
    <2> QED BY <2>1, <2>5, <2>6
  <1>2. Answered(B, a).d = RecordResult(After(B, a), a)
    BY ResultParts DEF Answered, Recorded
  <1> DEFINE b == After(B, a)
             e == RecordResult(b, a)
  <1>3. Noted(B, b) /\ Noted(b, e) BY <1>1, RecordNoted, Zenon
  <1> HIDE DEF b, e
  <1>4. Noted(B, e) BY <1>3, Zenon DEF Noted
  <1> QED BY <1>2, <1>4, Zenon DEF b, e

LEMMA StatusNoted ==
    ASSUME NEW B \in Bridge
    PROVE  Noted(B, DeviceStatus(B).d)
  <1>1. \A hr : Recorded(B, hr).d = RecordResult(B, hr) /\ Result(B, hr).d = B
    BY ResultParts DEF Recorded
  <1>2. Noted(B, B) /\ \A hr : Noted(B, RecordResult(B, hr))
    BY RecordNoted, Zenon DEF Noted
  <1>3. \A hr : Noted(B, Recorded(B, hr).d) /\ Noted(B, Result(B, hr).d)
    BY <1>1, <1>2
  <1> QED BY <1>3, Zenon DEF DeviceStatus

----------------------------------------------------------------------------
(***************************************************************************)
(* Devices.                                                                *)
(***************************************************************************)
\* release_device leaves the mirrors, and nothing on the GPU or on screen.
LEMMA ReleaseSound ==
    ASSUME NEW B, Sound(B)
    PROVE  LET e == ReleaseDevice(B)
           IN  /\ Sound(e) /\ Keeps(B, e)
               /\ e.last = NoTarget /\ e.pending = B.pending
               /\ e.unavailable = B.unavailable /\ e.cpu = B.cpu
  <1> DEFINE e == ReleaseDevice(B)
             ts == [t \in Target |->
                       [B.targets[t] EXCEPT !.gpu = FALSE, !.rendered = FALSE,
                                            !.pixels = Undrawn]]
             gs == [r \in Resource |-> Absent]
  <1>1. B \in Bridge BY Zenon DEF Sound
  <1>2. \A t \in Target : B.targets[t] \in TargetState
    BY <1>1, Fields
  <1>3. \A t \in Target : ts[t] \in TargetState /\ ts[t].made = B.targets[t].made
    <2> SUFFICES ASSUME NEW t \in Target
                 PROVE  ts[t] \in TargetState /\ ts[t].made = B.targets[t].made
      OBVIOUS
    <2> QED BY <1>2, Constants, Zenon DEF TargetState
  <1>4. ts \in [Target -> TargetState] BY <1>3, Zenon
  <1>5. gs \in [Resource -> Copy] BY Constants, Zenon
  <1>6. e = [B EXCEPT !.gpu = gs, !.targets = ts, !.last = NoTarget, !.graph = NoGraph,
                !.committed = FALSE, !.backbuffer = FALSE, !.swapchain = FALSE,
                !.front = Undrawn, !.device = "none", !.gone = FALSE, !.size = 0,
                !.occluded = FALSE]
    BY Zenon DEF ReleaseDevice
  <1>7. "none" \in {"none", "hardware", "warp"} /\ "none" # "hardware"
    OBVIOUS
  <1> HIDE DEF ts, gs, e
  <1>8. e \in Bridge /\ e.last = NoTarget /\ e.targets = ts /\ e.graph = NoGraph
          /\ ~e.committed /\ e.retryIn = B.retryIn /\ e.probeAge = B.probeAge
          /\ e.probes = B.probes /\ e.forceWarp = B.forceWarp /\ e.device = "none"
          /\ e.unavailable = B.unavailable /\ e.pending = B.pending /\ e.front = Undrawn
          /\ e.cpu = B.cpu
    BY <1>1, <1>4, <1>5, <1>6, <1>7, Constants, Zenon DEF Bridge
  <1>9. ~NoGraph.made /\ ~NoGraph.committed
    BY Zenon DEF NoGraph
  <1>10. Sound(e)
    BY <1>8, <1>9, <1>1, Zenon DEF Sound, Retained, GraphSound, ProbesSound
  <1>11. Keeps(B, e)
    BY <1>3, <1>7, <1>8, Zenon DEF Keeps, Holds
  <1> QED BY <1>8, <1>10, <1>11, Zenon DEF e

\* create_device, for a bridge without a frame to present again: when all
\* its steps are done, every resource is what its mirror says.
LEMMA BuiltSound ==
    ASSUME NEW B, Sound(B), B.last = NoTarget, NEW soft \in BOOLEAN, B.forceWarp => soft,
           NEW done \in Steps
    PROVE  LET e == Built(B, soft, done)
           IN  /\ Sound(e) /\ Keeps(B, e)
               /\ e.pending = B.pending /\ e.unavailable = B.unavailable
               /\ e.device = "hardware" => e = B \/ ~soft
               /\ done = "targets" => Uploaded(e)
               /\ e.cpu = B.cpu
  <1> DEFINE e == Built(B, soft, done)
             device == IF soft THEN "warp" ELSE "hardware"
             gs == [r \in Resource |->
                      IF \/ r \in Buffer /\ done # "device"
                         \/ r \in Texture /\ done \in {"textures", "targets"}
                      THEN CopyOf(B.cpu[r]) ELSE B.gpu[r]]
             ts == [t \in Target |->
                      IF done = "targets" /\ B.targets[t].made /\ B.targets[t].size # 0
                      THEN [B.targets[t] EXCEPT !.gpu = TRUE, !.rendered = FALSE,
                                                !.pixels = Undrawn]
                      ELSE B.targets[t]]
  <1>1. B \in Bridge BY Zenon DEF Sound
  <1>2. CASE done = "nothing"
    <2>1. e = B BY <1>2, Zenon DEF Built
    <2>2. done # "targets" BY <1>2
    <2> QED BY <2>1, <2>2, Zenon DEF Keeps, Holds
  <1>3. CASE done # "nothing"
    <2>1. e = [B EXCEPT !.device = device, !.warp = soft, !.gpu = gs, !.targets = ts]
      BY <1>3, Zenon DEF Built
    <2>2. \A t \in Target : ts[t] \in TargetState /\ ts[t].made = B.targets[t].made
      <3> SUFFICES ASSUME NEW t \in Target
                   PROVE  ts[t] \in TargetState /\ ts[t].made = B.targets[t].made
        OBVIOUS
      <3>1. B.targets[t] \in TargetState BY <1>1, Fields
      <3>2. LET u == [B.targets[t] EXCEPT !.gpu = TRUE, !.rendered = FALSE, !.pixels = Undrawn]
            IN  u \in TargetState /\ u.made = B.targets[t].made
        BY <3>1, Constants, Zenon DEF TargetState
      <3> QED BY <3>1, <3>2, Zenon
    <2>3. ts \in [Target -> TargetState] BY <2>2, Zenon
    <2>4. \A r \in Resource : CopyOf(B.cpu[r]) \in Copy /\ B.gpu[r] \in Copy
      BY <1>1, Fields, CopyOfMirror
    <2>5. gs \in [Resource -> Copy] BY <2>4, Zenon
    <2>6. device \in {"none", "hardware", "warp"} /\ (device = "hardware" => ~soft)
      OBVIOUS
    <2>7. done = "targets" => \A r \in Resource : gs[r] = CopyOf(B.cpu[r])
      BY DEF Resource
    <2> HIDE DEF device, gs, ts, e
    <2>8. e \in Bridge /\ e.last = B.last /\ e.targets = ts /\ e.graph = B.graph
            /\ e.committed = B.committed /\ e.swapchain = B.swapchain
            /\ e.retryIn = B.retryIn /\ e.probeAge = B.probeAge /\ e.probes = B.probes
            /\ e.forceWarp = B.forceWarp /\ e.device = device
            /\ e.unavailable = B.unavailable /\ e.pending = B.pending
            /\ e.front = B.front /\ e.cpu = B.cpu /\ e.gpu = gs
      BY <1>1, <2>1, <2>3, <2>5, <2>6, Zenon DEF Bridge
    <2>9. Sound(e)
      BY <2>8, Zenon DEF Sound, Retained, GraphSound, ProbesSound
    <2>10. Keeps(B, e)
      BY <2>2, <2>6, <2>8, Zenon DEF Keeps, Holds
    <2>11. done = "targets" => Uploaded(e)
      BY <2>7, <2>8, Zenon DEF Uploaded
    <2> QED BY <2>6, <2>8, <2>9, <2>10, <2>11, Zenon DEF e
  <1> QED BY <1>2, <1>3, Zenon

\* What a candidate leaves: itself, with every resource, or nothing.
Candidate(B, x) ==
    /\ x.hr \in Hresult
    /\ Sound(x.d) /\ Keeps(B, x.d) /\ x.d.last = NoTarget
    /\ x.d.pending = B.pending /\ x.d.unavailable = B.unavailable
    /\ x.d.cpu = B.cpu
    /\ ~Failed(x.hr) => Uploaded(x.d)

LEMMA DeviceSound ==
    ASSUME NEW B, Sound(B), B.last = NoTarget, NEW soft \in BOOLEAN, B.forceWarp => soft,
           NEW x \in CreateDevice(B, soft)
    PROVE  Candidate(B, x)
  <1>1. PICK done \in Steps : /\ x.d = Built(B, soft, done) /\ x.hr \in {"ok", "failed"}
                              /\ done = "targets" \/ x.hr = "failed"
    <2>1. CASE x = Result(Built(B, soft, "targets"), "ok")
      <3>1. x.d = Built(B, soft, "targets") /\ x.hr = "ok" /\ "targets" \in Steps
        BY <2>1, ResultParts DEF Steps
      <3> QED BY <3>1, Zenon
    <2>2. CASE \E done \in Steps : x = Result(Built(B, soft, done), "failed")
      <3>1. PICK done \in Steps : x = Result(Built(B, soft, done), "failed")
        BY <2>2
      <3>2. x.d = Built(B, soft, done) /\ x.hr = "failed"
        BY <3>1, ResultParts
      <3> QED BY <3>2
    <2> DEFINE S == IF B.calm THEN {} ELSE Steps \ {"targets"}
    <2>3. S \subseteq Steps
      OBVIOUS
    <2>4. \/ x = Result(Built(B, soft, "targets"), "ok")
          \/ \E done \in S : x = Result(Built(B, soft, done), "failed")
      BY Zenon DEF CreateDevice
    <2> QED BY <2>1, <2>2, <2>3, <2>4, Zenon
  <1>2. Failed("failed") /\ {"ok", "failed"} \subseteq Hresult
    BY DEF Failed, Hresult
  <1>3. Built(B, soft, done).last = B.last
    <2>1. B \in Bridge BY Zenon DEF Sound
    <2> QED BY <2>1, Zenon DEF Built, Bridge
  <1> DEFINE b == Built(B, soft, done)
  <1>4. /\ Sound(b) /\ Keeps(B, b) /\ b.pending = B.pending
        /\ b.unavailable = B.unavailable /\ b.cpu = B.cpu
        /\ done = "targets" => Uploaded(b)
    BY BuiltSound, Zenon
  <1> HIDE DEF b
  <1>5. x.d = b /\ b.last = NoTarget BY <1>1, <1>3 DEF b
  <1> QED BY <1>1, <1>2, <1>4, <1>5, Zenon DEF Candidate

\* A candidate that fails leaves nothing of itself.
LEMMA DiscardSound ==
    ASSUME NEW B, NEW w, Candidate(B, w)
    PROVE  Candidate(B, IF Failed(w.hr) THEN Result(DiscardCandidate(w.d), w.hr) ELSE w)
  <1>1. CASE ~Failed(w.hr)
    BY <1>1, Zenon
  <1>2. CASE Failed(w.hr)
    <2> DEFINE x == Result(DiscardCandidate(w.d), w.hr)
    <2>1. x.d = ReleaseDevice(w.d) /\ x.hr = w.hr
      BY ResultParts, Zenon DEF DiscardCandidate
    <2>2. Sound(w.d) /\ Keeps(B, w.d) /\ w.d.pending = B.pending
            /\ w.d.unavailable = B.unavailable /\ w.d.cpu = B.cpu /\ w.hr \in Hresult
      BY Zenon DEF Candidate
    <2>3. Sound(x.d) /\ Keeps(w.d, x.d) /\ x.d.last = NoTarget
            /\ x.d.pending = B.pending /\ x.d.unavailable = B.unavailable
            /\ x.d.cpu = B.cpu
      BY <2>1, <2>2, ReleaseSound, Zenon
    <2> HIDE DEF x
    <2>4. Candidate(B, x)
      BY <1>2, <2>1, <2>2, <2>3, KeepsChain, Zenon DEF Candidate
    <2> QED BY <1>2, <2>4, Zenon DEF x
  <1> QED BY <1>1, <1>2, Zenon

LEMMA WarpSound ==
    ASSUME NEW B, Sound(B), B.last = NoTarget, NEW x \in CreateWarp(B)
    PROVE  Candidate(B, x)
  <1>1. PICK w \in CreateDevice(B, TRUE) :
            x = IF Failed(w.hr) THEN Result(DiscardCandidate(w.d), w.hr) ELSE w
    BY Zenon DEF CreateWarp
  <1>2. Candidate(B, w)
    BY DeviceSound
  <1> QED BY <1>1, <1>2, DiscardSound, Zenon

\* create_candidates never takes hardware when it may not try it.
LEMMA CandidatesSound ==
    ASSUME NEW B, Sound(B), B.last = NoTarget, NEW hardware \in BOOLEAN,
           B.forceWarp => ~hardware, NEW x \in CreateCandidates(B, hardware)
    PROVE  Candidate(B, x)
  <1>1. CASE ~hardware
    BY <1>1, WarpSound, Zenon DEF CreateCandidates
  <1>2. CASE hardware
    <2>1. PICK h \in CreateDevice(B, FALSE) :
              x \in IF Failed(h.hr) THEN CreateWarp(DiscardCandidate(h.d)) ELSE {h}
      BY <1>2, Zenon DEF CreateCandidates
    <2>2. Candidate(B, h)
      BY <1>2, DeviceSound
    <2>3. CASE ~Failed(h.hr)
      BY <2>1, <2>2, <2>3, Zenon
    <2>4. CASE Failed(h.hr)
      <3> DEFINE e == DiscardCandidate(h.d)
      <3>1. Candidate(B, Result(e, h.hr)) /\ Result(e, h.hr).d = e
        BY <2>2, <2>4, DiscardSound, ResultParts, Zenon
      <3> HIDE DEF e
      <3>2. Sound(e) /\ Keeps(B, e) /\ e.last = NoTarget /\ e.pending = B.pending
              /\ e.unavailable = B.unavailable /\ e.cpu = B.cpu
        BY <3>1, Zenon DEF Candidate
      <3>3. Candidate(e, x)
        <4>1. x \in CreateWarp(e) BY <2>1, <2>4, Zenon DEF e
        <4> QED BY <3>2, <4>1, WarpSound, Zenon
      <3> QED BY <3>2, <3>3, KeepsChain, Zenon DEF Candidate
    <2> QED BY <2>3, <2>4, Zenon
  <1> QED BY <1>1, <1>2, Zenon

----------------------------------------------------------------------------
(***************************************************************************)
(* Recovery.                                                               *)
(***************************************************************************)
\* A probe begins a window, and is the first of it.
LEMMA ProbeSound ==
    ASSUME NEW B, Sound(B), B.retryIn = 0
    PROVE  LET e == Probe(B)
           IN  /\ Sound(e) /\ Keeps(B, e) /\ e.forceWarp = B.forceWarp
               /\ e.pending = B.pending /\ e.unavailable = B.unavailable
               /\ e.cpu = B.cpu
  <1> DEFINE e == Probe(B)
             n == IF B.probeAge = Window THEN 1 ELSE 2
  <1>1. B \in Bridge BY Zenon DEF Sound
  <1>2. n = 1 /\ n \in 0..2
    <2>1. B.probeAge \in 0..Window BY <1>1, Fields, Zenon
    <2>2. B.retryIn + B.probeAge >= Window BY Zenon DEF Sound, ProbesSound
    <2> QED BY <2>1, <2>2, BridgeAssumption
  <1>3. e = [B EXCEPT !.retryIn = Window, !.probeAge = 0, !.probes = n]
    BY Zenon DEF Probe
  <1> HIDE DEF n, e
  <1>4. e \in Bridge /\ e.last = B.last /\ e.targets = B.targets /\ e.graph = B.graph
          /\ e.committed = B.committed /\ e.swapchain = B.swapchain
          /\ e.retryIn = Window /\ e.probeAge = 0 /\ e.probes = n
          /\ e.forceWarp = B.forceWarp /\ e.device = B.device
          /\ e.unavailable = B.unavailable /\ e.pending = B.pending /\ e.front = B.front
          /\ e.cpu = B.cpu
    <2>1. n \in 0..2 /\ 0 \in 0..Window /\ Window \in 0..Window
      BY <1>2, Constants
    <2> QED BY <1>1, <1>3, <2>1, Zenon DEF Bridge
  <1>5. ProbesSound(e)
    BY <1>2, <1>4, BridgeAssumption DEF ProbesSound
  <1> QED BY <1>4, <1>5, Zenon DEF Sound, Retained, GraphSound, Keeps, Holds, e

\* Setting pending or unavailable disturbs nothing else.
LEMMA EndOfRecovery ==
    ASSUME NEW B, Sound(B), NEW done \in BOOLEAN
    PROVE  LET e == IF done THEN [B EXCEPT !.pending = FALSE]
                    ELSE [B EXCEPT !.unavailable = TRUE]
           IN  /\ Sound(e) /\ Keeps(B, e) /\ e.cpu = B.cpu
               /\ (~done \/ Uploaded(B)) => Agree(e)
  <1> DEFINE e == IF done THEN [B EXCEPT !.pending = FALSE]
                  ELSE [B EXCEPT !.unavailable = TRUE]
  <1>1. B \in Bridge BY Zenon DEF Sound
  <1>2. e \in Bridge /\ e.last = B.last /\ e.targets = B.targets /\ e.graph = B.graph
          /\ e.committed = B.committed /\ e.swapchain = B.swapchain
          /\ e.retryIn = B.retryIn /\ e.probeAge = B.probeAge /\ e.probes = B.probes
          /\ e.forceWarp = B.forceWarp /\ e.device = B.device
          /\ (B.unavailable => e.unavailable) /\ (~done => e.unavailable)
          /\ e.front = B.front /\ e.cpu = B.cpu /\ e.gpu = B.gpu
    BY <1>1, Zenon DEF Bridge
  <1> HIDE DEF e
  <1>3. Sound(e) BY <1>2, SoundFrame, Zenon
  <1>4. Keeps(B, e) BY <1>2, Zenon DEF Keeps, Holds
  <1>5. (~done \/ Uploaded(B)) => Agree(e)
    BY <1>2, Zenon DEF Agree, Uploaded
  <1> QED BY <1>2, <1>3, <1>4, <1>5, Zenon DEF e

\* noctty_d3d11_recover, which rebuilds from the mirrors as they are.
LEMMA RecoverSound ==
    ASSUME NEW B, Sound(B), NEW x \in Recover(B)
    PROVE  Call(B, x) /\ x.d.cpu = B.cpu
  <1> DEFINE s == DeviceStatus(B).d
             hardware == ~s.forceWarp /\ s.retryIn = 0
             start == ReleaseDevice(IF hardware THEN Probe(s) ELSE s)
  <1>1. Sound(s) /\ Keeps(B, s) /\ (Agree(B) => Agree(s)) /\ s.cpu = B.cpu
    <2>1. Noted(B, s) BY StatusNoted, Zenon DEF Sound
    <2>2. Call(B, DeviceStatus(B)) BY StatusSound, Zenon
    <2> HIDE DEF s
    <2>3. s.cpu = B.cpu BY <2>1, Zenon DEF Noted
    <2> QED BY <2>2, <2>3, Zenon DEF Call, s
  <1>2. CASE B.unavailable \/ ~s.pending
    <2>1. x = DeviceStatus(s) BY <1>2, Zenon DEF Recover
    <2>2. Call(s, DeviceStatus(s)) BY <1>1, StatusSound, Zenon
    <2> HIDE DEF s
    <2>3. Noted(s, DeviceStatus(s).d) BY <1>1, StatusNoted, Zenon DEF Sound
    <2>4. x.d.cpu = B.cpu BY <1>1, <2>1, <2>3, Zenon DEF Noted
    <2> QED BY <1>1, <2>1, <2>2, <2>4, CallChain, Zenon
  <1>3. CASE ~(B.unavailable \/ ~s.pending)
    <2>1. Sound(start) /\ Keeps(s, start) /\ start.last = NoTarget /\ start.cpu = s.cpu
      <3>1. LET p == IF hardware THEN Probe(s) ELSE s
            IN  Sound(p) /\ Keeps(s, p) /\ p.cpu = s.cpu
        BY <1>1, ProbeSound, Zenon DEF Keeps, Holds
      <3> QED BY <3>1, ReleaseSound, KeepsChain, Zenon
    <2>2. PICK c \in CreateCandidates(start, hardware) :
              x = Result(IF Failed(c.hr) THEN [c.d EXCEPT !.unavailable = TRUE]
                         ELSE [c.d EXCEPT !.pending = FALSE], c.hr)
      BY <1>3, Zenon DEF Recover
    <2>3. hardware \in BOOLEAN /\ (start.forceWarp => ~hardware)
      BY <2>1, Zenon DEF Keeps, Holds
    <2>4. Candidate(start, c)
      <3> HIDE DEF start, hardware
      <3> QED BY <2>1, <2>2, <2>3, CandidatesSound, Zenon
    <2> HIDE DEF s, start, hardware
    <2>5. Sound(c.d) /\ Keeps(start, c.d) /\ c.hr \in Hresult /\ c.d.cpu = start.cpu
            /\ (~Failed(c.hr) => Uploaded(c.d))
      BY <2>4, Zenon DEF Candidate
    <2>6. Failed(c.hr) \in BOOLEAN BY DEF Failed
    <2>7. x.hr = c.hr /\ Sound(x.d) /\ Keeps(c.d, x.d) /\ Agree(x.d) /\ x.d.cpu = c.d.cpu
      <3> DEFINE done == ~Failed(c.hr)
      <3>1. x.hr = c.hr /\ x.d = IF done THEN [c.d EXCEPT !.pending = FALSE]
                                 ELSE [c.d EXCEPT !.unavailable = TRUE]
        BY <2>2, ResultParts, Zenon
      <3>2. done \in BOOLEAN /\ (~done \/ Uploaded(c.d)) BY <2>5, <2>6, Zenon
      <3> HIDE DEF done
      <3> QED BY <2>5, <3>1, <3>2, EndOfRecovery, Zenon
    <2>8. x.d.cpu = B.cpu BY <1>1, <2>1, <2>5, <2>7
    <2> QED BY <1>1, <2>1, <2>5, <2>7, <2>8, KeepsChain, Zenon DEF Call
  <1> QED BY <1>2, <1>3, Zenon

\* noctty_d3d11_set_recovery_preference, the only call that sets the choice.
LEMMA PreferenceSound ==
    ASSUME NEW B, Sound(B), NEW force \in BOOLEAN
    PROVE  LET e == SetRecoveryPreference(B, force)
           IN  /\ Sound(e) /\ (Agree(B) => Agree(e))
               /\ e.device = B.device /\ e.unavailable = B.unavailable
               /\ e.front = B.front /\ e.targets = B.targets /\ e.cpu = B.cpu
  <1> DEFINE e == SetRecoveryPreference(B, force)
             n == IF B.forceWarp /\ ~force /\ B.warp THEN Window ELSE B.retryIn
  <1>1. B \in Bridge BY Zenon DEF Sound
  <1>2. B.retryIn \in 0..Window /\ B.probeAge \in 0..Window BY <1>1, Fields, Zenon
  <1>3. n \in 0..Window /\ n >= B.retryIn
    BY <1>2, BridgeAssumption
  <1>4. e = [B EXCEPT !.forceWarp = force, !.retryIn = n]
    BY Zenon DEF SetRecoveryPreference
  <1> HIDE DEF n, e
  <1>5. e \in Bridge /\ e.last = B.last /\ e.targets = B.targets /\ e.graph = B.graph
          /\ e.committed = B.committed /\ e.swapchain = B.swapchain
          /\ e.retryIn = n /\ e.probeAge = B.probeAge /\ e.probes = B.probes
          /\ e.device = B.device /\ e.unavailable = B.unavailable /\ e.pending = B.pending
          /\ e.front = B.front /\ e.cpu = B.cpu /\ e.gpu = B.gpu
    BY <1>1, <1>3, <1>4, Zenon DEF Bridge
  <1>6. ProbesSound(e)
    <2>1. B.retryIn + B.probeAge >= Window /\ B.probes <= 1
      BY Zenon DEF Sound, ProbesSound
    <2> QED BY <1>2, <1>3, <1>5, <2>1, BridgeAssumption DEF ProbesSound
  <1> QED BY <1>5, <1>6, Zenon
             DEF Sound, Retained, GraphSound, Agree, Uploaded, e

----------------------------------------------------------------------------
(***************************************************************************)
(* Buffers and textures.                                                   *)
(***************************************************************************)
\* Equal but for the resources' copies and for what no property reads.
Same(B, e) ==
    /\ e.last = B.last /\ e.targets = B.targets /\ e.graph = B.graph
    /\ e.committed = B.committed /\ e.swapchain = B.swapchain
    /\ e.retryIn = B.retryIn /\ e.probeAge = B.probeAge /\ e.probes = B.probes
    /\ e.forceWarp = B.forceWarp /\ e.device = B.device /\ e.front = B.front
    /\ e.unavailable = B.unavailable /\ e.pending = B.pending

LEMMA SameSound ==
    ASSUME NEW B, Sound(B), NEW e \in Bridge, Same(B, e)
    PROVE  Sound(e) /\ Keeps(B, e)
  BY SoundFrame, Zenon DEF Same, Keeps, Holds

\* Copies that were written and taken back are what they were.
LEMMA TakenBack ==
    ASSUME NEW B, Sound(B), NEW e, Sound(e), Keeps(B, e),
           B.pending => e.pending, B.unavailable => e.unavailable,
           NEW f \in Bridge, Same(e, f), f.cpu = B.cpu, f.gpu = B.gpu
    PROVE  Sound(f) /\ Keeps(B, f) /\ (Agree(B) => Agree(f))
  <1>1. Sound(f) /\ Keeps(e, f) BY SameSound, Zenon
  <1>2. Keeps(B, f) BY <1>1, KeepsChain, Zenon
  <1>3. Agree(B) => Agree(f) BY Zenon DEF Agree, Uploaded, Same
  <1> QED BY <1>1, <1>2, <1>3

\* A copy of a mirror just written, with the others as they were.
LEMMA OneUploaded ==
    ASSUME NEW B \in Bridge, NEW e, NEW r \in Resource, NEW m,
           e.cpu = [B.cpu EXCEPT ![r] = m], e.gpu = [B.gpu EXCEPT ![r] = CopyOf(m)],
           e.pending = B.pending, e.unavailable = B.unavailable
    PROVE  Agree(B) => Agree(e)
  <1>1. B.cpu \in [Resource -> Mirror] /\ B.gpu \in [Resource -> Copy]
    BY Fields
  <1>2. Uploaded(B) => Uploaded(e)
    <2> SUFFICES ASSUME Uploaded(B), NEW q \in Resource
                 PROVE  e.gpu[q] = CopyOf(e.cpu[q])
      BY Zenon DEF Uploaded
    <2>1. CASE q = r
      <3>1. e.cpu[q] = m /\ e.gpu[q] = CopyOf(m) BY <1>1, <2>1, Zenon
      <3> QED BY <3>1
    <2>2. CASE q # r
      <3>1. e.cpu[q] = B.cpu[q] /\ e.gpu[q] = B.gpu[q] BY <1>1, <2>2, Zenon
      <3> QED BY <3>1, Zenon DEF Uploaded
    <2> QED BY <2>1, <2>2
  <1> QED BY <1>2, Zenon DEF Agree

\* A call that reads the status and then asks the graphics stack for
\* something: it is done, or the failure is on record.
LEMMA AskedSound ==
    ASSUME NEW b, Sound(b), NEW done, NEW y,
           Failed(DeviceStatus(b).hr) => y = DeviceStatus(b),
           ~Failed(DeviceStatus(b).hr) =>
               \E a \in Answers(b) : y = IF a = "ok" THEN Result(done, "ok") ELSE Answered(b, a)
    PROVE  \/ Failed(y.hr) /\ Call(b, y) /\ Noted(b, y.d)
           \/ ~Failed(y.hr) /\ y = Result(done, "ok") /\ ~b.pending /\ ~b.unavailable
  <1>0. b \in Bridge BY Zenon DEF Sound
  <1>1. CASE Failed(DeviceStatus(b).hr)
    BY <1>0, <1>1, StatusSound, StatusNoted, Zenon
  <1>2. CASE ~Failed(DeviceStatus(b).hr)
    <2>1. PICK a \in Answers(b) :
              y = IF a = "ok" THEN Result(done, "ok") ELSE Answered(b, a)
      BY <1>2
    <2>2. ~b.pending /\ ~b.unavailable
      BY <1>2, StatusSound, Zenon
    <2>3. CASE a = "ok"
      <3>1. y = Result(done, "ok") /\ y.hr = "ok" /\ ~Failed("ok")
        BY <2>1, <2>3, ResultParts DEF Failed
      <3> QED BY <2>2, <3>1, Zenon
    <2>4. CASE a # "ok"
      <3>1. y = Answered(b, a) /\ a \in Hresult /\ Failed(a)
        BY <2>1, <2>4, BridgeAssumption DEF Answers, Hresult, Failed
      <3> QED BY <1>0, <3>1, AnsweredSound, AnsweredNoted, Zenon
    <2> QED BY <2>3, <2>4
  <1> QED BY <1>1, <1>2

\* A call leaves the mirrors alone.
Unwritten(b, c) == c.cpu = b.cpu

\* A call about one resource leaves the mirrors of the others, and all of
\* them when it fails.
Spares(B, x, r) ==
    /\ \A q \in Resource \ {r} : x.d.cpu[q] = B.cpu[q]
    /\ Failed(x.hr) => x.d.cpu = B.cpu

LEMMA OneMirror ==
    ASSUME NEW B, NEW r \in Resource, NEW m, B.cpu \in [Resource -> Mirror],
           NEW e, e.cpu = [B.cpu EXCEPT ![r] = m]
    PROVE  e.cpu[r] = m /\ \A q \in Resource \ {r} : e.cpu[q] = B.cpu[q]
  OBVIOUS

\* noctty_d3d11_buffer_reserve.
LEMMA BufferReserveSound ==
    ASSUME NEW B, Sound(B), NEW r \in Resource, NEW n \in 0..MaxSize,
           NEW x \in BufferReserve(B, r, n)
    PROVE  Call(B, x) /\ Spares(B, x, r)
  <1> DEFINE m == [B.cpu[r] EXCEPT !.size = n]
             big == [B EXCEPT !.cpu[r].size = n]
             done == BufferGpu(big, r)
  <1>1. B \in Bridge /\ B.cpu \in [Resource -> Mirror] /\ B.gpu \in [Resource -> Copy]
    BY Fields, Zenon DEF Sound
  <1>2. "ok" \in Hresult /\ ~Failed("ok") BY DEF Hresult, Failed
  <1>3. CASE n <= B.cpu[r].size
    <2>1. x = Result(B, "ok") BY <1>3, Zenon DEF BufferReserve
    <2>2. x.d = B BY <2>1, ResultParts
    <2> QED BY <1>2, <2>1, <2>2, CallSame, Zenon DEF Spares
  <1>4. CASE ~(n <= B.cpu[r].size)
    <2>1. m \in Mirror
      <3>1. B.cpu[r] \in Mirror BY <1>1
      <3> QED BY <3>1, Zenon DEF Mirror
    <2>2. big = [B EXCEPT !.cpu = [B.cpu EXCEPT ![r] = m]]
      BY Zenon
    <2> HIDE DEF m
    <2>3. [B.cpu EXCEPT ![r] = m] \in [Resource -> Mirror]
      BY <1>1, <2>1, Zenon
    <2> HIDE DEF big
    <2>4. /\ big \in Bridge /\ Same(B, big)
          /\ big.cpu = [B.cpu EXCEPT ![r] = m] /\ big.gpu = B.gpu
      BY <1>1, <2>2, <2>3, Zenon DEF Bridge, Same
    <2>5. Sound(big) /\ Keeps(B, big)
      BY <2>4, SameSound, Zenon
    <2>6. PICK y : /\ x = IF Failed(y.hr) /\ ~RecoveryWillRebuild(y.d)
                         THEN Result([y.d EXCEPT !.cpu[r] = B.cpu[r]], y.hr)
                         ELSE Result(y.d, "ok")
                   /\ Failed(DeviceStatus(big).hr) => y = DeviceStatus(big)
                   /\ ~Failed(DeviceStatus(big).hr) =>
                        \E a \in Answers(big) :
                           y = IF a = "ok" THEN Result(done, "ok") ELSE Answered(big, a)
      <3> DEFINE s == DeviceStatus(big)
                 tried == IF Failed(s.hr) THEN {s}
                          ELSE {IF a = "ok" THEN Result(BufferGpu(s.d, r), "ok")
                                ELSE Answered(s.d, a) : a \in Answers(s.d)}
      <3>1. PICK y \in tried : x = IF Failed(y.hr) /\ ~RecoveryWillRebuild(y.d)
                                   THEN Result([y.d EXCEPT !.cpu[r] = B.cpu[r]], y.hr)
                                   ELSE Result(y.d, "ok")
        BY <1>4, Zenon DEF BufferReserve, big
      <3>2. Failed(s.hr) => y = s BY <3>1, Zenon
      <3>3. ~Failed(s.hr) => s.d = big BY <2>5, StatusSound, Zenon
      <3>4. ~Failed(s.hr) =>
                \E a \in Answers(s.d) : y = IF a = "ok" THEN Result(BufferGpu(s.d, r), "ok")
                                            ELSE Answered(s.d, a)
        BY <3>1, Zenon
      <3> HIDE DEF s, tried
      <3>5. ~Failed(s.hr) =>
                \E a \in Answers(big) : y = IF a = "ok" THEN Result(done, "ok")
                                            ELSE Answered(big, a)
        BY <3>3, <3>4
      <3> QED BY <3>1, <3>2, <3>5, Zenon DEF s
    <2>7. CASE Failed(y.hr) /\ Call(big, y) /\ Noted(big, y.d)
      <3>1. y.hr \in Hresult /\ Sound(y.d) /\ Keeps(big, y.d) /\ y.d \in Bridge
        BY <2>7, Zenon DEF Call, Sound
      <3>2. Keeps(B, y.d) BY <2>5, <3>1, KeepsChain, Zenon
      <3>3. CASE RecoveryWillRebuild(y.d)
        <4>1. x.d = y.d /\ x.hr = "ok" BY <2>6, <3>3, ResultParts
        <4>2. y.d.cpu = [B.cpu EXCEPT ![r] = m] BY <2>4, <2>7, Zenon DEF Noted
        <4>3. Spares(B, x, r)
          <5>1. x.d.cpu = [B.cpu EXCEPT ![r] = m] BY <4>1, <4>2
          <5>2. \A q \in Resource \ {r} : x.d.cpu[q] = B.cpu[q]
            BY <1>1, <5>1, OneMirror, Zenon
          <5>3. ~Failed(x.hr) BY <1>2, <4>1
          <5> QED BY <5>2, <5>3, Zenon DEF Spares
        <4> QED BY <1>2, <3>1, <3>2, <3>3, <4>1, <4>3, Zenon
                DEF Call, Agree, RecoveryWillRebuild
      <3>4. CASE ~RecoveryWillRebuild(y.d)
        <4> DEFINE f == [y.d EXCEPT !.cpu[r] = B.cpu[r]]
        <4>1. x.d = f /\ x.hr = y.hr
          BY <2>6, <2>7, <3>4, ResultParts
        <4>2. y.d.cpu = [B.cpu EXCEPT ![r] = m] /\ y.d.gpu = B.gpu
          BY <2>4, <2>7, Zenon DEF Noted
        <4>3. [y.d.cpu EXCEPT ![r] = B.cpu[r]] = B.cpu
          BY <1>1, <4>2
        <4>4. f = [y.d EXCEPT !.cpu = B.cpu] BY <4>3, Zenon
        <4> HIDE DEF f
        <4>5. f \in Bridge /\ Same(y.d, f) /\ f.cpu = B.cpu /\ f.gpu = B.gpu
          BY <1>1, <3>1, <4>2, <4>4, Zenon DEF Bridge, Same
        <4>6. (B.pending => y.d.pending) /\ (B.unavailable => y.d.unavailable)
          BY <2>4, <2>7, Zenon DEF Noted, Same
        <4>7. Sound(f) /\ Keeps(B, f) /\ (Agree(B) => Agree(f))
          BY <3>1, <3>2, <4>5, <4>6, TakenBack, Zenon
        <4>8. Spares(B, x, r) BY <4>1, <4>5, Zenon DEF Spares
        <4> QED BY <3>1, <4>1, <4>7, <4>8, Zenon DEF Call
      <3> QED BY <3>3, <3>4
    <2>8. CASE ~Failed(y.hr) /\ y = Result(done, "ok") /\ ~big.pending /\ ~big.unavailable
      <3>1. x.d = done /\ x.hr = "ok"
        BY <2>6, <2>8, ResultParts
      <3>2. done = [big EXCEPT !.gpu = [B.gpu EXCEPT ![r] = CopyOf(m)]]
        <4>1. big.cpu[r] = m BY <1>1, <2>4
        <4> QED BY <2>4, <4>1, Zenon DEF BufferGpu
      <3>3. [B.gpu EXCEPT ![r] = CopyOf(m)] \in [Resource -> Copy]
        BY <1>1, <2>1, CopyOfMirror, Zenon
      <3> HIDE DEF done
      <3>4. /\ done \in Bridge /\ Same(big, done)
            /\ done.cpu = big.cpu /\ done.gpu = [B.gpu EXCEPT ![r] = CopyOf(m)]
        BY <2>4, <3>2, <3>3, Zenon DEF Bridge, Same
      <3>5. Sound(done) /\ Keeps(B, done)
        BY <2>5, <3>4, SameSound, KeepsChain, Zenon
      <3>6. Agree(B) => Agree(done)
        <4>1. done.cpu = [B.cpu EXCEPT ![r] = m] /\ done.pending = B.pending
                /\ done.unavailable = B.unavailable
          BY <2>4, <3>4, Zenon DEF Same
        <4> QED BY <1>1, <3>4, <4>1, OneUploaded, Zenon
      <3>7. Spares(B, x, r)
        <4>1. done.cpu = [B.cpu EXCEPT ![r] = m] BY <2>4, <3>4, Zenon
        <4>2. x.d.cpu = [B.cpu EXCEPT ![r] = m] BY <3>1, <4>1
        <4>3. \A q \in Resource \ {r} : x.d.cpu[q] = B.cpu[q]
          BY <1>1, <4>2, OneMirror, Zenon
        <4>4. ~Failed(x.hr) BY <1>2, <3>1
        <4> QED BY <4>3, <4>4, Zenon DEF Spares
      <3> QED BY <1>2, <3>1, <3>5, <3>6, <3>7, Zenon DEF Call
    <2> QED BY <2>5, <2>6, <2>7, <2>8, AskedSound, Zenon
  <1> QED BY <1>3, <1>4

\* noctty_d3d11_buffer_write, and noctty_d3d11_texture_write, which treats its
\* resource the same way.
LEMMA BufferWriteSound ==
    ASSUME NEW B, Sound(B), NEW r \in Resource, NEW v \in Value
    PROVE  /\ Call(B, BufferWrite(B, r, v))
           /\ BufferWrite(B, r, v).d.cpu[r].data = v
           /\ \A q \in Resource \ {r} : BufferWrite(B, r, v).d.cpu[q] = B.cpu[q]
  <1> DEFINE m == [B.cpu[r] EXCEPT !.data = v]
             big == [B EXCEPT !.cpu[r].data = v]
             s == DeviceStatus(big)
             x == BufferWrite(B, r, v)
  <1>1. B \in Bridge /\ B.cpu \in [Resource -> Mirror] /\ B.gpu \in [Resource -> Copy]
    BY Fields, Zenon DEF Sound
  <1>2. "ok" \in Hresult /\ "failed" \in Hresult /\ Failed("failed") /\ "failed" # "contract"
    BY DEF Hresult, Failed
  <1>3. m \in Mirror
    <2>1. B.cpu[r] \in Mirror BY <1>1
    <2> QED BY <2>1, Zenon DEF Mirror
  <1>4. big = [B EXCEPT !.cpu = [B.cpu EXCEPT ![r] = m]]
    BY Zenon
  <1>5. x = IF Failed(s.hr)
            THEN Result(s.d, IF RecoveryWillRebuild(s.d) THEN "ok" ELSE s.hr)
            ELSE IF ~s.d.gpu[r].made THEN Recorded(s.d, "failed")
            ELSE Result([s.d EXCEPT !.gpu[r].data = v], "ok")
    BY Zenon DEF BufferWrite
  <1> HIDE DEF big, x
  <1>6. [B.cpu EXCEPT ![r] = m] \in [Resource -> Mirror]
    <2> HIDE DEF m
    <2> QED BY <1>1, <1>3, Zenon
  <1>7. /\ big \in Bridge /\ Same(B, big)
        /\ big.cpu = [B.cpu EXCEPT ![r] = m] /\ big.gpu = B.gpu
    <2> HIDE DEF m
    <2> QED BY <1>1, <1>4, <1>6, Zenon DEF Bridge, Same
  <1>8. Sound(big) /\ Keeps(B, big)
    BY <1>7, SameSound, Zenon
  <1>9. Call(big, s) /\ s.hr \in Hresult /\ Sound(s.d) /\ Keeps(B, s.d)
    BY <1>8, StatusSound, KeepsChain, Zenon DEF Call
  <1>10. ASSUME Failed(s.hr)
         PROVE  Call(B, x) /\ x.d.cpu = big.cpu
    <2>1. x.d = s.d /\ x.hr \in Hresult
      BY <1>2, <1>5, <1>9, <1>10, ResultParts
    <2>2. s.d.pending \/ s.d.unavailable
      BY <1>8, <1>10, StatusSound, Zenon
    <2>3. Noted(big, x.d)
      <3>1. Noted(big, s.d) BY <1>7, StatusNoted, Zenon
      <3> HIDE DEF s
      <3> QED BY <2>1, <3>1
    <2> HIDE DEF s
    <2>4. x.d.cpu = big.cpu BY <2>3, Zenon DEF Noted
    <2> QED BY <1>9, <2>1, <2>2, <2>4, Zenon DEF Call, Agree
  <1>11. ASSUME ~Failed(s.hr), ~s.d.gpu[r].made
         PROVE  Call(B, x) /\ x.d.cpu = big.cpu
    <2>1. x = Recorded(s.d, "failed") BY <1>5, <1>11, Zenon
    <2>2. Call(s.d, x) /\ (x.d.pending \/ x.d.unavailable)
      BY <1>2, <1>9, <2>1, RecordedSound, Zenon
    <2>3. Keeps(B, x.d) BY <1>9, <2>2, KeepsChain, Zenon DEF Call
    <2>4. x.d.cpu = big.cpu
      <3>1. s.d = big BY <1>8, <1>11, StatusSound, Zenon
      <3>2. x.d = RecordResult(big, "failed") BY <2>1, <3>1, ResultParts DEF Recorded
      <3> DEFINE b == RecordResult(big, "failed")
      <3>3. Noted(big, b) BY <1>7, RecordNoted, Zenon
      <3>4. x.d = b BY <3>2
      <3> HIDE DEF b
      <3> QED BY <3>3, <3>4, Zenon DEF Noted
    <2> QED BY <2>2, <2>3, <2>4, Zenon DEF Call, Agree
  <1>12. ASSUME ~Failed(s.hr), s.d.gpu[r].made
         PROVE  Call(B, x) /\ x.d.cpu = big.cpu
    <2> DEFINE done == [big EXCEPT !.gpu[r].data = v]
               c == [B.gpu[r] EXCEPT !.data = v]
    <2>1. s.d = big /\ ~big.pending /\ ~big.unavailable
      BY <1>8, <1>12, StatusSound, Zenon
    <2>2. x.d = done /\ x.hr = "ok"
      BY <1>5, <1>12, <2>1, ResultParts
    <2>3. c \in Copy
      <3>1. B.gpu[r] \in Copy BY <1>1
      <3> QED BY <3>1, Zenon DEF Copy
    <2>4. done = [big EXCEPT !.gpu = [B.gpu EXCEPT ![r] = c]]
      BY <1>7, Zenon
    <2>5. Uploaded(B) => c = CopyOf(m)
      <3>1. Uploaded(B) => B.gpu[r] = CopyOf(B.cpu[r]) BY Zenon DEF Uploaded
      <3>2. B.cpu[r] \in Mirror BY <1>1
      <3>3. [CopyOf(B.cpu[r]) EXCEPT !.data = v] = CopyOf(m)
        BY <3>2, CopyWritten
      <3> HIDE DEF m
      <3> QED BY <3>1, <3>3, Zenon
    <2> HIDE DEF c
    <2>6. [B.gpu EXCEPT ![r] = c] \in [Resource -> Copy]
      BY <1>1, <2>3, Zenon
    <2> HIDE DEF done
    <2>7. /\ done \in Bridge /\ Same(big, done)
          /\ done.cpu = big.cpu /\ done.gpu = [B.gpu EXCEPT ![r] = c]
      BY <1>7, <2>4, <2>6, Zenon DEF Bridge, Same
    <2>8. Sound(done) /\ Keeps(B, done)
      BY <1>8, <2>7, SameSound, KeepsChain, Zenon
    <2>9. Agree(B) => Agree(done)
      <3>1. done.cpu = [B.cpu EXCEPT ![r] = m] /\ done.pending = B.pending
              /\ done.unavailable = B.unavailable
        BY <1>7, <2>7, Zenon DEF Same
      <3>2. Agree(B) => Uploaded(B)
        BY <1>7, <2>1, Zenon DEF Agree, Same
      <3> HIDE DEF m
      <3> QED BY <1>1, <2>5, <2>7, <3>1, <3>2, OneUploaded
    <2>10. x.d.cpu = big.cpu BY <2>2, <2>7
    <2> QED BY <1>2, <2>2, <2>8, <2>9, <2>10, Zenon DEF Call
  <1>13. Call(B, x) /\ x.d.cpu = big.cpu BY <1>10, <1>11, <1>12
  <1>14. x.d.cpu[r] = m /\ \A q \in Resource \ {r} : x.d.cpu[q] = B.cpu[q]
    <2> HIDE DEF m
    <2>1. x.d.cpu = [B.cpu EXCEPT ![r] = m] BY <1>7, <1>13
    <2> QED BY <1>1, <2>1, OneMirror, Zenon
  <1>15. m.data = v
    <2>1. B.cpu[r] \in Mirror BY <1>1
    <2> QED BY <2>1, Zenon DEF Mirror
  <1> HIDE DEF m
  <1> QED BY <1>13, <1>14, <1>15 DEF x

\* texture_create for a texture that is replaced.
LEMMA TextureReplaceSound ==
    ASSUME NEW B, Sound(B), NEW r \in Resource, NEW x \in TextureReplace(B, r)
    PROVE  Call(B, x) /\ Spares(B, x, r)
  <1> DEFINE m == [size |-> MaxSize, data |-> Blank]
             blank == [B EXCEPT !.cpu[r] = m, !.gpu[r] = Absent]
             done == TextureGpu(blank, r)
  <1>1. B \in Bridge /\ B.cpu \in [Resource -> Mirror] /\ B.gpu \in [Resource -> Copy]
    BY Fields, Zenon DEF Sound
  <1>2. "ok" \in Hresult /\ ~Failed("ok") BY DEF Hresult, Failed
  <1>3. m \in Mirror
    <2>1. MaxSize \in 0..MaxSize /\ Blank \in Value BY BridgeAssumption
    <2> QED BY <2>1, Zenon DEF Mirror
  <1>4. PICK y : /\ x = IF Failed(y.hr) /\ ~RecoveryWillRebuild(y.d)
                       THEN Result([y.d EXCEPT !.cpu[r] = B.cpu[r], !.gpu[r] = B.gpu[r]], y.hr)
                       ELSE Result(y.d, "ok")
                 /\ Failed(DeviceStatus(blank).hr) => y = DeviceStatus(blank)
                 /\ ~Failed(DeviceStatus(blank).hr) =>
                      \E a \in Answers(DeviceStatus(blank).d) :
                         y = IF a = "ok" THEN Result(TextureGpu(DeviceStatus(blank).d, r), "ok")
                             ELSE Answered(DeviceStatus(blank).d, a)
    BY Zenon DEF TextureReplace
  <1> HIDE DEF m
  <1>5. blank = [B EXCEPT !.cpu = [B.cpu EXCEPT ![r] = m],
                          !.gpu = [B.gpu EXCEPT ![r] = Absent]]
    BY <1>1, Zenon DEF Bridge
  <1>6. /\ [B.cpu EXCEPT ![r] = m] \in [Resource -> Mirror]
        /\ [B.gpu EXCEPT ![r] = Absent] \in [Resource -> Copy]
    BY <1>1, <1>3, Constants, Zenon
  <1> HIDE DEF blank
  <1>7. /\ blank \in Bridge /\ Same(B, blank)
        /\ blank.cpu = [B.cpu EXCEPT ![r] = m]
        /\ blank.gpu = [B.gpu EXCEPT ![r] = Absent]
    BY <1>1, <1>5, <1>6, Zenon DEF Bridge, Same
  <1>8. Sound(blank) /\ Keeps(B, blank)
    BY <1>7, SameSound, Zenon
  <1>9. ~Failed(DeviceStatus(blank).hr) =>
            \E a \in Answers(blank) : y = IF a = "ok" THEN Result(done, "ok")
                                          ELSE Answered(blank, a)
    <2>1. ~Failed(DeviceStatus(blank).hr) => DeviceStatus(blank).d = blank
      BY <1>8, StatusSound, Zenon
    <2> QED BY <1>4, <2>1
  <1>10. CASE Failed(y.hr) /\ Call(blank, y) /\ Noted(blank, y.d)
    <2>1. y.hr \in Hresult /\ Sound(y.d) /\ Keeps(blank, y.d) /\ y.d \in Bridge
      BY <1>10, Zenon DEF Call, Sound
    <2>2. Keeps(B, y.d) BY <1>8, <2>1, KeepsChain, Zenon
    <2>3. CASE RecoveryWillRebuild(y.d)
      <3>1. x.d = y.d /\ x.hr = "ok" BY <1>4, <2>3, ResultParts
      <3>2. y.d.cpu = [B.cpu EXCEPT ![r] = m] BY <1>7, <1>10, Zenon DEF Noted
      <3>3. Spares(B, x, r)
        <4>1. x.d.cpu = [B.cpu EXCEPT ![r] = m] BY <3>1, <3>2
        <4>2. \A q \in Resource \ {r} : x.d.cpu[q] = B.cpu[q]
          BY <1>1, <4>1, OneMirror, Zenon
        <4>3. ~Failed(x.hr) BY <1>2, <3>1
        <4> QED BY <4>2, <4>3, Zenon DEF Spares
      <3> QED BY <1>2, <2>1, <2>2, <2>3, <3>1, <3>3, Zenon
              DEF Call, Agree, RecoveryWillRebuild
    <2>4. CASE ~RecoveryWillRebuild(y.d)
      <3> DEFINE f == [y.d EXCEPT !.cpu[r] = B.cpu[r], !.gpu[r] = B.gpu[r]]
      <3>1. x.d = f /\ x.hr = y.hr
        BY <1>4, <1>10, <2>4, ResultParts
      <3>2. /\ y.d.cpu = [B.cpu EXCEPT ![r] = m]
            /\ y.d.gpu = [B.gpu EXCEPT ![r] = Absent]
        BY <1>7, <1>10, Zenon DEF Noted
      <3>3. [y.d.cpu EXCEPT ![r] = B.cpu[r]] = B.cpu
        BY <1>1, <3>2
      <3>4. [y.d.gpu EXCEPT ![r] = B.gpu[r]] = B.gpu
        BY <1>1, <3>2
      <3>5. f = [y.d EXCEPT !.cpu = B.cpu, !.gpu = B.gpu]
        BY <2>1, <3>3, <3>4, Zenon DEF Bridge
      <3> HIDE DEF f
      <3>6. f \in Bridge /\ Same(y.d, f) /\ f.cpu = B.cpu /\ f.gpu = B.gpu
        BY <1>1, <2>1, <3>5, Zenon DEF Bridge, Same
      <3>7. (B.pending => y.d.pending) /\ (B.unavailable => y.d.unavailable)
        BY <1>7, <1>10, Zenon DEF Noted, Same
      <3>8. Sound(f) /\ Keeps(B, f) /\ (Agree(B) => Agree(f))
        BY <2>1, <2>2, <3>6, <3>7, TakenBack, Zenon
      <3>9. Spares(B, x, r) BY <3>1, <3>6, Zenon DEF Spares
      <3> QED BY <2>1, <3>1, <3>8, <3>9, Zenon DEF Call
    <2> QED BY <2>3, <2>4
  <1>11. CASE ~Failed(y.hr) /\ y = Result(done, "ok")
    <2>1. x.d = done /\ x.hr = "ok"
      BY <1>4, <1>11, ResultParts
    <2>2. done = [blank EXCEPT !.gpu = [B.gpu EXCEPT ![r] = CopyOf(m)]]
      <3>1. blank.cpu[r] = m BY <1>1, <1>7
      <3>2. [blank.gpu EXCEPT ![r] = CopyOf(m)] = [B.gpu EXCEPT ![r] = CopyOf(m)]
        BY <1>1, <1>7
      <3>3. done = [blank EXCEPT !.gpu = [blank.gpu EXCEPT ![r] = CopyOf(m)]]
        BY <3>1, Zenon DEF TextureGpu, BufferGpu
      <3> QED BY <3>2, <3>3, Zenon
    <2>3. [B.gpu EXCEPT ![r] = CopyOf(m)] \in [Resource -> Copy]
      BY <1>1, <1>3, CopyOfMirror, Zenon
    <2> HIDE DEF done
    <2>4. /\ done \in Bridge /\ Same(blank, done)
          /\ done.cpu = blank.cpu /\ done.gpu = [B.gpu EXCEPT ![r] = CopyOf(m)]
      BY <1>7, <2>2, <2>3, Zenon DEF Bridge, Same
    <2>5. Sound(done) /\ Keeps(B, done)
      BY <1>8, <2>4, SameSound, KeepsChain, Zenon
    <2>6. Agree(B) => Agree(done)
      <3>1. done.cpu = [B.cpu EXCEPT ![r] = m] /\ done.pending = B.pending
              /\ done.unavailable = B.unavailable
        BY <1>7, <2>4, Zenon DEF Same
      <3> QED BY <1>1, <2>4, <3>1, OneUploaded, Zenon
    <2>7. Spares(B, x, r)
      <3>1. done.cpu = [B.cpu EXCEPT ![r] = m] BY <1>7, <2>4, Zenon
      <3>2. x.d.cpu = [B.cpu EXCEPT ![r] = m] BY <2>1, <3>1
      <3>3. \A q \in Resource \ {r} : x.d.cpu[q] = B.cpu[q]
        BY <1>1, <3>2, OneMirror, Zenon
      <3>4. ~Failed(x.hr) BY <1>2, <2>1
      <3> QED BY <3>3, <3>4, Zenon DEF Spares
    <2> QED BY <1>2, <2>1, <2>5, <2>6, <2>7, Zenon DEF Call
  <1> QED
    <2>1. \/ Failed(y.hr) /\ Call(blank, y) /\ Noted(blank, y.d)
          \/ ~Failed(y.hr) /\ y = Result(done, "ok")
      <3> HIDE DEF done
      <3> QED BY <1>4, <1>8, <1>9, AskedSound, Zenon
    <2> QED BY <1>10, <1>11, <2>1

----------------------------------------------------------------------------
(***************************************************************************)
(* Targets and drawing.                                                    *)
(***************************************************************************)
\* Equal but for one target, which is not the retained one any more, and for
\* what no property reads.
SetsTarget(B, e, t, u) ==
    /\ e.targets = [B.targets EXCEPT ![t] = u]
    /\ e.last = IF B.last = t THEN NoTarget ELSE B.last
    /\ e.graph = B.graph /\ e.committed = B.committed /\ e.swapchain = B.swapchain
    /\ e.retryIn = B.retryIn /\ e.probeAge = B.probeAge /\ e.probes = B.probes
    /\ e.forceWarp = B.forceWarp /\ e.device = B.device /\ e.front = B.front
    /\ e.unavailable = B.unavailable /\ e.pending = B.pending
    /\ e.cpu = B.cpu /\ e.gpu = B.gpu

\* What follows from it.
OneTarget(B, e, t, u) ==
    /\ Sound(e) /\ Holds(B, e) /\ (Agree(B) => Agree(e))
    /\ e.last # t /\ (B.last # t => e.last = B.last) /\ e.targets[t] = u
    /\ \A v \in Target \ {t} : e.targets[v] = B.targets[v]
    /\ e.cpu = B.cpu

LEMMA OneSet ==
    ASSUME NEW B \in Bridge, NEW t \in Target, NEW u \in TargetState
    PROVE  [B.targets EXCEPT ![t] = u] \in [Target -> TargetState]
  BY Fields, Zenon

LEMMA TargetSet ==
    ASSUME NEW B, Sound(B), NEW t \in Target, NEW u \in TargetState,
           NEW e \in Bridge, SetsTarget(B, e, t, u)
    PROVE  OneTarget(B, e, t, u)
  <1>1. B \in Bridge /\ B.targets \in [Target -> TargetState]
        /\ B.last \in Target \cup {NoTarget} /\ NoTarget \notin Target
    BY Fields, BridgeAssumption, Zenon DEF Sound
  <1>2. e.targets[t] = u /\ \A v \in Target \ {t} : e.targets[v] = B.targets[v]
    BY <1>1, Zenon DEF SetsTarget
  <1>3. e.last # t /\ (B.last # t => e.last = B.last)
        /\ (e.last # NoTarget => e.last = B.last /\ e.targets[e.last] = B.targets[B.last])
    BY <1>1, <1>2, Zenon DEF SetsTarget
  <1>4. Sound(e)
    BY <1>3, Zenon DEF SetsTarget, Sound, Retained, GraphSound, ProbesSound
  <1>5. Holds(B, e) /\ (Agree(B) => Agree(e)) /\ e.cpu = B.cpu
    BY Zenon DEF SetsTarget, Holds, Agree, Uploaded
  <1> QED BY <1>2, <1>3, <1>4, <1>5, Zenon DEF OneTarget

\* noctty_d3d11_target_destroy.
LEMMA TargetDestroySound ==
    ASSUME NEW B, Sound(B), NEW t \in Target
    PROVE  OneTarget(B, TargetDestroy(B, t), t, Freed)
  <1> DEFINE e == TargetDestroy(B, t)
             n == IF B.last = t THEN NoTarget ELSE B.last
             ts == [B.targets EXCEPT ![t] = Freed]
  <1>1. B \in Bridge /\ B.last \in Target \cup {NoTarget}
    BY Fields, Zenon DEF Sound
  <1>2. n \in Target \cup {NoTarget} /\ ts \in [Target -> TargetState]
    BY <1>1, Constants, OneSet
  <1>3. e = [B EXCEPT !.targets = ts, !.last = n]
    BY <1>1, Zenon DEF TargetDestroy, Bridge
  <1> HIDE DEF e
  <1>4. e \in Bridge /\ SetsTarget(B, e, t, Freed)
    BY <1>1, <1>2, <1>3, Zenon DEF Bridge, SetsTarget
  <1>5. OneTarget(B, e, t, Freed)
    BY <1>4, Constants, TargetSet, Zenon
  <1> QED BY <1>5 DEF e

\* noctty_d3d11_target_create, of a handle that is not in use.
LEMMA TargetCreateSound ==
    ASSUME NEW B, Sound(B), NEW t \in Target, ~B.targets[t].made, NEW n \in 0..MaxSize,
           NEW x \in TargetCreate(B, t, n)
    PROVE  /\ x.hr \in Hresult /\ Sound(x.d) /\ Holds(B, x.d)
           /\ Agree(B) => Agree(x.d)
           /\ \A u \in Target \ {t} : x.d.targets[u].made = B.targets[u].made
           /\ ~Failed(x.hr) => x.d.targets[t].made
           /\ x.d.cpu = B.cpu
  <1> DEFINE u == [Freed EXCEPT !.made = TRUE, !.size = n]
             new == [B EXCEPT !.targets[t] = u]
             done == TargetGpu(new, t)
  <1>1. B \in Bridge /\ B.targets \in [Target -> TargetState]
        /\ B.last \in Target \cup {NoTarget} /\ NoTarget \notin Target
    BY Fields, BridgeAssumption, Zenon DEF Sound
  <1>2. "ok" \in Hresult /\ ~Failed("ok") BY DEF Hresult, Failed
  <1>3. u \in TargetState /\ u.made
    BY Constants, Zenon DEF TargetState
  <1>4. B.last # t
    BY <1>1, Zenon DEF Sound, Retained
  <1>5. PICK y : /\ x = IF Failed(y.hr) /\ ~RecoveryWillRebuild(y.d)
                       THEN Result([y.d EXCEPT !.targets[t] = Freed], y.hr)
                       ELSE Result(y.d, "ok")
                 /\ Failed(DeviceStatus(new).hr) => y = DeviceStatus(new)
                 /\ ~Failed(DeviceStatus(new).hr) =>
                      \E a \in Answers(DeviceStatus(new).d) :
                         y = IF a = "ok" THEN Result(TargetGpu(DeviceStatus(new).d, t), "ok")
                             ELSE Answered(DeviceStatus(new).d, a)
    BY Zenon DEF TargetCreate
  <1> HIDE DEF u
  <1>6. new \in Bridge /\ SetsTarget(B, new, t, u)
    <2>1. [B.targets EXCEPT ![t] = u] \in [Target -> TargetState]
      BY <1>1, <1>3, OneSet
    <2>2. new = [B EXCEPT !.targets = [B.targets EXCEPT ![t] = u]]
      BY Zenon
    <2> HIDE DEF new
    <2> QED BY <1>1, <1>4, <2>1, <2>2, Zenon DEF Bridge, SetsTarget
  <1> HIDE DEF new
  <1>7. /\ Sound(new) /\ Holds(B, new) /\ (Agree(B) => Agree(new))
        /\ new.last = B.last /\ new.targets[t] = u /\ new.cpu = B.cpu
        /\ \A v \in Target \ {t} : new.targets[v] = B.targets[v]
    <2>1. OneTarget(B, new, t, u) BY <1>3, <1>6, TargetSet, Zenon
    <2> QED BY <1>4, <2>1, Zenon DEF OneTarget
  <1>8. ~Failed(DeviceStatus(new).hr) =>
            \E a \in Answers(new) : y = IF a = "ok" THEN Result(done, "ok")
                                        ELSE Answered(new, a)
    <2>1. ~Failed(DeviceStatus(new).hr) => DeviceStatus(new).d = new
      BY <1>7, StatusSound, Zenon
    <2> QED BY <1>5, <2>1
  <1>9. CASE Failed(y.hr) /\ Call(new, y) /\ Noted(new, y.d)
    <2>1. /\ y.hr \in Hresult /\ Sound(y.d) /\ Holds(B, y.d)
          /\ Agree(B) => Agree(y.d)
          /\ \A v \in Target : y.d.targets[v].made = new.targets[v].made
          /\ y.d.cpu = B.cpu
      BY <1>7, <1>9, Zenon DEF Call, Keeps, Holds, Noted
    <2>2. y.d.last # t
      BY <1>1, <1>4, <1>7, <1>9, Zenon DEF Noted
    <2>3. CASE RecoveryWillRebuild(y.d)
      <3>1. x.d = y.d /\ x.hr = "ok" BY <1>5, <2>3, ResultParts
      <3> QED BY <1>2, <1>3, <1>7, <2>1, <3>1, Zenon
    <2>4. CASE ~RecoveryWillRebuild(y.d)
      <3> DEFINE f == [y.d EXCEPT !.targets[t] = Freed]
      <3>1. x.d = f /\ x.hr = y.hr
        BY <1>5, <1>9, <2>4, ResultParts
      <3>2. f \in Bridge /\ SetsTarget(y.d, f, t, Freed)
        <4>1. y.d \in Bridge BY <2>1, Zenon DEF Sound
        <4>2. [y.d.targets EXCEPT ![t] = Freed] \in [Target -> TargetState]
          BY <4>1, Constants, OneSet
        <4>3. f = [y.d EXCEPT !.targets = [y.d.targets EXCEPT ![t] = Freed]]
          BY Zenon
        <4> HIDE DEF f
        <4> QED BY <2>2, <4>1, <4>2, <4>3, Zenon DEF Bridge, SetsTarget
      <3> HIDE DEF f
      <3>3. /\ Sound(f) /\ Holds(y.d, f) /\ (Agree(y.d) => Agree(f))
            /\ \A v \in Target \ {t} : f.targets[v] = y.d.targets[v]
            /\ f.cpu = y.d.cpu
        <4>1. OneTarget(y.d, f, t, Freed) BY <2>1, <3>2, Constants, TargetSet, Zenon
        <4> QED BY <4>1, Zenon DEF OneTarget
      <3>4. Holds(B, f) BY <2>1, <3>3, Zenon DEF Holds
      <3> QED BY <1>7, <1>9, <2>1, <3>1, <3>3, <3>4, Zenon
    <2> QED BY <2>3, <2>4
  <1>10. CASE ~Failed(y.hr) /\ y = Result(done, "ok")
    <2>1. x.d = done /\ x.hr = "ok"
      BY <1>5, <1>10, ResultParts
    <2>2. CASE new.targets[t].size = 0
      <3>1. done = new BY <2>2, Zenon DEF TargetGpu
      <3> QED BY <1>2, <1>3, <1>7, <2>1, <3>1, Zenon
    <2>3. CASE new.targets[t].size # 0
      <3> DEFINE w == [u EXCEPT !.gpu = TRUE, !.rendered = FALSE, !.pixels = Undrawn]
      <3>1. w \in TargetState /\ w.made
        BY <1>3, Constants, Zenon DEF TargetState
      <3>2. new \in Bridge /\ new.targets \in [Target -> TargetState]
        BY <1>7, Fields, Zenon DEF Sound
      <3>3. done \in Bridge /\ SetsTarget(new, done, t, w)
        <4>1. [new.targets EXCEPT ![t] = w] \in [Target -> TargetState]
          BY <3>1, <3>2, OneSet
        <4>2. done = [new EXCEPT !.targets = [new.targets EXCEPT ![t] = w]]
          BY <1>7, <2>3, <3>2, Zenon DEF TargetGpu, Bridge
        <4> HIDE DEF done, w
        <4> QED BY <1>4, <1>7, <3>2, <4>1, <4>2, Zenon DEF Bridge, SetsTarget
      <3> HIDE DEF done, w
      <3>4. /\ Sound(done) /\ Holds(new, done) /\ (Agree(new) => Agree(done))
            /\ done.targets[t] = w /\ done.cpu = new.cpu
            /\ \A v \in Target \ {t} : done.targets[v] = new.targets[v]
        <4>1. OneTarget(new, done, t, w) BY <1>7, <3>1, <3>3, TargetSet, Zenon
        <4> QED BY <4>1, Zenon DEF OneTarget
      <3>5. Holds(B, done) BY <1>7, <3>4, Zenon DEF Holds
      <3> QED BY <1>2, <1>7, <2>1, <3>1, <3>4, <3>5, Zenon
    <2> QED BY <2>2, <2>3
  <1> QED
    <2>1. \/ Failed(y.hr) /\ Call(new, y) /\ Noted(new, y.d)
          \/ ~Failed(y.hr) /\ y = Result(done, "ok")
      <3> HIDE DEF done
      <3> QED BY <1>5, <1>7, <1>8, AskedSound, Zenon
    <2> QED BY <1>9, <1>10, <2>1

\* noctty_d3d11_clear: the target is not the retained one from then on.
LEMMA ClearSound ==
    ASSUME NEW B, Sound(B), NEW t \in Target
    PROVE  /\ Call(B, Clear(B, t)) /\ Clear(B, t).d.cpu = B.cpu
           /\ ~Failed(Clear(B, t).hr) => Clear(B, t).d.last # t
  <1> DEFINE s == DeviceStatus(B)
             x == Clear(B, t)
  <1>1. "ok" \in Hresult /\ "failed" \in Hresult /\ Failed("failed") /\ ~Failed("ok")
    BY DEF Hresult, Failed
  <1>2. Call(B, s) /\ (~Failed(s.hr) => s.d = B)
    BY StatusSound, Zenon
  <1>6. B \in Bridge /\ Noted(B, s.d) /\ Noted(B, RecordResult(B, "failed"))
    <2>1. B \in Bridge BY Zenon DEF Sound
    <2> QED BY <2>1, StatusNoted, RecordNoted, Zenon
  <1>3. CASE Failed(s.hr)
    <2>1. x = s BY <1>3, Zenon DEF Clear
    <2> HIDE DEF s, x
    <2>2. x.d.cpu = B.cpu BY <1>6, <2>1, Zenon DEF Noted
    <2> QED BY <1>2, <1>3, <2>1, <2>2, Zenon DEF x
  <1>4. CASE ~Failed(s.hr) /\ ~B.targets[t].gpu
    <2>1. x = Recorded(B, "failed") BY <1>2, <1>4, Zenon DEF Clear
    <2>2. Call(B, Recorded(B, "failed")) /\ Recorded(B, "failed").hr = "failed"
      BY <1>1, RecordedSound, Zenon
    <2>3. x.d.cpu = B.cpu
      <3>1. x.d = RecordResult(B, "failed") BY <2>1, ResultParts DEF Recorded
      <3> HIDE DEF x
      <3> QED BY <1>6, <3>1, Zenon DEF Noted
    <2> QED BY <1>1, <2>1, <2>2, <2>3, Zenon
  <1>5. CASE ~Failed(s.hr) /\ B.targets[t].gpu
    <2> DEFINE u == [B.targets[t] EXCEPT !.rendered = FALSE, !.pixels = Undrawn]
               e == [B EXCEPT !.targets[t].rendered = FALSE, !.targets[t].pixels = Undrawn,
                              !.last = IF B.last = t THEN NoTarget ELSE B.last]
               n == IF B.last = t THEN NoTarget ELSE B.last
               ts == [B.targets EXCEPT ![t] = u]
    <2>1. x.d = e /\ x.hr = "ok"
      <3>1. x = Result(e, "ok") BY <1>2, <1>5, Zenon DEF Clear
      <3> QED BY <3>1, ResultParts, Zenon
    <2>2. B \in Bridge /\ B.targets \in [Target -> TargetState]
          /\ B.last \in Target \cup {NoTarget}
      BY Fields, Zenon DEF Sound
    <2>3. u \in TargetState /\ u.made = B.targets[t].made
      <3>1. B.targets[t] \in TargetState BY <2>2
      <3> QED BY <3>1, Constants, Zenon DEF TargetState
    <2>4. e = [B EXCEPT !.targets = ts, !.last = n]
      BY <2>2, Zenon DEF Bridge
    <2>5. ts \in [Target -> TargetState] /\ n \in Target \cup {NoTarget}
      BY <2>2, <2>3, OneSet, Zenon
    <2> HIDE DEF e, u
    <2>6. e \in Bridge /\ SetsTarget(B, e, t, u)
      BY <2>2, <2>4, <2>5, Zenon DEF Bridge, SetsTarget
    <2>7. OneTarget(B, e, t, u)
      BY <2>3, <2>6, TargetSet, Zenon
    <2>8. Call(B, x)
      BY <1>1, <2>1, <2>3, <2>7, Zenon DEF Call, Keeps, OneTarget
    <2> QED BY <2>1, <2>7, <2>8, Zenon DEF OneTarget
  <1> QED BY <1>3, <1>4, <1>5

\* The draw calls of a pass into a target that is not the retained one: when
\* they succeed its pixels are a frame.
LEMMA DrawSound ==
    ASSUME NEW B, Sound(B), NEW t \in Target, B.last # t
    PROVE  /\ Call(B, Draw(B, t)) /\ Draw(B, t).d.cpu = B.cpu
           /\ ~Failed(Draw(B, t).hr) =>
                  /\ Draw(B, t).d.targets[t].pixels.whole
                  /\ Draw(B, t).d.targets[t].pixels.of = [r \in Resource |-> B.gpu[r].data]
                  /\ ~B.pending /\ ~B.unavailable
  <1> DEFINE s == DeviceStatus(B)
             x == Draw(B, t)
  <1>1. "contract" \in Hresult /\ Failed("contract")
    BY DEF Hresult, Failed
  <1>2. Call(B, s) /\ (~Failed(s.hr) => s.d = B /\ ~B.pending /\ ~B.unavailable)
    BY StatusSound, Zenon
  <1>6. B \in Bridge /\ Noted(B, s.d) /\ Noted(B, RecordResult(B, "contract"))
    <2>1. B \in Bridge BY Zenon DEF Sound
    <2> QED BY <2>1, StatusNoted, RecordNoted, Zenon
  <1>3. CASE Failed(s.hr)
    <2>1. x = s BY <1>3, Zenon DEF Draw
    <2> HIDE DEF s, x
    <2>2. x.d.cpu = B.cpu BY <1>6, <2>1, Zenon DEF Noted
    <2> QED BY <1>2, <1>3, <2>1, <2>2, Zenon DEF x
  <1> DEFINE bad == ~B.targets[t].gpu \/ \E r \in Resource : ~B.gpu[r].made
  <1>4. CASE ~Failed(s.hr) /\ bad
    <2>1. x = Recorded(B, "contract") BY <1>2, <1>4, Zenon DEF Draw
    <2>2. Call(B, Recorded(B, "contract")) /\ Recorded(B, "contract").hr = "contract"
      BY <1>1, RecordedSound, Zenon
    <2>3. x.d.cpu = B.cpu
      <3>1. x.d = RecordResult(B, "contract") BY <2>1, ResultParts DEF Recorded
      <3> HIDE DEF x
      <3> QED BY <1>6, <3>1, Zenon DEF Noted
    <2> QED BY <1>1, <2>1, <2>2, <2>3, Zenon
  <1>5. CASE ~Failed(s.hr) /\ ~bad
    <2> DEFINE p == [whole |-> TRUE, of |-> [r \in Resource |-> B.gpu[r].data]]
               u == [B.targets[t] EXCEPT !.pixels = p]
               e == [B EXCEPT !.targets[t].pixels = p]
               ts == [B.targets EXCEPT ![t] = u]
    <2>1. x = DeviceStatus(e)
      BY <1>2, <1>5, Zenon DEF Draw
    <2>2. B \in Bridge /\ B.targets \in [Target -> TargetState]
          /\ B.last \in Target \cup {NoTarget} /\ B.gpu \in [Resource -> Copy]
      BY Fields, Zenon DEF Sound
    <2>3. p \in Frame /\ p.whole /\ p.of = [r \in Resource |-> B.gpu[r].data]
      <3>1. \A r \in Resource : B.gpu[r].data \in Value
        <4>1. \A c \in Copy : c.data \in Value BY Zenon DEF Copy
        <4> QED BY <2>2, <4>1
      <3>2. [r \in Resource |-> B.gpu[r].data] \in [Resource -> Value]
        BY <3>1, Zenon
      <3> DEFINE f == [r \in Resource |-> B.gpu[r].data]
      <3> HIDE DEF f
      <3>3. [whole |-> TRUE, of |-> f] \in Frame /\ [whole |-> TRUE, of |-> f].of = f
        BY <3>2, Zenon DEF Frame, f
      <3> QED BY <3>3, Zenon DEF f
    <2> HIDE DEF p
    <2>4. u \in TargetState /\ u.made = B.targets[t].made /\ u.pixels = p
      <3>1. B.targets[t] \in TargetState BY <2>2
      <3> QED BY <2>3, <3>1, Zenon DEF TargetState
    <2>5. e = [B EXCEPT !.targets = ts]
      BY Zenon
    <2>6. ts \in [Target -> TargetState]
      BY <2>2, <2>4, OneSet, Zenon
    <2> HIDE DEF e, u
    <2>7. e \in Bridge /\ SetsTarget(B, e, t, u)
      BY <2>2, <2>5, <2>6, Zenon DEF Bridge, SetsTarget
    <2>8. OneTarget(B, e, t, u)
      BY <2>4, <2>7, TargetSet, Zenon
    <2>9. Sound(e) /\ Keeps(B, e) /\ (Agree(B) => Agree(e)) /\ e.targets[t] = u
          /\ e.cpu = B.cpu
      BY <2>4, <2>8, Zenon DEF Keeps, OneTarget
    <2>10. Call(e, x) /\ (~Failed(x.hr) => x.d = e)
      BY <2>1, <2>9, StatusSound, Zenon
    <2>11. Call(B, x)
      BY <2>9, <2>10, CallChain, Zenon
    <2>12. x.d.cpu = B.cpu
      <3>1. Noted(e, x.d) BY <2>1, <2>7, StatusNoted, Zenon
      <3> HIDE DEF x
      <3> QED BY <2>9, <3>1, Zenon DEF Noted
    <2> HIDE DEF x
    <2>13. ~Failed(x.hr) => x.d.targets[t].pixels = p BY <2>4, <2>9, <2>10
    <2> QED BY <1>2, <1>5, <2>3, <2>11, <2>12, <2>13, Zenon DEF x
  <1> QED BY <1>3, <1>4, <1>5

----------------------------------------------------------------------------
(***************************************************************************)
(* Swapchains and the composition graph.                                   *)
(***************************************************************************)
\* Equal but for the swapchain, its graph and what no property reads.
Shows(B, e) ==
    /\ e.last = B.last /\ e.targets = B.targets /\ e.front = B.front
    /\ e.retryIn = B.retryIn /\ e.probeAge = B.probeAge /\ e.probes = B.probes
    /\ e.forceWarp = B.forceWarp /\ e.device = B.device
    /\ e.unavailable = B.unavailable /\ e.pending = B.pending
    /\ e.cpu = B.cpu /\ e.gpu = B.gpu

\* A step towards a presentation.
Staged(B, x) == x.hr \in Hresult /\ Sound(x.d) /\ Shows(B, x.d)

Passed(B, e) == Sound(e) /\ Keeps(B, e) /\ (Agree(B) => Agree(e)) /\ e.cpu = B.cpu

\* A presentation that does not fail put the target's frame in the committed
\* swapchain, unless the window is hidden.
Drawn(B, t, x) ==
    ~Failed(x.hr) => x.d.occluded \/ (x.d.committed /\ x.d.front = B.targets[t].pixels)

\* What is committed is on the window.
LEMMA CommittedShows ==
    ASSUME NEW B, Sound(B), B.committed, ~RestoreFails
    PROVE  B.swapchain /\ B.graph.live
  BY Zenon DEF Sound, GraphSound

LEMMA ShownSound ==
    ASSUME NEW B, Sound(B), NEW e \in Bridge, Shows(B, e), GraphSound(e)
    PROVE  Sound(e)
  BY Zenon DEF Shows, Sound, Retained, ProbesSound

LEMMA ShowsPassed ==
    ASSUME NEW B, NEW e, Sound(e), Shows(B, e)
    PROVE  Passed(B, e)
  BY Zenon DEF Shows, Passed, Keeps, Holds, Agree, Uploaded

LEMMA StagedPassed == ASSUME NEW B, NEW x, Staged(B, x) PROVE Passed(B, x.d)
  BY ShowsPassed, Zenon DEF Staged

LEMMA StagedCall == ASSUME NEW B, NEW x, Staged(B, x) PROVE Call(B, x) /\ x.d.cpu = B.cpu
  BY StagedPassed, Zenon DEF Staged, Passed, Call

LEMMA StagedChain ==
    ASSUME NEW B, NEW e, Shows(B, e), NEW x, Staged(e, x)
    PROVE  Staged(B, x)
  BY Zenon DEF Staged, Shows

\* A call that fails changes nothing of what is shown.
LEMMA AfterStaged ==
    ASSUME NEW B, Sound(B), NEW a \in Hresult
    PROVE  /\ Staged(B, Result(After(B, a), a))
           /\ After(B, a).graph = B.graph /\ After(B, a).committed = B.committed
           /\ After(B, a).swapchain = B.swapchain
  <1> DEFINE e == [B EXCEPT !.gone = TRUE]
  <1>1. B \in Bridge BY Zenon DEF Sound
  <1>2. After(B, a) = e \/ After(B, a) = B
    BY Zenon DEF After
  <1>3. Shows(B, B) BY Zenon DEF Shows
  <1>4. e \in Bridge /\ Shows(B, e) /\ e.graph = B.graph /\ e.committed = B.committed
        /\ e.swapchain = B.swapchain
    BY <1>1, Zenon DEF Bridge, Shows
  <1> HIDE DEF e
  <1>5. GraphSound(e) BY <1>4, Zenon DEF GraphSound, Sound
  <1>6. Sound(e) BY <1>4, <1>5, ShownSound, Zenon
  <1> DEFINE f == After(B, a)
  <1>7. Sound(f) /\ Shows(B, f) /\ f.graph = B.graph /\ f.committed = B.committed
        /\ f.swapchain = B.swapchain
    <2>1. CASE f = e BY <1>4, <1>6, <2>1, Zenon
    <2>2. CASE f = B BY <1>3, <2>2, Zenon
    <2> QED BY <1>2, <2>1, <2>2
  <1> HIDE DEF f
  <1>8. Staged(B, Result(f, a)) BY <1>7, ResultParts, Zenon DEF Staged
  <1> QED BY <1>7, <1>8 DEF f

\* noctty_d3d11_composition_commit: what it commits is visible.
LEMMA CommitSound ==
    ASSUME NEW B, Sound(B), NEW x \in CompositionCommit(B)
    PROVE  /\ Staged(B, x)
           /\ ~Failed(x.hr) => x.d.graph.made /\ x.d.graph.committed
  <1>1. B \in Bridge /\ B.graph \in Graph BY Fields, Zenon DEF Sound
  <1>2. /\ {"ok", "lost", "failed", "contract"} \subseteq Hresult
        /\ Failed("lost") /\ Failed("failed") /\ Failed("contract")
        /\ CheckState(B.graph) = "ok" => B.graph.made
    BY DEF Hresult, Failed, CheckState
  <1>3. Shows(B, B) BY Zenon DEF Shows
  <1>4. \A hr \in Hresult : /\ Staged(B, Result(B, hr)) /\ Result(B, hr).hr = hr
                            /\ Result(B, hr).d = B
    BY <1>3, ResultParts, Zenon DEF Staged
  <1>5. CASE CheckState(B.graph) # "ok"
    <2>1. x = Result(B, IF B.graph.made THEN "lost" ELSE "contract")
      BY <1>5, Zenon DEF CompositionCommit
    <2> QED BY <1>2, <1>4, <2>1
  <1>6. CASE CheckState(B.graph) = "ok" /\ B.graph.detached
    <2>1. x = Result(B, "failed")
      BY <1>6, Zenon DEF CompositionCommit
    <2> QED BY <1>2, <1>4, <2>1
  <1>7. CASE CheckState(B.graph) = "ok" /\ ~B.graph.detached /\ B.graph.committed
    <2>1. x = Result(B, "ok")
      BY <1>7, Zenon DEF CompositionCommit
    <2> QED BY <1>2, <1>4, <1>7, <2>1
  <1>8. CASE CheckState(B.graph) = "ok" /\ ~B.graph.detached /\ ~B.graph.committed
    <2> DEFINE e == [B EXCEPT !.graph.committed = TRUE, !.graph.live = B.graph.tree]
               g == [B.graph EXCEPT !.committed = TRUE, !.live = B.graph.tree]
    <2>1. PICK a \in Answers(B) : x = IF a = "ok" THEN Result(e, "ok")
                                      ELSE Result(After(B, a), a)
      BY <1>8, Zenon DEF CompositionCommit
    <2>2. CASE a = "ok"
      <3>1. x.d = e /\ x.hr = "ok" BY <2>1, <2>2, ResultParts
      <3>2. g \in Graph /\ g.made = B.graph.made /\ g.tree = B.graph.tree /\ g.committed
            /\ g.live = B.graph.tree /\ g.detached = B.graph.detached
        BY <1>1, Zenon DEF Graph
      <3>3. e = [B EXCEPT !.graph = g] BY <1>1, Zenon DEF Bridge
      <3> HIDE DEF e, g
      <3>4. e \in Bridge /\ Shows(B, e) /\ e.graph = g /\ e.committed = B.committed
            /\ e.swapchain = B.swapchain
        BY <1>1, <3>2, <3>3, Zenon DEF Bridge, Shows
      <3>5. GraphSound(e)
        BY <1>2, <1>8, <3>2, <3>4, Zenon DEF Sound, GraphSound
      <3>6. Sound(e) BY <3>4, <3>5, ShownSound, Zenon
      <3> QED BY <1>2, <1>8, <3>1, <3>2, <3>4, <3>6, Zenon DEF Staged
    <2>3. CASE a # "ok"
      <3>1. x = Result(After(B, a), a) BY <2>1, <2>3
      <3>2. a \in Hresult /\ Failed(a)
        BY <2>3, BridgeAssumption DEF Answers, Hresult, Failed
      <3> QED BY <3>1, <3>2, AfterStaged, ResultParts, Zenon
    <2> QED BY <2>2, <2>3
  <1> QED BY <1>5, <1>6, <1>7, <1>8

\* noctty_d3d11_composition_detach: a failure leaves the graph as sound as it
\* was.
LEMMA DetachSound ==
    ASSUME NEW B, Sound(B), CheckState(B.graph) = "ok",
           NEW x \in CompositionDetach(B)
    PROVE  /\ x.hr \in Hresult /\ \E g \in Graph : x.d = [B EXCEPT !.graph = g]
           /\ Failed(x.hr) => Staged(B, x)
  <1>1. B \in Bridge /\ B.graph \in Graph BY Fields, Zenon DEF Sound
  <1>2. {"ok", "failed"} \subseteq Hresult /\ ~Failed("ok") /\ B.graph.made /\ B.graph.valid
    BY DEF Hresult, Failed, CheckState
  <1>3. ~B.graph.detached
    BY <1>2, Zenon DEF Sound, GraphSound
  <1> DEFINE g == B.graph
             stripped == [g EXCEPT !.tree = FALSE]
             off == [stripped EXCEPT !.live = FALSE, !.committed = FALSE, !.detached = TRUE]
  <1>4. stripped \in Graph /\ off \in Graph BY <1>1, Zenon DEF Graph
  <1>5. \/ x = Result([B EXCEPT !.graph = off], "ok")
        \/ \E from \in {g, stripped} : \E r \in RestoreAfterFailedDetach(from) :
              x = Result([B EXCEPT !.graph = r], "failed")
    BY <1>3, Zenon DEF CompositionDetach
  <1>6. CASE x = Result([B EXCEPT !.graph = off], "ok")
    <2>1. x.d = [B EXCEPT !.graph = off] /\ x.hr = "ok" BY <1>6, ResultParts
    <2> HIDE DEF off
    <2> QED BY <1>2, <1>4, <2>1, Zenon
  <1>7. CASE \E from \in {g, stripped} : \E r \in RestoreAfterFailedDetach(from) :
                x = Result([B EXCEPT !.graph = r], "failed")
    <2>0. PICK from \in {g, stripped} : \E r \in RestoreAfterFailedDetach(from) :
                x = Result([B EXCEPT !.graph = r], "failed")
      BY <1>7
    <2>1. PICK r \in RestoreAfterFailedDetach(from) :
                x = Result([B EXCEPT !.graph = r], "failed")
      BY <2>0
    <2>2. /\ from \in Graph /\ from.made /\ from.valid /\ ~from.detached
          /\ from.committed = g.committed /\ from.live = g.live
      <3>1. stripped.made = g.made /\ stripped.valid = g.valid
            /\ stripped.detached = g.detached /\ stripped.committed = g.committed
            /\ stripped.live = g.live
        BY <1>1, Zenon DEF Graph
      <3> HIDE DEF stripped
      <3>2. CASE from = g BY <1>1, <1>2, <1>3, <3>2
      <3>3. CASE from = stripped BY <1>2, <1>3, <1>4, <3>1, <3>3
      <3> QED BY <2>1, <3>2, <3>3
    <2> DEFINE back == [from EXCEPT !.tree = TRUE,
                                    !.live = IF from.committed THEN TRUE ELSE from.live]
               e == [B EXCEPT !.graph = r]
    <2>3. CheckState(from) = "ok" BY <2>2 DEF CheckState
    <2>4. r = back \/ (RestoreFails /\ r = from)
      BY <2>1, <2>3 DEF RestoreAfterFailedDetach
    <2>5. /\ r \in Graph /\ r.made = from.made /\ r.detached = from.detached
          /\ r.committed = from.committed /\ (RestoreFails \/ r.tree)
          /\ from.committed => RestoreFails \/ r.live
      <3>1. CASE RestoreFails /\ r = from BY <2>2, <3>1
      <3>2. CASE r = back
        <4> DEFINE l == IF from.committed THEN TRUE ELSE from.live
        <4>1. from.committed \in BOOLEAN /\ from.live \in BOOLEAN
          BY <2>2, Zenon DEF Graph
        <4>2. l \in BOOLEAN /\ (from.committed => l) BY <4>1
        <4>3. r = [from EXCEPT !.tree = TRUE, !.live = l] BY <3>2
        <4> HIDE DEF l
        <4> QED BY <2>2, <4>2, <4>3, Zenon DEF Graph
      <3> QED BY <2>4, <3>1, <3>2
    <2>6. x.d = e /\ x.hr = "failed" BY <2>1, ResultParts
    <2> HIDE DEF e
    <2>7. e \in Bridge /\ Shows(B, e) /\ e.graph = r /\ e.committed = B.committed
          /\ e.swapchain = B.swapchain
      BY <1>1, <2>5, Zenon DEF Bridge, Shows, e
    <2>8. GraphSound(e)
      BY <1>2, <2>2, <2>5, <2>7, Zenon DEF Sound, GraphSound
    <2>9. Sound(e) BY <2>7, <2>8, ShownSound, Zenon
    <2> QED BY <1>2, <2>5, <2>6, <2>7, <2>9, Zenon DEF Staged, e
  <1> QED BY <1>5, <1>6, <1>7

\* noctty_d3d11_suspend_presentation: the window has no swapchain after it, or
\* the one it had.
LEMMA SuspendSound ==
    ASSUME NEW B, Sound(B), NEW x \in SuspendPresentation(B)
    PROVE  x.hr \in Hresult /\ Passed(B, x.d)
  <1> DEFINE bare(b) == [b EXCEPT !.graph = NoGraph, !.committed = FALSE, !.front = Undrawn,
                                  !.backbuffer = FALSE, !.swapchain = FALSE,
                                  !.size = 0, !.occluded = FALSE]
  <1>1. B \in Bridge /\ B.graph \in Graph BY Fields, Zenon DEF Sound
  <1>2. "ok" \in Hresult BY DEF Hresult
  <1>3. ASSUME NEW g \in Graph
        PROVE  Passed(B, bare([B EXCEPT !.graph = g]))
    <2> DEFINE b == [B EXCEPT !.graph = g]
               e == bare(b)
    <2>1. b \in Bridge BY <1>1, Zenon DEF Bridge
    <2>2. b.last = B.last /\ b.targets = B.targets
          /\ b.retryIn = B.retryIn /\ b.probeAge = B.probeAge /\ b.probes = B.probes
          /\ b.forceWarp = B.forceWarp /\ b.device = B.device
          /\ b.unavailable = B.unavailable /\ b.pending = B.pending
          /\ b.cpu = B.cpu /\ b.gpu = B.gpu
      BY <1>1, Zenon DEF Bridge
    <2> HIDE DEF b
    <2>3. e \in Bridge /\ e.last = b.last /\ e.targets = b.targets
          /\ e.retryIn = b.retryIn /\ e.probeAge = b.probeAge /\ e.probes = b.probes
          /\ e.forceWarp = b.forceWarp /\ e.device = b.device
          /\ e.unavailable = b.unavailable /\ e.pending = b.pending
          /\ e.cpu = b.cpu /\ e.gpu = b.gpu
          /\ e.graph = NoGraph /\ ~e.committed /\ e.front = Undrawn
      BY <2>1, Constants, Zenon DEF Bridge
    <2> HIDE DEF e
    <2>4. ~NoGraph.made /\ ~NoGraph.committed BY Zenon DEF NoGraph
    <2>5. GraphSound(e) BY <2>3, <2>4, Zenon DEF GraphSound
    <2>6. Sound(e) BY <2>2, <2>3, <2>5, Zenon DEF Sound, Retained, ProbesSound
    <2>7. Keeps(B, e) /\ (Agree(B) => Agree(e)) /\ e.cpu = B.cpu
      BY <2>2, <2>3, Zenon DEF Keeps, Holds, Agree, Uploaded
    <2> QED BY <2>6, <2>7, Zenon DEF Passed, e, b
  <1>4. B = [B EXCEPT !.graph = B.graph] BY <1>1, Zenon DEF Bridge
  <1>5. Passed(B, bare(B)) BY <1>1, <1>3, <1>4, Zenon
  <1> HIDE DEF bare
  <1>6. CASE B.graph.made /\ B.graph.valid
    <2>1. PICK c \in CompositionDetach(B) :
              x = IF Failed(c.hr) THEN c ELSE Result(bare(c.d), "ok")
      BY <1>6, Zenon DEF SuspendPresentation, bare
    <2>2. CheckState(B.graph) = "ok" BY <1>6, Zenon DEF CheckState
    <2>3. /\ c.hr \in Hresult /\ \E g \in Graph : c.d = [B EXCEPT !.graph = g]
          /\ Failed(c.hr) => Staged(B, c)
      BY <2>1, <2>2, DetachSound, Zenon
    <2>4. CASE Failed(c.hr)
      BY <2>1, <2>3, <2>4, StagedPassed, Zenon
    <2>5. CASE ~Failed(c.hr)
      <3>1. x.d = bare(c.d) /\ x.hr = "ok" BY <2>1, <2>5, ResultParts
      <3> QED BY <1>2, <1>3, <2>3, <3>1, Zenon
    <2> QED BY <2>4, <2>5
  <1>7. CASE ~(B.graph.made /\ B.graph.valid)
    <2>1. x = Result(bare(B), "ok")
      BY <1>7, Zenon DEF SuspendPresentation, bare
    <2>2. x.d = bare(B) /\ x.hr = "ok" BY <2>1, ResultParts
    <2> QED BY <1>2, <1>5, <2>2, Zenon
  <1> QED BY <1>6, <1>7

\* A new swapchain, with its graph or without one.
LEMMA NewSwapchainSound ==
    ASSUME NEW B, Sound(B), ~B.swapchain, NEW x \in NewSwapchain(B)
    PROVE  Staged(B, x)
  <1>1. B \in Bridge BY Zenon DEF Sound
  <1>2. Answers(B) \subseteq Hresult BY AnswersTyped
  <1>3. CASE \E a \in Answers(B) : x = Result(After(B, a), a)
    BY <1>2, <1>3, AfterStaged, Zenon
  <1>4. CASE \E a \in Answers(B) :
              x = Result(After([B EXCEPT !.swapchain = TRUE,
                                   !.graph = IF a = "ok" THEN NewGraph ELSE NoGraph], a), a)
    <2>1. PICK a \in Answers(B) :
              x = Result(After([B EXCEPT !.swapchain = TRUE,
                                   !.graph = IF a = "ok" THEN NewGraph ELSE NoGraph], a), a)
      BY <1>4
    <2> DEFINE g == IF a = "ok" THEN NewGraph ELSE NoGraph
               e == [B EXCEPT !.swapchain = TRUE, !.graph = g]
    <2>2. g \in Graph /\ (g.made => g.tree /\ ~g.detached) /\ ~g.committed
      <3>1. NewGraph.tree /\ ~NewGraph.detached /\ ~NewGraph.committed
            /\ ~NoGraph.made /\ ~NoGraph.committed
        BY Zenon DEF NewGraph, NoGraph
      <3> QED BY <3>1, Constants, Zenon
    <2> HIDE DEF g
    <2>3. e \in Bridge /\ Shows(B, e) /\ e.graph = g /\ e.swapchain
          /\ e.committed = B.committed
      BY <1>1, <2>2, Zenon DEF Bridge, Shows
    <2>4. x = Result(After(e, a), a) BY <2>1 DEF g
    <2> HIDE DEF e
    <2>5. ~B.committed BY Zenon DEF Sound, GraphSound
    <2>6. Sound(e)
      <3>1. GraphSound(e) BY <2>2, <2>3, <2>5, Zenon DEF GraphSound
      <3> QED BY <2>3, <3>1, ShownSound, Zenon
    <2>7. Staged(e, x) BY <1>2, <2>1, <2>4, <2>6, AfterStaged, Zenon
    <2> QED BY <2>3, <2>7, StagedChain, Zenon
  <1> QED BY <1>3, <1>4, Zenon DEF NewSwapchain

\* resize_swapchain.
LEMMA ResizeSwapchainSound ==
    ASSUME NEW B, Sound(B), NEW n \in 0..MaxSize, NEW x \in ResizeSwapchain(B, n)
    PROVE  Staged(B, x)
  <1> DEFINE e == [B EXCEPT !.backbuffer = FALSE]
             chain == IF e.swapchain THEN {Result(After(e, a), a) : a \in Answers(e)}
                      ELSE NewSwapchain(e)
  <1>1. B \in Bridge /\ "ok" \in Hresult BY DEF Sound, Hresult
  <1>2. e \in Bridge /\ Shows(B, e) /\ e.graph = B.graph /\ e.committed = B.committed
        /\ e.swapchain = B.swapchain
    BY <1>1, Zenon DEF Bridge, Shows
  <1>3. x = Result(B, "ok") \/ \E c \in chain : x \in IF Failed(c.hr) THEN {c}
                                                      ELSE GetBuffer(c.d, n)
    BY Zenon DEF ResizeSwapchain
  <1> HIDE DEF e
  <1>4. Sound(e)
    <2>1. GraphSound(e) BY <1>2, Zenon DEF Sound, GraphSound
    <2> QED BY <1>2, <2>1, ShownSound, Zenon
  <1>5. \A c \in chain : Staged(e, c)
    <2> SUFFICES ASSUME NEW c \in chain PROVE Staged(e, c)
      OBVIOUS
    <2>1. CASE e.swapchain
      <3>1. PICK a \in Answers(e) : c = Result(After(e, a), a) BY <2>1
      <3> QED BY <1>4, <3>1, AfterStaged, AnswersTyped, Zenon
    <2>2. CASE ~e.swapchain
      BY <1>4, <2>2, NewSwapchainSound, Zenon
    <2> QED BY <2>1, <2>2
  <1> HIDE DEF chain
  <1>6. CASE x = Result(B, "ok")
    <2>1. Shows(B, B) BY Zenon DEF Shows
    <2> QED BY <1>1, <1>6, <2>1, ResultParts, Zenon DEF Staged
  <1>7. CASE \E c \in chain : x \in IF Failed(c.hr) THEN {c} ELSE GetBuffer(c.d, n)
    <2>1. PICK c \in chain : x \in IF Failed(c.hr) THEN {c} ELSE GetBuffer(c.d, n)
      BY <1>7
    <2>2. Staged(e, c) BY <1>5
    <2>3. CASE Failed(c.hr)
      BY <1>2, <2>1, <2>2, <2>3, StagedChain, Zenon
    <2>4. CASE ~Failed(c.hr)
      <3> DEFINE b == c.d
                 f == [b EXCEPT !.backbuffer = TRUE, !.size = n]
      <3>1. PICK a \in Answers(b) : x = IF a = "ok" THEN Result(f, "ok")
                                        ELSE Result(After(b, a), a)
        BY <2>1, <2>4, Zenon DEF GetBuffer
      <3>2. Sound(b) /\ Shows(e, b) /\ b \in Bridge BY <2>2, Zenon DEF Staged, Sound
      <3> HIDE DEF b
      <3>3. f \in Bridge /\ Shows(b, f) /\ f.graph = b.graph /\ f.committed = b.committed
            /\ f.swapchain = b.swapchain
        BY <3>2, Zenon DEF Bridge, Shows
      <3> HIDE DEF f
      <3>4. Sound(f)
        <4>1. GraphSound(f) BY <3>2, <3>3, Zenon DEF Sound, GraphSound
        <4> QED BY <3>2, <3>3, <4>1, ShownSound, Zenon
      <3>5. Staged(b, x)
        <4>1. CASE a = "ok"
          BY <1>1, <3>1, <3>3, <3>4, <4>1, ResultParts, Zenon DEF Staged
        <4>2. CASE a # "ok"
          BY <3>1, <3>2, <4>2, AfterStaged, AnswersTyped, Zenon
        <4> QED BY <4>1, <4>2
      <3> QED BY <1>2, <3>2, <3>5, StagedChain, Zenon
    <2> QED BY <2>3, <2>4
  <1> QED BY <1>3, <1>6, <1>7

\* Present, and the first commit of the graph.
LEMMA ShowBufferSound ==
    ASSUME NEW B, Sound(B), NEW t \in Target, ~B.unavailable, NEW x \in ShowBuffer(B, t)
    PROVE  Call(B, x) /\ x.d.cpu = B.cpu /\ Drawn(B, t, x)
  <1> DEFINE shown == [B EXCEPT !.front = B.targets[t].pixels]
             hidden == [B EXCEPT !.occluded = TRUE, !.testIn = TestGap]
  <1>1. B \in Bridge BY Zenon DEF Sound
  <1>2. {"ok", "occluded"} \subseteq Hresult BY DEF Hresult
  <1>11. \A a \in Answers(B) \ {"ok"} : a \in Hresult /\ Failed(a)
    BY BridgeAssumption DEF Answers, Hresult, Failed
  <1>3. B.targets[t].pixels \in Frame
    <2>1. \A u \in TargetState : u.pixels \in Frame BY Zenon DEF TargetState
    <2> QED BY <1>1, <2>1, Fields
  <1>4. Passed(B, shown) /\ shown.unavailable = B.unavailable /\ Shows(shown, shown)
        /\ shown.cpu = B.cpu /\ shown.front = B.targets[t].pixels
        /\ shown.committed = B.committed
    <2>1. /\ shown \in Bridge /\ shown.last = B.last /\ shown.targets = B.targets
          /\ shown.graph = B.graph /\ shown.committed = B.committed
          /\ shown.swapchain = B.swapchain /\ shown.retryIn = B.retryIn
          /\ shown.probeAge = B.probeAge /\ shown.probes = B.probes
          /\ shown.forceWarp = B.forceWarp /\ shown.device = B.device
          /\ shown.unavailable = B.unavailable /\ shown.pending = B.pending
          /\ shown.cpu = B.cpu /\ shown.gpu = B.gpu
          /\ shown.front = B.targets[t].pixels
      BY <1>1, <1>3, Zenon DEF Bridge
    <2> HIDE DEF shown
    <2>2. Sound(shown) BY <2>1, SoundFrame, Zenon
    <2> QED BY <2>1, <2>2, Zenon DEF Passed, Keeps, Holds, Agree, Uploaded, Shows
  <1>5. Staged(B, Result(hidden, "occluded")) /\ hidden.occluded
    <2>1. hidden \in Bridge /\ Shows(B, hidden) /\ hidden.graph = B.graph
          /\ hidden.committed = B.committed /\ hidden.swapchain = B.swapchain
          /\ hidden.occluded
      BY <1>1, Constants, Zenon DEF Bridge, Shows
    <2> HIDE DEF hidden
    <2>2. GraphSound(hidden) BY <2>1, Zenon DEF Sound, GraphSound
    <2>3. Sound(hidden) BY <2>1, <2>2, ShownSound, Zenon
    <2> QED BY <1>2, <2>1, <2>3, ResultParts, Zenon DEF Staged
  <1>6. \/ \E a \in Answers(B) \ {"ok"} : x = Answered(B, a)
        \/ x = Result(hidden, "occluded")
        \/ B.committed /\ x = Result(shown, "ok")
        \/ \E c \in CompositionCommit(shown) :
              x = IF Failed(c.hr) THEN Recorded(c.d, c.hr)
                  ELSE Result([c.d EXCEPT !.committed = TRUE], "ok")
    BY Zenon DEF ShowBuffer
  <1> HIDE DEF shown, hidden
  <1>7. CASE \E a \in Answers(B) \ {"ok"} : x = Answered(B, a)
    <2>1. PICK a \in Answers(B) \ {"ok"} : x = Answered(B, a) BY <1>7
    <2>2. Call(B, x) /\ x.hr = a BY <1>11, <2>1, AnsweredSound, Zenon
    <2>3. Noted(B, x.d) BY <1>1, <2>1, AnsweredNoted, Zenon
    <2> QED BY <1>11, <2>2, <2>3, Zenon DEF Noted, Drawn
  <1>8. CASE x = Result(hidden, "occluded")
    <2>1. x.d = hidden BY <1>8, ResultParts
    <2> QED BY <1>5, <1>8, <2>1, StagedCall, Zenon DEF Drawn
  <1>9. CASE B.committed /\ x = Result(shown, "ok")
    <2>1. x.d = shown /\ x.hr = "ok" BY <1>9, ResultParts
    <2> QED BY <1>2, <1>4, <1>9, <2>1, Zenon DEF Call, Passed, Drawn
  <1>10. CASE \E c \in CompositionCommit(shown) :
              x = IF Failed(c.hr) THEN Recorded(c.d, c.hr)
                  ELSE Result([c.d EXCEPT !.committed = TRUE], "ok")
    <2>1. PICK c \in CompositionCommit(shown) :
              x = IF Failed(c.hr) THEN Recorded(c.d, c.hr)
                  ELSE Result([c.d EXCEPT !.committed = TRUE], "ok")
      BY <1>10
    <2>2. Sound(shown) BY <1>4, Zenon DEF Passed
    <2>3. /\ Staged(shown, c)
          /\ ~Failed(c.hr) => c.d.graph.made /\ c.d.graph.committed
      BY <2>2, CommitSound, Zenon
    <2>4. Sound(c.d) /\ c.hr \in Hresult BY <2>3, Zenon DEF Staged
    <2>5. Keeps(B, c.d) /\ (Agree(B) => Agree(c.d)) /\ c.d.cpu = B.cpu
          /\ c.d.front = B.targets[t].pixels
      <3>1. Passed(shown, c.d) BY <2>3, StagedPassed, Zenon
      <3>2. c.d.cpu = B.cpu /\ c.d.front = B.targets[t].pixels
        BY <1>4, <2>3, Zenon DEF Staged, Shows
      <3> QED BY <1>4, <3>1, <3>2, KeepsChain, Zenon DEF Passed
    <2>6. CASE Failed(c.hr)
      <3>1. Call(c.d, x) /\ x.hr = c.hr BY <2>1, <2>4, <2>6, RecordedSound, Zenon
      <3>2. x.d = RecordResult(c.d, c.hr) BY <2>1, <2>6, ResultParts DEF Recorded
      <3>3. Noted(c.d, x.d) BY <2>4, <3>2, RecordNoted, Zenon DEF Sound
      <3>4. x.d.cpu = B.cpu BY <2>5, <3>3, Zenon DEF Noted
      <3> QED BY <2>5, <2>6, <3>1, <3>4, CallChain, Zenon DEF Drawn
    <2>7. CASE ~Failed(c.hr)
      <3> DEFINE b == c.d
                 f == [b EXCEPT !.committed = TRUE]
      <3>1. x.d = f /\ x.hr = "ok" BY <2>1, <2>7, ResultParts
      <3>2. Sound(b) /\ b \in Bridge /\ b.graph.made /\ b.graph.committed
        BY <2>3, <2>4, <2>7, Zenon DEF Sound
      <3> HIDE DEF b
      <3>3. f \in Bridge /\ Shows(b, f) /\ f.graph = b.graph /\ f.committed
            /\ f.swapchain = b.swapchain
        BY <3>2, Zenon DEF Bridge, Shows
      <3> HIDE DEF f
      <3>4. Sound(f)
        <4>1. GraphSound(f) BY <3>2, <3>3, Zenon DEF Sound, GraphSound
        <4> QED BY <3>2, <3>3, <4>1, ShownSound, Zenon
      <3>5. Staged(b, x) BY <1>2, <3>1, <3>3, <3>4, Zenon DEF Staged
      <3>6. Call(b, x) BY <3>5, StagedCall, Zenon
      <3>7. x.d.cpu = B.cpu /\ x.d.committed /\ x.d.front = B.targets[t].pixels
        BY <2>5, <3>1, <3>3, Zenon DEF Shows, b
      <3> QED BY <2>5, <3>6, <3>7, CallChain, Zenon DEF b, Drawn
    <2> QED BY <2>6, <2>7
  <1> QED BY <1>6, <1>7, <1>8, <1>9, <1>10

LEMMA PresentBufferSound ==
    ASSUME NEW B, Sound(B), NEW t \in Target, ~B.unavailable, NEW x \in PresentBuffer(B, t)
    PROVE  Call(B, x) /\ x.d.cpu = B.cpu /\ Drawn(B, t, x)
  <1> DEFINE tested == [B EXCEPT !.testIn = TestGap]
             back == [tested EXCEPT !.occluded = FALSE]
  <1>1. B \in Bridge BY Zenon DEF Sound
  <1>2. "occluded" \in Hresult BY DEF Hresult
  <1>14. \A a \in Answers(B) \ {"ok"} : a \in Hresult /\ Failed(a)
    BY BridgeAssumption DEF Answers, Hresult, Failed
  <1>3. tested \in Bridge /\ Shows(B, tested) /\ tested.graph = B.graph
        /\ tested.committed = B.committed /\ tested.swapchain = B.swapchain
        /\ tested.occluded = B.occluded
    BY <1>1, Constants, Zenon DEF Bridge, Shows
  <1> HIDE DEF tested
  <1>4. back \in Bridge /\ Shows(tested, back) /\ back.graph = tested.graph
        /\ back.committed = tested.committed /\ back.swapchain = tested.swapchain
    BY <1>3, Zenon DEF Bridge, Shows
  <1>5. \/ x \in ShowBuffer(B, t)
        \/ B.occluded /\ (x = Result(B, "occluded") \/ x = Result(tested, "occluded"))
        \/ \E a \in Answers(B) \ {"ok"} : x = Answered(tested, a)
        \/ x \in ShowBuffer(back, t)
    BY Zenon DEF PresentBuffer, tested
  <1> HIDE DEF back
  <1>6. Sound(tested)
    <2>1. GraphSound(tested) BY <1>3, Zenon DEF Sound, GraphSound
    <2> QED BY <1>3, <2>1, ShownSound, Zenon
  <1>7. Sound(back)
    <2>1. GraphSound(back) BY <1>4, <1>6, Zenon DEF Sound, GraphSound
    <2> QED BY <1>4, <1>6, <2>1, ShownSound, Zenon
  <1>8. Passed(B, tested) /\ Passed(B, back) /\ back.unavailable = B.unavailable
        /\ back.targets = B.targets
    <2>1. Shows(B, back) BY <1>3, <1>4, Zenon DEF Shows
    <2>2. back.unavailable = B.unavailable /\ back.targets = B.targets
      BY <2>1, Zenon DEF Shows
    <2> QED BY <1>3, <1>6, <1>7, <2>1, <2>2, ShowsPassed, Zenon
  <1>9. CASE x \in ShowBuffer(B, t)
    BY <1>9, ShowBufferSound, Zenon
  <1>10. CASE B.occluded /\ x = Result(B, "occluded")
    <2>1. x.d = B BY <1>10, ResultParts
    <2> QED BY <1>2, <1>10, <2>1, CallSame, Zenon DEF Drawn
  <1>11. CASE B.occluded /\ x = Result(tested, "occluded")
    <2>1. x.d = tested /\ x.hr = "occluded" BY <1>11, ResultParts
    <2> QED BY <1>2, <1>3, <1>8, <1>11, <2>1, Zenon DEF Call, Passed, Drawn
  <1>12. CASE \E a \in Answers(B) \ {"ok"} : x = Answered(tested, a)
    <2>0. PICK a \in Answers(B) \ {"ok"} : x = Answered(tested, a) BY <1>12
    <2>1. Call(tested, x) /\ x.hr = a BY <1>6, <1>14, <2>0, AnsweredSound, Zenon
    <2>2. Noted(tested, x.d) BY <1>3, <2>0, AnsweredNoted, Zenon
    <2>3. x.d.cpu = B.cpu BY <1>8, <2>2, Zenon DEF Noted, Passed
    <2>4. Drawn(B, t, x) BY <1>14, <2>0, <2>1, Zenon DEF Drawn
    <2> QED BY <1>8, <2>1, <2>3, <2>4, CallChain, Zenon DEF Passed
  <1>13. CASE x \in ShowBuffer(back, t)
    <2>1. Call(back, x) /\ x.d.cpu = back.cpu /\ Drawn(back, t, x)
      BY <1>7, <1>8, <1>13, ShowBufferSound, Zenon
    <2>2. x.d.cpu = B.cpu /\ Drawn(B, t, x) BY <1>8, <2>1, Zenon DEF Passed, Drawn
    <2> QED BY <1>8, <2>1, <2>2, CallChain, Zenon DEF Passed
  <1> QED BY <1>5, <1>9, <1>10, <1>11, <1>12, <1>13

\* noctty_d3d11_present: a target just drawn, which then is the retained one,
\* or the retained one again.
LEMMA PresentTargetSound ==
    ASSUME NEW B, Sound(B), NEW t \in Target, NEW encoded \in BOOLEAN,
           NEW tiny \in BOOLEAN,
           encoded => B.targets[t].made /\ B.targets[t].pixels.whole,
           NEW x \in PresentTarget(B, t, encoded, tiny)
    PROVE  /\ Call(B, x) /\ Unwritten(B, x.d)
           /\ encoded /\ ~tiny => Drawn(B, t, x)
  <1> SUFFICES /\ Call(B, x) /\ x.d.cpu = B.cpu
               /\ encoded /\ ~tiny => Drawn(B, t, x)
    BY Zenon DEF Unwritten
  <1> DEFINE s == DeviceStatus(B)
             e == IF encoded THEN [s.d EXCEPT !.targets[t].rendered = TRUE, !.last = t]
                  ELSE s.d
  <1>1. B \in Bridge /\ B.targets \in [Target -> TargetState]
    BY Fields, Zenon DEF Sound
  <1>2. "contract" \in Hresult /\ "false" \in Hresult /\ Failed("contract")
    BY DEF Hresult, Failed
  <1>3. Call(B, s) /\ (~Failed(s.hr) => s.d = B /\ ~B.unavailable)
    BY StatusSound, Zenon
  <1>7. Noted(B, s.d) BY <1>1, StatusNoted, Zenon
  <1>4. CASE Failed(s.hr)
    <2>1. x = s BY <1>4, Zenon DEF PresentTarget
    <2> HIDE DEF s
    <2>2. x.d.cpu = B.cpu BY <1>7, <2>1, Zenon DEF Noted
    <2> QED BY <1>3, <1>4, <2>1, <2>2, Zenon DEF Drawn
  <1>5. CASE ~Failed(s.hr) /\ ~B.targets[t].gpu
    <2>1. x = Recorded(B, "contract") BY <1>3, <1>5, Zenon DEF PresentTarget
    <2>2. x.d = RecordResult(B, "contract") /\ x.hr = "contract"
      BY <2>1, ResultParts DEF Recorded
    <2>3. Noted(B, x.d) BY <1>1, <2>2, RecordNoted, Zenon
    <2>4. x.d.cpu = B.cpu BY <2>3, Zenon DEF Noted
    <2> QED BY <1>2, <2>1, <2>2, <2>4, RecordedSound, Zenon DEF Drawn
  <1>6. CASE ~Failed(s.hr) /\ B.targets[t].gpu
    <2>1. \/ (~e.targets[t].rendered \/ tiny) /\ x = Result(e, "false")
          \/ \E c \in ResizeSwapchain(e, e.targets[t].size) :
                \/ Failed(c.hr) /\ x = Recorded(c.d, c.hr)
                \/ x \in PresentBuffer(c.d, t)
      <3>1. x \in IF ~e.targets[t].rendered \/ tiny THEN {Result(e, "false")}
                  ELSE UNION {IF Failed(c.hr) THEN {Recorded(c.d, c.hr)}
                              ELSE PresentBuffer(c.d, t) :
                                c \in ResizeSwapchain(e, e.targets[t].size)}
        BY <1>3, <1>6, Zenon DEF PresentTarget
      <3> HIDE DEF e
      <3> QED BY <3>1, Zenon
    <2>2. /\ Passed(B, e) /\ ~e.unavailable
          /\ e.targets[t].pixels = B.targets[t].pixels
          /\ encoded => e.targets[t].rendered
      <3>1. CASE ~encoded
        <4>1. e = B BY <1>3, <1>6, <3>1
        <4>2. Passed(B, B) BY Zenon DEF Passed, Keeps, Holds
        <4>3. ~B.unavailable BY <1>3, <1>6
        <4> HIDE DEF e
        <4> QED BY <3>1, <4>1, <4>2, <4>3
      <3>2. CASE encoded
        <4> DEFINE u == [B.targets[t] EXCEPT !.rendered = TRUE]
                   ts == [B.targets EXCEPT ![t] = u]
        <4>1. u \in TargetState /\ u.made = B.targets[t].made /\ u.gpu = B.targets[t].gpu
              /\ u.rendered /\ u.pixels = B.targets[t].pixels
          <5>1. B.targets[t] \in TargetState BY <1>1
          <5> QED BY <5>1, Zenon DEF TargetState
        <4> HIDE DEF u
        <4>2. ts \in [Target -> TargetState] /\ ts[t] = u
              /\ \A v \in Target : ts[v].made = B.targets[v].made
          <5>1. ts \in [Target -> TargetState] BY <1>1, <4>1, OneSet
          <5>2. ts[t] = u /\ \A v \in Target \ {t} : ts[v] = B.targets[v]
            BY <1>1
          <5> QED BY <4>1, <5>1, <5>2
        <4>3. e = [B EXCEPT !.targets = ts, !.last = t]
          BY <1>1, <1>3, <1>6, <3>2, Zenon DEF Bridge, u
        <4> HIDE DEF ts, e
        <4>4. /\ e \in Bridge /\ e.targets = ts /\ e.last = t
              /\ e.graph = B.graph /\ e.committed = B.committed
              /\ e.swapchain = B.swapchain /\ e.retryIn = B.retryIn
              /\ e.probeAge = B.probeAge /\ e.probes = B.probes
              /\ e.forceWarp = B.forceWarp /\ e.device = B.device /\ e.front = B.front
              /\ e.unavailable = B.unavailable /\ e.pending = B.pending
              /\ e.cpu = B.cpu /\ e.gpu = B.gpu
          BY <1>1, <4>2, <4>3, Zenon DEF Bridge
        <4>5. Retained(e) BY <1>6, <3>2, <4>1, <4>2, <4>4, Zenon DEF Retained
        <4>6. Sound(e) BY <4>4, <4>5, Zenon DEF Sound, GraphSound, ProbesSound
        <4>7. Keeps(B, e) /\ (Agree(B) => Agree(e)) /\ e.cpu = B.cpu
          BY <4>2, <4>4, Zenon DEF Keeps, Holds, Agree, Uploaded
        <4>8. e.targets[t] = u BY <4>2, <4>4
        <4> QED BY <1>3, <1>6, <4>1, <4>4, <4>6, <4>7, <4>8, Zenon DEF Passed
      <3> QED BY <3>1, <3>2
    <2>3. Sound(e) /\ Keeps(B, e) /\ (Agree(B) => Agree(e)) /\ e.cpu = B.cpu
      BY <2>2, Zenon DEF Passed
    <2> HIDE DEF e
    <2>4. CASE (~e.targets[t].rendered \/ tiny) /\ x = Result(e, "false")
      <3>1. x.d = e /\ x.hr = "false" BY <2>4, ResultParts
      <3> QED BY <1>2, <2>2, <2>3, <2>4, <3>1, Zenon DEF Call
    <2>5. CASE \E c \in ResizeSwapchain(e, e.targets[t].size) :
                  \/ Failed(c.hr) /\ x = Recorded(c.d, c.hr)
                  \/ x \in PresentBuffer(c.d, t)
      <3>1. PICK c \in ResizeSwapchain(e, e.targets[t].size) :
                  \/ Failed(c.hr) /\ x = Recorded(c.d, c.hr)
                  \/ x \in PresentBuffer(c.d, t)
        BY <2>5
      <3>2. e.targets[t].size \in 0..MaxSize
        <4>1. e.targets[t] \in TargetState BY <2>3, Fields, Zenon DEF Sound
        <4> QED BY <4>1, Zenon DEF TargetState
      <3>3. Staged(e, c) BY <2>3, <3>2, ResizeSwapchainSound, Zenon
      <3>4. Sound(c.d) /\ c.hr \in Hresult /\ ~c.d.unavailable
        BY <2>2, <3>3, Zenon DEF Staged, Shows
      <3>5. Keeps(B, c.d) /\ (Agree(B) => Agree(c.d)) /\ c.d.cpu = B.cpu
        <4>1. Passed(e, c.d) BY <3>3, StagedPassed, Zenon
        <4> QED BY <2>3, <4>1, KeepsChain, Zenon DEF Passed
      <3>6. c.d.targets[t].pixels = B.targets[t].pixels
        <4>1. c.d.targets = e.targets BY <3>3, Zenon DEF Staged, Shows
        <4> QED BY <2>2, <4>1
      <3>7. Call(c.d, x) /\ x.d.cpu = c.d.cpu /\ Drawn(c.d, t, x)
        <4>1. CASE Failed(c.hr) /\ x = Recorded(c.d, c.hr)
          <5>1. x.d = RecordResult(c.d, c.hr) /\ x.hr = c.hr
            BY <4>1, ResultParts DEF Recorded
          <5>2. Noted(c.d, x.d) BY <3>4, <5>1, RecordNoted, Zenon DEF Sound
          <5>3. x.d.cpu = c.d.cpu BY <5>2, Zenon DEF Noted
          <5> QED BY <3>4, <4>1, <5>1, <5>3, RecordedSound, Zenon DEF Drawn
        <4>2. CASE x \in PresentBuffer(c.d, t)
          BY <3>4, <4>2, PresentBufferSound, Zenon
        <4> QED BY <3>1, <4>1, <4>2
      <3>8. x.d.cpu = B.cpu /\ Drawn(B, t, x)
        BY <3>5, <3>6, <3>7, Zenon DEF Drawn
      <3> QED BY <3>5, <3>7, <3>8, CallChain, Zenon
    <2> QED BY <2>1, <2>4, <2>5
  <1> QED BY <1>4, <1>5, <1>6

\* noctty_d3d11_present_last.
LEMMA PresentLastSound ==
    ASSUME NEW B, Sound(B), NEW tiny \in BOOLEAN, NEW x \in PresentLast(B, tiny)
    PROVE  Call(B, x) /\ x.d.cpu = B.cpu
  <1>1. "false" \in Hresult BY DEF Hresult
  <1>2. CASE B.last = NoTarget
    <2>1. x = Result(B, "false") BY <1>2, Zenon DEF PresentLast
    <2>2. x.d = B BY <2>1, ResultParts
    <2> QED BY <1>1, <2>1, <2>2, CallSame, Zenon
  <1>3. CASE B.last # NoTarget
    <2>1. B.last \in Target BY <1>3, Fields, Zenon DEF Sound
    <2>2. x \in PresentTarget(B, B.last, FALSE, tiny) BY <1>3, Zenon DEF PresentLast
    <2>3. Call(B, x) /\ Unwritten(B, x.d) BY <2>1, <2>2, PresentTargetSound, Zenon
    <2> QED BY <2>3, Zenon DEF Unwritten
  <1> QED BY <1>2, <1>3

----------------------------------------------------------------------------
Inv ==
    /\ Sound(d)
    /\ backend = "d3d11" => Agree(d)
    /\ d.targets[cur].made
    /\ pc = "draw" => d.last # cur
    /\ pc = "present" => d.targets[cur].pixels.whole

\* What the two action properties say of a step.
Steady(a, b) ==
    /\ a.forceWarp /\ b.device = "hardware" => a.device = "hardware"
    /\ a.unavailable => b.unavailable /\ b.front \in {a.front, Undrawn}

LEMMA HoldsSteady == \A a, b : Holds(a, b) => Steady(a, b)
  BY Zenon DEF Holds, Steady

LEMMA FailedTyped == \A hr : Failed(hr) \in BOOLEAN
  BY DEF Failed

\* A step that draws nothing: the target of the frame stays.
LEMMA Stays ==
    ASSUME TypeOK, Inv, Sound(d'), Keeps(d, d'),
           backend' = "d3d11" => backend = "d3d11" /\ (Agree(d) => Agree(d')),
           cur' = cur, pc' \notin {"draw", "present"}
    PROVE  Inv' /\ Steady(d, d')
  <1>1. cur \in Target BY DEF TypeOK
  <1>2. d'.targets[cur].made BY <1>1, Zenon DEF Inv, Keeps
  <1>3. pc' # "draw" /\ pc' # "present" OBVIOUS
  <1>4. Steady(d, d') BY HoldsSteady, Zenon DEF Keeps
  <1> QED BY <1>2, <1>3, <1>4, Zenon DEF Inv

\* The bridge stays as it is.
LEMMA BridgeStays ==
    ASSUME TypeOK, Inv, d' = d, backend' = backend, cur' = cur,
           pc' \notin {"draw", "present"}
    PROVE  Inv' /\ Steady(d, d')
  <1>1. Sound(d) BY Zenon DEF Inv
  <1>2. Keeps(d, d) BY Zenon DEF Keeps, Holds
  <1> QED BY <1>1, <1>2, Stays

\* A call to the bridge, and nothing drawn.
LEMMA Called ==
    ASSUME TypeOK, Inv, NEW x, Call(d, x), d' = x.d, backend' = backend,
           cur' = cur, pc' \notin {"draw", "present"}
    PROVE  Inv' /\ Steady(d, d')
  <1>1. Sound(d') /\ Keeps(d, d') /\ (Agree(d) => Agree(d'))
    BY Zenon DEF Call
  <1> QED BY <1>1, Stays

----------------------------------------------------------------------------
\* A pane as it starts.
LEMMA InitInv == Init => TypeOK /\ Inv
  <1> SUFFICES ASSUME Init PROVE TypeOK /\ Inv
    OBVIOUS
  <1>1. PICK soft \in BOOLEAN, first \in Target :
        /\ cur = first
        /\ d = Created(soft,
                [r \in Resource |-> [size |-> IF r \in Buffer THEN 1 ELSE MaxSize,
                                     data |-> Blank]],
                [t \in Target |-> IF t = first
                    THEN [Freed EXCEPT !.made = TRUE, !.gpu = TRUE, !.size = 1] ELSE Freed])
    BY DEF Init
  <1> DEFINE ms == [r \in Resource |-> [size |-> IF r \in Buffer THEN 1 ELSE MaxSize,
                                        data |-> Blank]]
             u == [Freed EXCEPT !.made = TRUE, !.gpu = TRUE, !.size = 1]
             ts == [t \in Target |-> IF t = first THEN u ELSE Freed]
             gs == [r \in Resource |-> CopyOf(ms[r])]
             device == IF soft THEN "warp" ELSE "hardware"
  <1>2. ms \in [Resource -> Mirror]
    <2>1. 1 \in 0..MaxSize /\ MaxSize \in 0..MaxSize /\ Blank \in Value
      BY BridgeAssumption
    <2>2. \A n \in 0..MaxSize : [size |-> n, data |-> Blank] \in Mirror
      BY <2>1, Zenon DEF Mirror
    <2> QED BY <2>1, <2>2
  <1>3. u \in TargetState /\ u.made
    <2>1. 1 \in 0..MaxSize BY BridgeAssumption
    <2> QED BY <2>1, Constants, Zenon DEF TargetState
  <1> HIDE DEF ms, u
  <1>4. ts \in [Target -> TargetState] /\ ts[first].made
    BY <1>3, Constants, Zenon
  <1>5. gs \in [Resource -> Copy]
    BY <1>2, CopyOfMirror
  <1>6. device \in {"none", "hardware", "warp"} /\ 0 \in 0..2
    OBVIOUS
  <1>7. d = Created(soft, ms, ts) BY <1>1 DEF ms, u
  <1> HIDE DEF ts, device
  <1>8. /\ d \in Bridge /\ d.last = NoTarget /\ d.targets = ts /\ d.graph = NoGraph
        /\ ~d.committed /\ d.cpu = ms /\ d.gpu = gs /\ d.retryIn = 0
        /\ d.probeAge = Window /\ d.probes = 0
    <2>1. d = [device |-> device, gone |-> FALSE, warp |-> soft,
               forceWarp |-> soft, pending |-> FALSE, unavailable |-> FALSE, retryIn |-> 0,
               swapchain |-> FALSE, backbuffer |-> FALSE, size |-> 0, graph |-> NoGraph,
               committed |-> FALSE, front |-> Undrawn, occluded |-> FALSE, testIn |-> 0,
               cpu |-> ms, gpu |-> gs, targets |-> ts, last |-> NoTarget, calm |-> FALSE,
               probeAge |-> Window, probes |-> 0]
      BY <1>7, Zenon DEF Created, device
    <2> HIDE DEF gs
    <2>2. NoTarget \in Target \cup {NoTarget} OBVIOUS
    <2>3. soft \in BOOLEAN BY <1>1
    <2> QED BY <1>2, <1>4, <1>5, <1>6, <2>1, <2>2, <2>3, Constants, Zenon DEF Bridge
  <1>9. Sound(d)
    <2>1. Retained(d) BY <1>8, Zenon DEF Retained
    <2>2. GraphSound(d)
      <3>1. ~NoGraph.made /\ ~NoGraph.committed BY Zenon DEF NoGraph
      <3> QED BY <1>8, <3>1, Zenon DEF GraphSound
    <2>3. ProbesSound(d) BY <1>8, BridgeAssumption DEF ProbesSound
    <2> QED BY <1>8, <2>1, <2>2, <2>3, Zenon DEF Sound
  <1>10. Agree(d) BY <1>8, Zenon DEF Agree, Uploaded
  <1>11. pc = "policy" BY DEF Init
  <1>12. Inv
    <2>1. pc # "draw" /\ pc # "present" BY <1>11
    <2> QED BY <1>1, <1>4, <1>8, <1>9, <1>10, <2>1, Zenon DEF Inv
  <1>13. TypeOK
    <2>1. screen \in [Resource -> Value]
      BY BridgeAssumption DEF Init
    <2>2. d \in Bridge /\ cur \in Target BY <1>1, <1>8, Zenon
    <2>3. 1 \in 1..MaxSize BY BridgeAssumption
    <2>4. 0 \in 0..MaxFailures /\ 0 \in 0..FallbackGap BY RendererAssumption
    <2>5. /\ dirty = Resource /\ todo = {}
          /\ rebuilt = TRUE /\ view = 1 /\ seen = 1 /\ minimised = FALSE
          /\ pc = "policy" /\ sync = FALSE /\ attempt = 1 /\ err = FALSE
          /\ healthy = TRUE /\ failures = 0 /\ paint = TRUE /\ retry = FALSE
          /\ backend = "d3d11" /\ wants = FALSE /\ blocked = FALSE /\ fallbackIn = 0
      BY Zenon DEF Init
    <2>6. 1 \in 1..2 /\ pc \in {"policy", "idle", "fallback", "recover", "decide", "target",
               "upload", "clear", "draw", "present", "judge"}
          /\ backend \in {"d3d11", "opengl"}
      BY <2>5
    <2>7. dirty \subseteq Resource /\ todo \subseteq Resource BY <2>5
    <2> QED BY <2>1, <2>2, <2>3, <2>4, <2>5, <2>6, <2>7, Zenon DEF TypeOK
  <1> QED BY <1>12, <1>13

\* A step of the policy.
LEMMA PolicyInv ==
    ASSUME TypeOK, Inv, SetPolicy
    PROVE  TypeOK' /\ Inv' /\ Steady(d, d')
  <1>1. PICK force \in BOOLEAN : d' = SetRecoveryPreference(d, force)
    <2>1. d.warp \in BOOLEAN BY Fields DEF TypeOK
    <2> QED BY <2>1 DEF SetPolicy
  <1>2. /\ Sound(d') /\ (Agree(d) => Agree(d')) /\ d'.device = d.device
        /\ d'.unavailable = d.unavailable /\ d'.front = d.front /\ d'.targets = d.targets
    BY <1>1, PreferenceSound, Zenon DEF Inv
  <1>3. pc' = "idle" /\ cur' = cur /\ backend' = backend
    BY DEF SetPolicy, frame, fallback
  <1>4. Inv'
    <2>1. pc' # "draw" /\ pc' # "present" BY <1>3
    <2> QED BY <1>2, <1>3, <2>1, Zenon DEF Inv
  <1>5. Steady(d, d') BY <1>2, Zenon DEF Steady
  <1>6. d' \in Bridge BY <1>2, Zenon DEF Sound
  <1>7. TypeOK' BY <1>6 DEF TypeOK, SetPolicy, content, frame, fallback
  <1> QED BY <1>4, <1>5, <1>7

----------------------------------------------------------------------------
(***************************************************************************)
(* Trying OpenGL.                                                          *)
(***************************************************************************)
\* Failing to, and not trying to, are a call to the bridge at most.
LEMMA GoesOn ==
    ASSUME TypeOK, Inv, FallBackFails \/ NoFallBack
    PROVE  /\ Passed(d, d') /\ backend' = backend /\ rebuilt' \in BOOLEAN
           /\ wants' \in BOOLEAN /\ blocked' \in BOOLEAN /\ fallbackIn' \in 0..FallbackGap
  <1>1. Sound(d) BY Zenon DEF Inv
  <1>2. CASE FallBackFails
    <2>1. PICK x \in SuspendPresentation(d) : d' = x.d
      BY <1>2 DEF FallBackFails
    <2>2. Passed(d, d') BY <1>1, <2>1, SuspendSound, Zenon
    <2>3. backend' = backend /\ rebuilt' = TRUE /\ wants' = FALSE /\ blocked' = TRUE
          /\ fallbackIn' = FallbackGap
      BY <1>2, Zenon DEF FallBackFails
    <2>4. FallbackGap \in 0..FallbackGap BY RendererAssumption
    <2> QED BY <2>2, <2>3, <2>4, Zenon
  <1>3. CASE NoFallBack
    <2>1. Passed(d, d)
      BY <1>1, Zenon DEF Passed, Keeps, Holds
    <2> QED BY <1>3, <2>1 DEF NoFallBack, TypeOK
  <1> QED BY <1>2, <1>3

LEMMA EndTyped ==
    ASSUME EndFrame
    PROVE  /\ pc' = "idle" /\ todo' \subseteq Resource /\ sync' \in BOOLEAN
           /\ attempt' \in 1..2 /\ err' \in BOOLEAN
  <1>1. pc' = "idle" /\ todo' = {} /\ sync' = FALSE /\ attempt' = 1 /\ err' = FALSE
    BY DEF EndFrame
  <1>2. attempt' \in 1..2 BY <1>1
  <1>3. todo' \subseteq Resource BY <1>1
  <1> QED BY <1>1, <1>2, <1>3

\* OpenGL has the window: the bridge holds nothing of it.
LEMMA FallBackInv ==
    ASSUME TypeOK, Inv, FallBack
    PROVE  TypeOK' /\ Inv' /\ Steady(d, d')
  <1>1. Sound(d) BY Zenon DEF Inv
  <1>2. PICK x \in SuspendPresentation(d) : d' = ReleaseDevice(x.d)
    BY DEF FallBack
  <1>3. Passed(d, x.d) BY <1>1, SuspendSound, Zenon
  <1>4. Sound(d') /\ Keeps(x.d, d')
    BY <1>2, <1>3, ReleaseSound, Zenon DEF Passed
  <1>5. Keeps(d, d') BY <1>3, <1>4, KeepsChain, Zenon DEF Passed
  <1>6. backend' = "opengl" /\ cur' = cur /\ pc' = "idle"
    BY DEF FallBack, Kept, EndFrame
  <1>7. Inv' /\ Steady(d, d')
    BY <1>4, <1>5, <1>6, Stays
  <1>8. d' \in Bridge BY <1>4, Zenon DEF Sound
  <1>9. /\ wants' = FALSE /\ retry' = FALSE /\ EndFrame
        /\ UNCHANGED <<screen, view, minimised, dirty, seen, cur, healthy>>
        /\ UNCHANGED <<rebuilt, failures, paint, blocked, fallbackIn>>
    BY Zenon DEF FallBack, Kept
  <1>10. TypeOK'
    BY <1>6, <1>8, <1>9, EndTyped DEF TypeOK
  <1> QED BY <1>7, <1>10

----------------------------------------------------------------------------
(***************************************************************************)
(* The steps of a frame.                                                   *)
(***************************************************************************)
LEMMA PaintInv ==
    ASSUME TypeOK, Inv, Paint
    PROVE  TypeOK' /\ Inv' /\ Steady(d, d')
  <1>1. /\ d' = d /\ backend' = backend /\ cur' = cur
        /\ pc' \in {"fallback", "recover"}
    BY DEF Paint, fallback
  <1>2. Inv' /\ Steady(d, d') BY <1>1, BridgeStays
  <1>3. sync' \in BOOLEAN BY RendererAssumption DEF Paint
  <1>4. /\ UNCHANGED <<content, dirty, todo, seen, cur, healthy, failures, retry, fallback>>
        /\ paint' = FALSE /\ attempt' = 1 /\ err' = FALSE
    BY Zenon DEF Paint
  <1>5. attempt' \in 1..2 BY <1>4
  <1>6. TypeOK' BY <1>1, <1>3, <1>4, <1>5 DEF TypeOK, content, fallback
  <1> QED BY <1>2, <1>6

LEMMA EnterFallbackInv ==
    ASSUME TypeOK, Inv, EnterFallback
    PROVE  TypeOK' /\ Inv' /\ Steady(d, d')
  <1>1. CASE FallBack
    BY <1>1, FallBackInv
  <1>2. CASE /\ FallBackFails \/ NoFallBack
             /\ IF d.unavailable THEN EndFrame /\ retry' = TRUE
                ELSE pc' = "recover" /\ UNCHANGED <<retry, locals>>
             /\ Kept /\ UNCHANGED <<failures, paint>>
    <2>1. /\ Passed(d, d') /\ backend' = backend /\ rebuilt' \in BOOLEAN
          /\ wants' \in BOOLEAN /\ blocked' \in BOOLEAN /\ fallbackIn' \in 0..FallbackGap
      BY <1>2, GoesOn
    <2>2. cur' = cur /\ pc' \in {"idle", "recover"}
      BY <1>2 DEF Kept, EndFrame
    <2>3. Sound(d') /\ Keeps(d, d') /\ (Agree(d) => Agree(d'))
      BY <2>1, Zenon DEF Passed
    <2>4. Inv' /\ Steady(d, d') BY <2>1, <2>2, <2>3, Stays
    <2>5. d' \in Bridge BY <2>3, Zenon DEF Sound
    <2>6. /\ todo' \subseteq Resource /\ sync' \in BOOLEAN /\ attempt' \in 1..2
          /\ err' \in BOOLEAN /\ retry' \in BOOLEAN
      <3>1. CASE d.unavailable BY <1>2, <3>1, EndTyped
      <3>2. CASE ~d.unavailable BY <1>2, <3>2 DEF locals, TypeOK
      <3> QED BY <3>1, <3>2
    <2>7. /\ UNCHANGED <<screen, view, minimised, dirty, seen, cur, healthy>>
          /\ UNCHANGED <<failures, paint>>
      BY <1>2, Zenon DEF Kept
    <2>8. TypeOK' BY <2>1, <2>2, <2>5, <2>6, <2>7 DEF TypeOK
    <2> QED BY <2>4, <2>8
  <1> QED BY <1>1, <1>2 DEF EnterFallback

LEMMA RecoverFirstInv ==
    ASSUME TypeOK, Inv, RecoverFirst
    PROVE  TypeOK' /\ Inv' /\ Steady(d, d')
  <1>1. PICK x \in Recover(d) : d' = x.d BY DEF RecoverFirst
  <1>2. Call(d, x) BY RecoverSound, Zenon DEF Inv
  <1>3. backend' = backend /\ cur' = cur /\ pc' = "decide"
    BY DEF RecoverFirst, frame, fallback
  <1>4. Inv' /\ Steady(d, d') BY <1>1, <1>2, <1>3, Called
  <1>5. d' \in Bridge BY <1>4, Zenon DEF Inv, Sound
  <1>6. TypeOK' BY <1>3, <1>5 DEF TypeOK, RecoverFirst, content, frame, fallback
  <1> QED BY <1>4, <1>6

LEMMA SkipEmptyInv ==
    ASSUME TypeOK, Inv, SkipEmpty
    PROVE  TypeOK' /\ Inv' /\ Steady(d, d')
  <1>1. d' = d /\ backend' = backend /\ cur' = cur /\ pc' = "judge"
    BY DEF SkipEmpty, fallback
  <1>2. Inv' /\ Steady(d, d') BY <1>1, BridgeStays
  <1>3. TypeOK' BY <1>1 DEF TypeOK, SkipEmpty, content, fallback
  <1> QED BY <1>2, <1>3

LEMMA PresentRetainedInv ==
    ASSUME TypeOK, Inv, PresentRetained
    PROVE  TypeOK' /\ Inv' /\ Steady(d, d')
  <1>1. PICK x \in PresentLast(d, minimised) : d' = x.d /\ err' = Failed(x.hr)
    BY DEF PresentRetained
  <1>2. Call(d, x)
    <2>1. minimised \in BOOLEAN BY DEF TypeOK
    <2> QED BY <2>1, PresentLastSound, Zenon DEF Inv
  <1>3. backend' = backend /\ cur' = cur /\ pc' = "judge"
    BY DEF PresentRetained, fallback
  <1>4. Inv' /\ Steady(d, d') BY <1>1, <1>2, <1>3, Called
  <1>5. d' \in Bridge /\ err' \in BOOLEAN
    BY <1>1, <1>4, FailedTyped, Zenon DEF Inv, Sound
  <1>6. TypeOK' BY <1>3, <1>5 DEF TypeOK, PresentRetained, content, fallback
  <1> QED BY <1>4, <1>6

LEMMA PrepareInv ==
    ASSUME TypeOK, Inv, Prepare
    PROVE  TypeOK' /\ Inv' /\ Steady(d, d')
  <1>1. d' = d /\ backend' = backend /\ cur' = cur /\ pc' = "target"
    BY DEF Prepare, fallback
  <1>2. Inv' /\ Steady(d, d') BY <1>1, BridgeStays
  <1>3. TypeOK' BY <1>1 DEF TypeOK, Prepare, fallback
  <1> QED BY <1>2, <1>3

\* A new target for the frame, and the end of the one it had.
LEMMA ReplaceTargetInv ==
    ASSUME TypeOK, Inv, ReplaceTarget
    PROVE  TypeOK' /\ Inv' /\ Steady(d, d')
  <1>1. Sound(d) /\ d.targets[cur].made /\ (backend = "d3d11" => Agree(d))
    BY Zenon DEF Inv
  <1>2. cur \in Target /\ seen \in 0..MaxSize
    BY BridgeAssumption DEF TypeOK
  <1>3. /\ UNCHANGED <<content, dirty, todo, seen, sync, attempt, healthy, failures,
                       paint, retry, fallback>>
    BY Zenon DEF ReplaceTarget
  <1>4. /\ backend' = backend /\ cur' \in Target /\ err' \in BOOLEAN
        /\ pc' \in {"judge", "upload"}
        /\ d' \in Bridge /\ Inv' /\ Steady(d, d')
    <2>1. CASE d.targets[cur].size = seen
      <3>1. d' = d /\ cur' = cur /\ err' = err /\ pc' = "upload"
        BY <2>1, Zenon DEF ReplaceTarget
      <3>2. backend' = backend BY <1>3 DEF fallback
      <3>3. Inv' /\ Steady(d, d') BY <3>1, <3>2, BridgeStays
      <3> QED BY <1>2, <3>1, <3>2, <3>3 DEF TypeOK
    <2>2. CASE d.targets[cur].size # seen
      <3>1. PICK t \in {u \in Target : ~d.targets[u].made} :
              \E x \in TargetCreate(d, t, seen) :
                 IF Failed(x.hr)
                 THEN d' = x.d /\ cur' = cur /\ err' = TRUE /\ pc' = "judge"
                 ELSE d' = TargetDestroy(x.d, cur) /\ cur' = t /\ err' = err /\ pc' = "upload"
        BY <2>2, Zenon DEF ReplaceTarget
      <3>2. PICK x \in TargetCreate(d, t, seen) :
                 IF Failed(x.hr)
                 THEN d' = x.d /\ cur' = cur /\ err' = TRUE /\ pc' = "judge"
                 ELSE d' = TargetDestroy(x.d, cur) /\ cur' = t /\ err' = err /\ pc' = "upload"
        BY <3>1
      <3>3. t \in Target /\ ~d.targets[t].made /\ t # cur BY <1>1, <3>1
      <3>4. /\ Sound(x.d) /\ Holds(d, x.d) /\ (Agree(d) => Agree(x.d))
            /\ x.d.targets[cur].made
            /\ ~Failed(x.hr) => x.d.targets[t].made
        <4>1. /\ Sound(x.d) /\ Holds(d, x.d) /\ (Agree(d) => Agree(x.d))
              /\ \A u \in Target \ {t} : x.d.targets[u].made = d.targets[u].made
              /\ ~Failed(x.hr) => x.d.targets[t].made
          BY <1>1, <1>2, <3>2, <3>3, TargetCreateSound, Zenon
        <4> QED BY <1>1, <1>2, <3>3, <4>1
      <3>5. /\ Sound(d') /\ Holds(d, d') /\ (Agree(d) => Agree(d'))
            /\ d'.targets[cur'].made /\ cur' \in Target
            /\ err' \in BOOLEAN /\ pc' \in {"judge", "upload"}
        <4>1. CASE Failed(x.hr)
          BY <1>2, <3>2, <3>4, <4>1
        <4>2. CASE ~Failed(x.hr)
          <5>1. d' = TargetDestroy(x.d, cur) /\ cur' = t /\ err' = err /\ pc' = "upload"
            BY <3>2, <4>2
          <5>2. OneTarget(x.d, d', cur, Freed)
            BY <1>2, <3>4, <5>1, TargetDestroySound, Zenon
          <5>3. /\ Sound(d') /\ Holds(x.d, d') /\ (Agree(x.d) => Agree(d'))
                /\ d'.targets[t] = x.d.targets[t]
            BY <3>3, <5>2, Zenon DEF OneTarget
          <5>4. Holds(d, d') BY <3>4, <5>3, Zenon DEF Holds
          <5> QED BY <3>3, <3>4, <4>2, <5>1, <5>3, <5>4 DEF TypeOK
        <4> QED BY <4>1, <4>2
      <3>6. backend' = backend BY <1>3 DEF fallback
      <3>7. pc' # "draw" /\ pc' # "present" BY <3>5
      <3>8. Inv' BY <1>1, <3>5, <3>6, <3>7, Zenon DEF Inv
      <3>9. Steady(d, d') BY <3>5, HoldsSteady, Zenon
      <3>10. d' \in Bridge BY <3>5, Zenon DEF Sound
      <3> QED BY <3>5, <3>6, <3>8, <3>9, <3>10
    <2> QED BY <2>1, <2>2
  <1>5. TypeOK' BY <1>3, <1>4 DEF TypeOK, content, fallback
  <1> QED BY <1>4, <1>5

LEMMA UploadInv ==
    ASSUME TypeOK, Inv, NEW r \in Resource, Upload(r)
    PROVE  TypeOK' /\ Inv' /\ Steady(d, d')
  <1>1. Sound(d) BY Zenon DEF Inv
  <1>2. screen[r] \in Value BY DEF TypeOK
  <1>3. PICK room \in Room(r) :
        LET x == IF Failed(room.hr) THEN room
                 ELSE IF r \in Texture THEN TextureWrite(room.d, r, screen[r])
                 ELSE BufferWrite(room.d, r, screen[r])
        IN  /\ d' = x.d
            /\ IF Failed(x.hr)
               THEN err' = TRUE /\ pc' = "judge" /\ UNCHANGED <<todo, dirty>>
               ELSE /\ todo' = todo \ {r}
                    /\ dirty' = IF r \in Texture THEN dirty \ {r}
                                ELSE IF todo \cap Buffer = {r} THEN dirty \ Buffer
                                ELSE dirty
                    /\ UNCHANGED <<err, pc>>
    BY Zenon DEF Upload
  <1>4. Call(d, room)
    <2>1. CASE r \in Texture
      <3>1. room = Result(d, "ok") \/ room \in TextureReplace(d, r)
        BY <1>3, <2>1, Zenon DEF Room
      <3>2. "ok" \in Hresult BY DEF Hresult
      <3> QED BY <1>1, <3>1, <3>2, CallSame, TextureReplaceSound, Zenon
    <2>2. CASE r \notin Texture
      <3>1. PICK n \in 1..MaxSize : room \in BufferReserve(d, r, n)
        BY <1>3, <2>2, Zenon DEF Room
      <3>2. n \in 0..MaxSize BY BridgeAssumption
      <3> QED BY <1>1, <3>1, <3>2, BufferReserveSound, Zenon
    <2> QED BY <2>1, <2>2
  <1> DEFINE x == IF Failed(room.hr) THEN room
                  ELSE IF r \in Texture THEN TextureWrite(room.d, r, screen[r])
                  ELSE BufferWrite(room.d, r, screen[r])
  <1>5. Call(d, x)
    <2>1. /\ Sound(room.d) /\ Keeps(d, room.d) /\ (Agree(d) => Agree(room.d))
      BY <1>4, Zenon DEF Call
    <2>2. Call(room.d, BufferWrite(room.d, r, screen[r]))
      BY <1>2, <2>1, BufferWriteSound, Zenon
    <2>3. Call(d, BufferWrite(room.d, r, screen[r]))
      BY <2>1, <2>2, CallChain, Zenon
    <2>4. x = room \/ x = BufferWrite(room.d, r, screen[r])
      BY Zenon DEF TextureWrite
    <2> QED BY <1>4, <2>3, <2>4, Zenon
  <1>6. /\ d' = x.d
        /\ IF Failed(x.hr)
           THEN err' = TRUE /\ pc' = "judge" /\ UNCHANGED <<todo, dirty>>
           ELSE /\ todo' = todo \ {r}
                /\ dirty' = IF r \in Texture THEN dirty \ {r}
                            ELSE IF todo \cap Buffer = {r} THEN dirty \ Buffer
                            ELSE dirty
                /\ UNCHANGED <<err, pc>>
    BY <1>3
  <1> HIDE DEF x
  <1>7. /\ pc = "upload"
        /\ UNCHANGED <<content, seen, cur, sync, attempt, healthy, failures, paint, retry,
                       fallback>>
    BY Zenon DEF Upload
  <1>8. backend' = backend /\ cur' = cur BY <1>7 DEF fallback
  <1>9. /\ err' \in BOOLEAN /\ pc' \in {"judge", "upload"}
        /\ todo' \subseteq Resource /\ dirty' \subseteq Resource
    <2>1. CASE Failed(x.hr) BY <1>6, <2>1 DEF TypeOK
    <2>2. CASE ~Failed(x.hr) BY <1>6, <1>7, <2>2 DEF TypeOK
    <2> QED BY <2>1, <2>2
  <1>10. pc' \notin {"draw", "present"} BY <1>9
  <1>11. Inv' /\ Steady(d, d') BY <1>5, <1>6, <1>8, <1>10, Called
  <1>12. d' \in Bridge BY <1>11, Zenon DEF Inv, Sound
  <1>13. TypeOK' BY <1>7, <1>9, <1>12 DEF TypeOK, content, fallback
  <1> QED BY <1>11, <1>13

LEMMA BeginFrameInv ==
    ASSUME TypeOK, Inv, BeginFrame
    PROVE  TypeOK' /\ Inv' /\ Steady(d, d')
  <1>1. PICK x \in Recover(d) :
        /\ d' = x.d
        /\ err' = Failed(x.hr)
        /\ pc' = IF Failed(x.hr) THEN "judge" ELSE "clear"
    BY Zenon DEF BeginFrame
  <1>2. Call(d, x) BY RecoverSound, Zenon DEF Inv
  <1>3. UNCHANGED <<content, dirty, todo, seen, cur, sync, attempt, healthy, failures, paint,
                    retry, fallback>>
    BY Zenon DEF BeginFrame
  <1>4. backend' = backend /\ cur' = cur BY <1>3 DEF fallback
  <1>5. pc' \in {"judge", "clear"} /\ err' \in BOOLEAN BY <1>1, FailedTyped
  <1>6. Inv' /\ Steady(d, d') BY <1>1, <1>2, <1>4, <1>5, Called
  <1>7. d' \in Bridge BY <1>6, Zenon DEF Inv, Sound
  <1>8. TypeOK' BY <1>3, <1>5, <1>7 DEF TypeOK, content, fallback
  <1> QED BY <1>6, <1>8

LEMMA PassTyped ==
    ASSUME TypeOK, NEW from, NEW x, NEW to, to \in {"draw", "present"}, Pass(from, x, to),
           x.d \in Bridge
    PROVE  /\ TypeOK' /\ d' = x.d /\ cur' = cur /\ backend' = backend
           /\ pc' = IF Failed(x.hr) THEN "judge" ELSE to
  <1>1. UNCHANGED <<content, dirty, todo, seen, cur, sync, attempt, failures, paint, retry,
                    fallback>>
    BY Zenon DEF Pass
  <1>2. /\ d' = x.d /\ err' \in BOOLEAN /\ healthy' \in BOOLEAN
        /\ pc' = IF Failed(x.hr) THEN "judge" ELSE to
    BY DEF Pass, TypeOK
  <1>3. pc' \in {"judge", "draw", "present"} BY <1>2
  <1> QED BY <1>1, <1>2, <1>3 DEF TypeOK, content, fallback

LEMMA ClearInv ==
    ASSUME TypeOK, Inv, ClearTarget
    PROVE  TypeOK' /\ Inv' /\ Steady(d, d')
  <1> DEFINE x == Clear(d, cur)
  <1>1. cur \in Target /\ Sound(d) /\ d.targets[cur].made /\ (backend = "d3d11" => Agree(d))
    BY DEF TypeOK, Inv
  <1>2. Call(d, x) /\ (~Failed(x.hr) => x.d.last # cur)
    BY <1>1, ClearSound, Zenon
  <1>3. Pass("clear", x, "draw") BY Zenon DEF ClearTarget
  <1> HIDE DEF x
  <1>4. Sound(x.d) /\ Keeps(d, x.d) /\ (Agree(d) => Agree(x.d)) /\ x.d \in Bridge
    BY <1>2, Zenon DEF Call, Sound
  <1>5. /\ TypeOK' /\ d' = x.d /\ cur' = cur /\ backend' = backend
        /\ pc' = IF Failed(x.hr) THEN "judge" ELSE "draw"
    BY <1>3, <1>4, PassTyped
  <1>6. pc' # "present" /\ (pc' = "draw" => ~Failed(x.hr))
    BY <1>5
  <1>7. d'.targets[cur].made BY <1>1, <1>4, <1>5, Zenon DEF Keeps
  <1>8. Inv' BY <1>1, <1>2, <1>4, <1>5, <1>6, <1>7, Zenon DEF Inv
  <1>9. Steady(d, d') BY <1>4, <1>5, HoldsSteady, Zenon DEF Keeps
  <1> QED BY <1>5, <1>8, <1>9

LEMMA DrawInv ==
    ASSUME TypeOK, Inv, DrawPass
    PROVE  TypeOK' /\ Inv' /\ Steady(d, d')
  <1> DEFINE x == Draw(d, cur)
  <1>1. cur \in Target /\ Sound(d) /\ d.targets[cur].made /\ (backend = "d3d11" => Agree(d))
    BY DEF TypeOK, Inv
  <1>2. d.last # cur BY DEF DrawPass, Pass, Inv
  <1>3. Call(d, x) /\ (~Failed(x.hr) => x.d.targets[cur].pixels.whole)
    BY <1>1, <1>2, DrawSound, Zenon
  <1>4. Pass("draw", x, "present") BY Zenon DEF DrawPass
  <1> HIDE DEF x
  <1>5. Sound(x.d) /\ Keeps(d, x.d) /\ (Agree(d) => Agree(x.d)) /\ x.d \in Bridge
    BY <1>3, Zenon DEF Call, Sound
  <1>6. /\ TypeOK' /\ d' = x.d /\ cur' = cur /\ backend' = backend
        /\ pc' = IF Failed(x.hr) THEN "judge" ELSE "present"
    BY <1>4, <1>5, PassTyped
  <1>7. pc' # "draw" /\ (pc' = "present" => ~Failed(x.hr))
    BY <1>6
  <1>8. d'.targets[cur].made BY <1>1, <1>5, <1>6, Zenon DEF Keeps
  <1>9. Inv' BY <1>1, <1>3, <1>5, <1>6, <1>7, <1>8, Zenon DEF Inv
  <1>10. Steady(d, d') BY <1>5, <1>6, HoldsSteady, Zenon DEF Keeps
  <1> QED BY <1>6, <1>9, <1>10

LEMMA PresentInv ==
    ASSUME TypeOK, Inv, Present
    PROVE  TypeOK' /\ Inv' /\ Steady(d, d')
  <1>1. /\ cur \in Target /\ Sound(d) /\ d.targets[cur].made /\ minimised \in BOOLEAN
        /\ d.targets[cur].pixels.whole
    BY DEF TypeOK, Inv, Present
  <1>2. PICK x \in PresentTarget(d, cur, TRUE, minimised) :
            d' = x.d /\ healthy' = ~Failed(x.hr)
    BY DEF Present
  <1>3. Call(d, x) BY <1>1, PresentTargetSound, Zenon
  <1>4. /\ UNCHANGED <<content, dirty, todo, frame, failures, paint, retry, fallback>>
        /\ pc' = "judge"
    BY Zenon DEF Present
  <1>5. backend' = backend /\ cur' = cur BY <1>4 DEF frame, fallback
  <1>6. Inv' /\ Steady(d, d') BY <1>2, <1>3, <1>4, <1>5, Called
  <1>7. d' \in Bridge BY <1>6, Zenon DEF Inv, Sound
  <1>8. healthy' \in BOOLEAN BY <1>2, FailedTyped
  <1>9. TypeOK' BY <1>4, <1>7, <1>8 DEF TypeOK, content, frame, fallback
  <1> QED BY <1>6, <1>9

----------------------------------------------------------------------------
(***************************************************************************)
(* After an attempt.                                                       *)
(***************************************************************************)
LEMMA LaterTyped ==
    ASSUME TypeOK, Later
    PROVE  /\ pc' = "idle" /\ todo' \subseteq Resource /\ sync' \in BOOLEAN
           /\ attempt' \in 1..2 /\ err' \in BOOLEAN /\ retry' \in BOOLEAN
           /\ UNCHANGED <<screen, view, minimised, dirty, seen, cur, healthy, paint>>
  <1>1. EndFrame /\ retry' = TRUE /\ Kept /\ paint' = paint BY Zenon DEF Later
  <1> QED BY <1>1, EndTyped DEF Kept

LEMMA JudgeFailureInv ==
    ASSUME TypeOK, Inv, JudgeFailure
    PROVE  TypeOK' /\ Inv' /\ Steady(d, d')
  <1> DEFINE n == IF Counts THEN Counted ELSE failures
  <1>1. n \in 0..MaxFailures
    BY RendererAssumption DEF TypeOK, Counted
  <1>2. Attempted(n) BY Zenon DEF JudgeFailure
  <1> HIDE DEF n
  <1>3. failures' \in 0..MaxFailures BY <1>1, <1>2, Zenon DEF Attempted
  <1>4. \/ (FallBackFails \/ NoFallBack) /\ Later
        \/ UNCHANGED <<d, fallback, rebuilt>> /\ Later
        \/ /\ attempt' = 2 /\ err' = FALSE /\ pc' = "recover"
           /\ UNCHANGED <<d, content, dirty, todo, seen, cur, sync, healthy, paint, retry,
                          fallback>>
    BY <1>2, Zenon DEF Attempted
  <1>5. CASE (FallBackFails \/ NoFallBack) /\ Later
    <2>1. /\ Passed(d, d') /\ backend' = backend /\ rebuilt' \in BOOLEAN
          /\ wants' \in BOOLEAN /\ blocked' \in BOOLEAN /\ fallbackIn' \in 0..FallbackGap
      BY <1>5, GoesOn
    <2>2. /\ pc' = "idle" /\ todo' \subseteq Resource /\ sync' \in BOOLEAN
          /\ attempt' \in 1..2 /\ err' \in BOOLEAN /\ retry' \in BOOLEAN
          /\ UNCHANGED <<screen, view, minimised, dirty, seen, cur, healthy, paint>>
      BY <1>5, LaterTyped
    <2>3. Sound(d') /\ Keeps(d, d') /\ (Agree(d) => Agree(d'))
      BY <2>1, Zenon DEF Passed
    <2>4. Inv' /\ Steady(d, d') BY <2>1, <2>2, <2>3, Stays
    <2>5. d' \in Bridge BY <2>3, Zenon DEF Sound
    <2>6. TypeOK' BY <1>3, <2>1, <2>2, <2>5 DEF TypeOK
    <2> QED BY <2>4, <2>6
  <1>6. CASE UNCHANGED <<d, fallback, rebuilt>> /\ Later
    <2>1. /\ pc' = "idle" /\ todo' \subseteq Resource /\ sync' \in BOOLEAN
          /\ attempt' \in 1..2 /\ err' \in BOOLEAN /\ retry' \in BOOLEAN
          /\ UNCHANGED <<screen, view, minimised, dirty, seen, cur, healthy, paint>>
      BY <1>6, LaterTyped
    <2>2. UNCHANGED <<d, rebuilt, backend, wants, blocked, fallbackIn>>
      BY <1>6 DEF fallback
    <2>3. Inv' /\ Steady(d, d') BY <2>1, <2>2, BridgeStays
    <2>4. TypeOK' BY <1>3, <2>1, <2>2 DEF TypeOK
    <2> QED BY <2>3, <2>4
  <1>7. CASE /\ attempt' = 2 /\ err' = FALSE /\ pc' = "recover"
             /\ UNCHANGED <<d, content, dirty, todo, seen, cur, sync, healthy, paint, retry,
                            fallback>>
    <2>1. attempt' \in 1..2 BY <1>7
    <2>2. d' = d /\ cur' = cur /\ backend' = backend BY <1>7 DEF fallback
    <2>3. Inv' /\ Steady(d, d') BY <1>7, <2>2, BridgeStays
    <2>4. TypeOK' BY <1>3, <1>7, <2>1 DEF TypeOK, content, fallback
    <2> QED BY <2>3, <2>4
  <1> QED BY <1>4, <1>5, <1>6, <1>7

LEMMA JudgeSuccessInv ==
    ASSUME TypeOK, Inv, JudgeSuccess
    PROVE  TypeOK' /\ Inv' /\ Steady(d, d')
  <1>1. /\ failures' = 0 /\ retry' = d.occluded /\ EndFrame
        /\ Kept /\ UNCHANGED <<d, rebuilt, paint, fallback>>
    BY Zenon DEF JudgeSuccess
  <1>2. /\ pc' = "idle" /\ todo' \subseteq Resource /\ sync' \in BOOLEAN
        /\ attempt' \in 1..2 /\ err' \in BOOLEAN
    BY <1>1, EndTyped
  <1>3. d' = d /\ cur' = cur /\ backend' = backend BY <1>1 DEF Kept, fallback
  <1>4. Inv' /\ Steady(d, d') BY <1>2, <1>3, BridgeStays
  <1>5. retry' \in BOOLEAN
    <2>1. \A b \in Bridge : b.occluded \in BOOLEAN BY Zenon DEF Bridge
    <2> QED BY <1>1, <2>1 DEF TypeOK
  <1>6. failures' \in 0..MaxFailures BY <1>1, RendererAssumption
  <1>7. TypeOK' BY <1>1, <1>2, <1>5, <1>6 DEF TypeOK, Kept, fallback
  <1> QED BY <1>4, <1>7

----------------------------------------------------------------------------
(***************************************************************************)
(* The environment.                                                        *)
(***************************************************************************)
\* What happens between frames to the pane alone.
LEMMA PaneInv ==
    ASSUME TypeOK, Inv,
           \/ \E r \in Resource, v \in Value : Write(r, v)
           \/ \E n \in 1..MaxSize : Resize(n)
           \/ \E empty \in BOOLEAN : Minimise(empty)
           \/ Expose
           \/ \E reload \in BOOLEAN : NeedFeature(reload)
    PROVE  TypeOK' /\ Inv' /\ Steady(d, d')
  <1>1. ASSUME NEW r \in Resource, NEW v \in Value, Write(r, v)
        PROVE  TypeOK' /\ UNCHANGED <<d, cur, pc, backend>> /\ pc = "idle"
    BY <1>1 DEF TypeOK, Write, Between, frame, fallback
  <1>2. ASSUME NEW n \in 1..MaxSize, Resize(n)
        PROVE  TypeOK' /\ UNCHANGED <<d, cur, pc, backend>> /\ pc = "idle"
    BY <1>2 DEF TypeOK, Resize, Between, frame, fallback
  <1>3. ASSUME NEW empty \in BOOLEAN, Minimise(empty)
        PROVE  TypeOK' /\ UNCHANGED <<d, cur, pc, backend>> /\ pc = "idle"
    <2>1. paint' \in BOOLEAN BY <1>3 DEF Minimise, TypeOK
    <2> QED BY <1>3, <2>1 DEF TypeOK, Minimise, Between, frame, fallback
  <1>4. ASSUME NEW reload \in BOOLEAN, NeedFeature(reload)
        PROVE  TypeOK' /\ UNCHANGED <<d, cur, pc, backend>> /\ pc = "idle"
    <2>1. blocked' \in BOOLEAN /\ fallbackIn' \in 0..FallbackGap
      <3>1. CASE reload
        <4>1. blocked' = FALSE /\ fallbackIn' = 0 BY <1>4, <3>1, Zenon DEF NeedFeature
        <4>2. 0 \in 0..FallbackGap BY RendererAssumption
        <4> QED BY <4>1, <4>2, Zenon
      <3>2. CASE ~reload
        <4>1. blocked' = blocked /\ fallbackIn' = fallbackIn
          BY <1>4, <3>2, Zenon DEF NeedFeature
        <4> QED BY <4>1, Zenon DEF TypeOK
      <3> QED BY <3>1, <3>2
    <2> QED BY <1>4, <2>1 DEF TypeOK, NeedFeature, Between, content, frame
  <1>5. TypeOK' /\ UNCHANGED <<d, cur, pc, backend>> /\ pc = "idle"
    <2>1. CASE Expose
      BY <2>1 DEF TypeOK, Expose, Between, content, frame, fallback
    <2> QED BY <1>1, <1>2, <1>3, <1>4, <2>1
  <1>6. pc' \notin {"draw", "present"} BY <1>5
  <1>7. d' = d /\ backend' = backend /\ cur' = cur BY <1>5
  <1>8. Inv' /\ Steady(d, d') BY <1>6, <1>7, BridgeStays
  <1> QED BY <1>5, <1>8

\* A bridge whose device or graph is lost, for which time passes, or which
\* nothing fails any more.
Aged(a, b) ==
    /\ b.last = a.last /\ b.targets = a.targets /\ b.front = a.front
    /\ b.forceWarp = a.forceWarp /\ b.device = a.device
    /\ b.unavailable = a.unavailable /\ b.pending = a.pending
    /\ b.cpu = a.cpu /\ b.gpu = a.gpu /\ b.committed = a.committed
    /\ b.swapchain = a.swapchain

LEMMA AgedInv ==
    ASSUME TypeOK, Inv, d' \in Bridge, Aged(d, d'), GraphSound(d'), ProbesSound(d'),
           UNCHANGED <<pc, cur, backend>>
    PROVE  Inv' /\ Steady(d, d')
  <1>1. Sound(d') BY Zenon DEF Inv, Sound, Aged, Retained
  <1>2. Agree(d) => Agree(d') BY Zenon DEF Aged, Agree, Uploaded
  <1>3. Inv' BY <1>1, <1>2, Zenon DEF Inv, Aged
  <1>4. Steady(d, d') BY Zenon DEF Aged, Steady
  <1> QED BY <1>3, <1>4

LEMMA LossInv ==
    ASSUME TypeOK, Inv, LoseDevice \/ InvalidateGraph \/ Calm
    PROVE  TypeOK' /\ Inv' /\ Steady(d, d')
  <1>1. d \in Bridge /\ d.graph \in Graph /\ GraphSound(d) /\ ProbesSound(d)
    BY Fields, Zenon DEF Inv, Sound
  <1>2. UNCHANGED <<content, dirty, todo, frame, pc, healthy, failures, paint, retry, fallback>>
    BY Zenon DEF LoseDevice, InvalidateGraph, Calm
  <1> DEFINE lost == [d EXCEPT !.gone = TRUE]
             g == [d.graph EXCEPT !.valid = FALSE]
             off == [d EXCEPT !.graph.valid = FALSE]
             calm == [d EXCEPT !.calm = TRUE]
  <1>3. g \in Graph /\ g.made = d.graph.made /\ g.tree = d.graph.tree
        /\ g.live = d.graph.live /\ g.committed = d.graph.committed
        /\ g.detached = d.graph.detached
    BY <1>1, Zenon DEF Graph
  <1>4. off = [d EXCEPT !.graph = g] BY <1>1, Zenon DEF Bridge
  <1> HIDE DEF g
  <1>5. /\ lost \in Bridge /\ Aged(d, lost) /\ lost.graph = d.graph
        /\ lost.retryIn = d.retryIn /\ lost.probeAge = d.probeAge /\ lost.probes = d.probes
    BY <1>1, Zenon DEF Bridge, Aged
  <1>6. /\ calm \in Bridge /\ Aged(d, calm) /\ calm.graph = d.graph
        /\ calm.retryIn = d.retryIn /\ calm.probeAge = d.probeAge /\ calm.probes = d.probes
    BY <1>1, Zenon DEF Bridge, Aged
  <1> HIDE DEF off
  <1>7. /\ off \in Bridge /\ Aged(d, off) /\ off.graph = g
        /\ off.retryIn = d.retryIn /\ off.probeAge = d.probeAge /\ off.probes = d.probes
    BY <1>1, <1>3, <1>4, Zenon DEF Bridge, Aged
  <1>8. d' = lost \/ d' = off \/ d' = calm
    BY Zenon DEF LoseDevice, InvalidateGraph, Calm, off
  <1> HIDE DEF lost, calm
  <1>9. d' \in Bridge /\ Aged(d, d') /\ GraphSound(d') /\ ProbesSound(d')
    <2>1. CASE d' = lost
      BY <1>1, <1>5, <2>1, Zenon DEF GraphSound, ProbesSound, Aged
    <2>2. CASE d' = off
      BY <1>1, <1>3, <1>7, <2>2, Zenon DEF GraphSound, ProbesSound, Aged
    <2>3. CASE d' = calm
      BY <1>1, <1>6, <2>3, Zenon DEF GraphSound, ProbesSound, Aged
    <2> QED BY <1>8, <2>1, <2>2, <2>3
  <1>10. UNCHANGED <<pc, cur, backend>> BY <1>2 DEF frame, fallback
  <1>11. Inv' /\ Steady(d, d') BY <1>9, <1>10, AgedInv
  <1>12. TypeOK' BY <1>2, <1>9 DEF TypeOK, content, frame, fallback
  <1> QED BY <1>11, <1>12

LEMMA TickInv ==
    ASSUME TypeOK, Inv, Tick
    PROVE  TypeOK' /\ Inv' /\ Steady(d, d')
  <1>1. /\ d \in Bridge /\ GraphSound(d) /\ ProbesSound(d)
        /\ d.retryIn \in 0..Window /\ d.probeAge \in 0..Window
    BY Fields, Zenon DEF Inv, Sound
  <1>2. d.testIn \in 0..TestGap BY <1>1, Zenon DEF Bridge
  <1> DEFINE r == Less(d.retryIn)
             u == Less(d.testIn)
             p == More(d.probeAge)
  <1>3. /\ r \in 0..Window /\ u \in 0..TestGap /\ p \in 0..Window
        /\ r + p >= Window
    BY <1>1, <1>2, BridgeAssumption DEF Less, More, ProbesSound
  <1>4. d' = [d EXCEPT !.retryIn = r, !.testIn = u, !.probeAge = p]
    BY Zenon DEF Tick
  <1> HIDE DEF r, u, p
  <1>5. /\ d' \in Bridge /\ Aged(d, d') /\ d'.graph = d.graph
        /\ d'.retryIn = r /\ d'.probeAge = p /\ d'.probes = d.probes
    BY <1>1, <1>3, <1>4, Zenon DEF Bridge, Aged
  <1>6. GraphSound(d') BY <1>1, <1>5, Zenon DEF GraphSound, Aged
  <1>7. ProbesSound(d')
    BY <1>1, <1>3, <1>5, Zenon DEF ProbesSound
  <1>8. UNCHANGED <<content, dirty, todo, frame, pc, healthy, failures, paint, retry,
                    backend, wants, blocked>>
    BY Zenon DEF Tick
  <1>9. UNCHANGED <<pc, cur, backend>> BY <1>8 DEF frame
  <1>10. Inv' /\ Steady(d, d') BY <1>5, <1>6, <1>7, <1>9, AgedInv
  <1>11. fallbackIn' \in 0..FallbackGap
    BY RendererAssumption DEF Tick, Less, TypeOK
  <1>12. TypeOK' BY <1>5, <1>8, <1>11 DEF TypeOK, content, frame
  <1> QED BY <1>10, <1>12

----------------------------------------------------------------------------
(***************************************************************************)
(* The theorems.                                                           *)
(***************************************************************************)
LEMMA NextInv ==
    ASSUME TypeOK, Inv, Next
    PROVE  TypeOK' /\ Inv' /\ Steady(d, d')
  <1>1. CASE SetPolicy BY <1>1, PolicyInv
  <1>2. CASE Paint BY <1>2, PaintInv
  <1>3. CASE FrameStep
    <2>1. CASE EnterFallback BY <2>1, EnterFallbackInv
    <2>2. CASE RecoverFirst BY <2>2, RecoverFirstInv
    <2>3. CASE SkipEmpty BY <2>3, SkipEmptyInv
    <2>4. CASE PresentRetained BY <2>4, PresentRetainedInv
    <2>5. CASE Prepare BY <2>5, PrepareInv
    <2>6. CASE ReplaceTarget BY <2>6, ReplaceTargetInv
    <2>7. CASE \E r \in Resource : Upload(r) BY <2>7, UploadInv
    <2>8. CASE BeginFrame BY <2>8, BeginFrameInv
    <2>9. CASE ClearTarget BY <2>9, ClearInv
    <2>10. CASE DrawPass BY <2>10, DrawInv
    <2>11. CASE Present BY <2>11, PresentInv
    <2>12. CASE JudgeFailure BY <2>12, JudgeFailureInv
    <2>13. CASE JudgeFallback
      <3>1. FallBack BY <2>13 DEF JudgeFallback
      <3> QED BY <3>1, FallBackInv
    <2>14. CASE JudgeSuccess BY <2>14, JudgeSuccessInv
    <2> QED BY <1>3, <2>1, <2>2, <2>3, <2>4, <2>5, <2>6, <2>7, <2>8, <2>9, <2>10,
               <2>11, <2>12, <2>13, <2>14 DEF FrameStep
  <1>4. CASE Environment BY <1>4, PaneInv, LossInv DEF Environment
  <1>5. CASE Tick BY <1>5, TickInv
  <1> QED BY <1>1, <1>2, <1>3, <1>4, <1>5 DEF Next

LEMMA StutterInv ==
    ASSUME TypeOK, Inv, UNCHANGED vars
    PROVE  TypeOK' /\ Inv' /\ Steady(d, d')
  <1>1. TypeOK' BY DEF TypeOK, vars
  <1>2. UNCHANGED <<d, backend, cur, pc>> BY DEF vars
  <1>3. Inv' BY <1>2, Zenon DEF Inv
  <1>4. Steady(d, d') BY <1>2, Zenon DEF Steady
  <1> QED BY <1>1, <1>3, <1>4

\* The pane's state has its types, and its invariant holds.
THEOREM Invariance == Spec => [](TypeOK /\ Inv)
  <1>1. Init => TypeOK /\ Inv BY InitInv
  <1>2. TypeOK /\ Inv /\ [Next]_vars => (TypeOK /\ Inv)'
    BY NextInv, StutterInv
  <1> QED BY <1>1, <1>2, PTL DEF Spec

\* The pane's state has its types, the bridge's own record included.
THEOREM PaneTypes == Spec => []TypeOK
  BY Invariance, PTL

\* The copies a frame is drawn from are what preparation last wrote, whatever
\* was lost, rolled back or rebuilt before.
THEOREM MirrorsAgreeTheorem == Spec => []MirrorsAgree
  <1>1. Inv => MirrorsAgree BY Zenon DEF Inv, MirrorsAgree, Agree, Uploaded
  <1> QED BY <1>1, Invariance, PTL

\* The retained frame exists and is whole.
THEOREM RetainedFrame == Spec => []RetainedFrameWhole
  <1>1. Inv => RetainedFrameWhole
    BY Zenon DEF Inv, Sound, Retained, RetainedFrameWhole
  <1> QED BY <1>1, Invariance, PTL

\* When undoing a failed detach does not fail itself, what was committed is
\* on the window.
THEOREM Attached ==
    ASSUME RestoreFails = FALSE
    PROVE  Spec => []CommittedIsAttached
  <1>1. Inv => CommittedIsAttached
    BY Zenon DEF Inv, Sound, GraphSound, CommittedIsAttached
  <1> QED BY <1>1, Invariance, PTL

\* One hardware attempt in a window.
THEOREM OneProbe == Spec => []OneProbePerWindow
  <1>1. Inv => OneProbePerWindow
    BY Zenon DEF Inv, Sound, ProbesSound, OneProbePerWindow
  <1> QED BY <1>1, Invariance, PTL

LEMMA StepSteady == Spec => [][Steady(d, d')]_vars
  <1>1. TypeOK /\ Inv /\ [Next]_vars => [Steady(d, d')]_vars
    BY NextInv
  <1> QED BY <1>1, Invariance, PTL DEF Spec

\* A bridge that has given up shows nothing new, and no recovery takes
\* hardware from a user who chose software.
THEOREM GoesNotBack == Spec => NeverGoesBack
  <1>1. [Steady(d, d')]_vars
            => [/\ d.unavailable => d'.unavailable /\ d'.front \in {d.front, Undrawn}
                /\ d.forceWarp /\ d'.device = "hardware" => d.device = "hardware"]_vars
    BY Zenon DEF Steady
  <1> QED BY <1>1, StepSteady, PTL DEF NeverGoesBack

----------------------------------------------------------------------------
(***************************************************************************)
(* What is on screen.  The argument follows a change of the terminal: the  *)
(* mirrors of clean resources hold what it wants, an upload makes one more *)
(* of them do so, a frame that has begun has uploaded all, a pass draws    *)
(* what the copies hold, which are the mirrors, and a presentation that    *)
(* does not fail shows it.  Every other way out of a frame leaves the pane *)
(* with a draw due.                                                        *)
(***************************************************************************)
\* The mirrors of all resources but those in S hold what is wanted.
Holding(b, wanted, S) == \A r \in Resource \ S : b.cpu[r].data = wanted[r]

Lost == d.gone \/ (d.graph.made /\ ~d.graph.valid)

CurrentInv ==
    /\ pc = "policy" => paint
    /\ pc \notin {"policy", "idle"} => sync /\ backend = "d3d11"
    /\ todo \subseteq dirty
    /\ Holding(d, screen, dirty)
    /\ pc \in {"target", "upload"} => Holding(d, screen, todo)
    /\ pc \in {"clear", "draw", "present"} => Holding(d, screen, {})
    /\ pc = "present" => d.targets[cur].pixels.of = screen
    /\ pc = "judge" /\ ~err /\ healthy => d.occluded \/ minimised \/ Lost \/ OnScreen
    /\ AtRest /\ ~minimised => Lost \/ OnScreen

LEMMA HoldsOn ==
    ASSUME NEW b, NEW c, c.cpu = b.cpu, NEW wanted, NEW S, Holding(b, wanted, S)
    PROVE  Holding(c, wanted, S)
  BY Zenon DEF Holding

\* The steps that touch no mirror and draw nothing.
LEMMA Onward ==
    ASSUME CurrentInv, d'.cpu = d.cpu, screen' = screen, dirty' = dirty,
           todo' \subseteq todo,
           pc' \notin {"policy", "target", "upload", "clear", "draw", "present"},
           pc' # "idle" => sync' /\ backend' = "d3d11",
           pc' = "judge" => err' \/ minimised',
           pc' = "idle" => backend' = "opengl" \/ retry' \/ paint'
    PROVE  CurrentInv'
  <1>1. todo' \subseteq dirty' BY DEF CurrentInv
  <1>2. Holding(d', screen', dirty') BY HoldsOn DEF CurrentInv
  <1>3. ~AtRest' BY DEF AtRest
  <1>4. /\ pc' # "policy" /\ pc' \notin {"target", "upload"} /\ pc' # "present"
        /\ pc' \notin {"clear", "draw", "present"}
    OBVIOUS
  <1>5. pc' \notin {"policy", "idle"} => sync' /\ backend' = "d3d11" OBVIOUS
  <1> QED BY <1>1, <1>2, <1>3, <1>4, <1>5, Zenon DEF CurrentInv

LEMMA InitCurrent == Init => CurrentInv
  <1> SUFFICES ASSUME Init PROVE CurrentInv
    OBVIOUS
  <1>1. pc = "policy" /\ paint /\ dirty = Resource /\ todo = {} BY DEF Init
  <1>2. Holding(d, screen, dirty) BY <1>1 DEF Holding
  <1>3. ~AtRest BY <1>1 DEF AtRest
  <1>4. /\ pc \notin {"target", "upload"} /\ pc # "present" /\ pc # "judge"
        /\ pc \notin {"clear", "draw", "present"} /\ pc \in {"policy", "idle"}
        /\ todo \subseteq dirty
    BY <1>1
  <1> QED BY <1>1, <1>2, <1>3, <1>4, Zenon DEF CurrentInv

LEMMA PolicyCurrent ==
    ASSUME TypeOK, Inv, CurrentInv, SetPolicy
    PROVE  CurrentInv'
  <1>1. PICK force \in BOOLEAN : d' = SetRecoveryPreference(d, force)
    <2>1. d.warp \in BOOLEAN BY Fields DEF TypeOK
    <2> QED BY <2>1 DEF SetPolicy
  <1>2. d'.cpu = d.cpu BY <1>1, PreferenceSound, Zenon DEF Inv
  <1>3. /\ pc = "policy" /\ pc' = "idle" /\ paint' = paint /\ screen' = screen
        /\ dirty' = dirty /\ todo' = todo
    BY DEF SetPolicy, content
  <1>4. paint BY <1>3 DEF CurrentInv
  <1> QED BY <1>2, <1>3, <1>4, Onward

\* OpenGL has the window, and is told of everything anew.
LEMMA FallBackCurrent ==
    ASSUME TypeOK, Inv, CurrentInv, FallBack
    PROVE  CurrentInv'
  <1>1. PICK x \in SuspendPresentation(d) : d' = ReleaseDevice(x.d)
    BY DEF FallBack
  <1>2. Passed(d, x.d) BY <1>1, SuspendSound, Zenon DEF Inv
  <1>3. d'.cpu = x.d.cpu BY <1>1, <1>2, ReleaseSound, Zenon DEF Passed
  <1>4. d'.cpu = d.cpu BY <1>2, <1>3, Zenon DEF Passed
  <1>5. /\ backend' = "opengl" /\ pc' = "idle" /\ todo' = {} /\ screen' = screen
        /\ dirty' = dirty
    BY DEF FallBack, Kept, EndFrame
  <1> QED BY <1>4, <1>5, Onward

LEMMA EnterFallbackCurrent ==
    ASSUME TypeOK, Inv, CurrentInv, EnterFallback
    PROVE  CurrentInv'
  <1>1. CASE FallBack BY <1>1, FallBackCurrent
  <1>2. CASE /\ FallBackFails \/ NoFallBack
             /\ IF d.unavailable THEN EndFrame /\ retry' = TRUE
                ELSE pc' = "recover" /\ UNCHANGED <<retry, locals>>
             /\ Kept /\ UNCHANGED <<failures, paint>>
    <2>1. d'.cpu = d.cpu /\ backend' = backend BY <1>2, GoesOn, Zenon DEF Passed
    <2>2. screen' = screen /\ dirty' = dirty BY <1>2 DEF Kept
    <2>3. pc = "fallback" BY DEF EnterFallback
    <2>4. sync /\ backend = "d3d11" BY <2>3 DEF CurrentInv
    <2>5. CASE d.unavailable
      <3>1. pc' = "idle" /\ todo' = {} /\ retry' = TRUE BY <1>2, <2>5 DEF EndFrame
      <3> QED BY <2>1, <2>2, <3>1, Onward
    <2>6. CASE ~d.unavailable
      <3>1. pc' = "recover" /\ todo' = todo /\ sync' = sync
        BY <1>2, <2>6 DEF locals
      <3> QED BY <2>1, <2>2, <2>4, <3>1, Onward
    <2> QED BY <2>5, <2>6
  <1> QED BY <1>1, <1>2 DEF EnterFallback

\* Every paint passes sync.
LEMMA PaintCurrent ==
    ASSUME CurrentInv, Syncs = {TRUE}, Paint
    PROVE  CurrentInv'
  <1>1. /\ d' = d /\ screen' = screen /\ dirty' = dirty /\ todo' = todo
        /\ backend = "d3d11" /\ backend' = backend /\ pc' \in {"fallback", "recover"}
        /\ sync' = TRUE
    BY DEF Paint, content, fallback
  <1> QED BY <1>1, Onward

LEMMA RecoverFirstCurrent ==
    ASSUME TypeOK, Inv, CurrentInv, RecoverFirst
    PROVE  CurrentInv'
  <1>1. PICK x \in Recover(d) : d' = x.d BY DEF RecoverFirst
  <1>2. d'.cpu = d.cpu BY <1>1, RecoverSound, Zenon DEF Inv
  <1>3. /\ pc = "recover" /\ pc' = "decide" /\ screen' = screen /\ dirty' = dirty
        /\ todo' = todo /\ sync' = sync /\ backend' = backend
    BY DEF RecoverFirst, content, frame, fallback
  <1>4. sync /\ backend = "d3d11" BY <1>3 DEF CurrentInv
  <1> QED BY <1>2, <1>3, <1>4, Onward

LEMMA SkipEmptyCurrent ==
    ASSUME CurrentInv, SkipEmpty
    PROVE  CurrentInv'
  <1>1. /\ pc = "decide" /\ pc' = "judge" /\ minimised' /\ d' = d /\ screen' = screen
        /\ dirty' = dirty /\ todo' = todo /\ sync' = sync /\ backend' = backend
    BY DEF SkipEmpty, content, fallback
  <1>2. sync /\ backend = "d3d11" BY <1>1 DEF CurrentInv
  <1> QED BY <1>1, <1>2, Onward

\* A frame that must be drawn is not the retained one.
LEMMA PresentRetainedCurrent ==
    ASSUME CurrentInv, PresentRetained
    PROVE  CurrentInv'
  <1>1. pc = "decide" /\ ~sync BY DEF PresentRetained, MustRedraw
  <1> QED BY <1>1 DEF CurrentInv

LEMMA PrepareCurrent ==
    ASSUME CurrentInv, Prepare
    PROVE  CurrentInv'
  <1>1. /\ pc = "decide" /\ pc' = "target" /\ d' = d /\ screen' = screen
        /\ dirty' = dirty /\ todo' = dirty /\ sync' = sync /\ backend' = backend
    BY DEF Prepare, fallback
  <1>2. sync' /\ backend' = "d3d11" BY <1>1 DEF CurrentInv
  <1>3. Holding(d', screen', dirty') /\ Holding(d', screen', todo')
    BY <1>1 DEF CurrentInv
  <1>4. ~AtRest' BY <1>1 DEF AtRest
  <1>5. /\ pc' # "policy" /\ pc' # "present" /\ pc' # "judge"
        /\ pc' \notin {"clear", "draw", "present"} /\ todo' \subseteq dirty'
    BY <1>1
  <1> QED BY <1>2, <1>3, <1>4, <1>5, Zenon DEF CurrentInv

LEMMA ReplaceTargetCurrent ==
    ASSUME TypeOK, Inv, CurrentInv, ReplaceTarget
    PROVE  CurrentInv'
  <1>1. /\ pc = "target" /\ screen' = screen /\ dirty' = dirty /\ todo' = todo
        /\ sync' = sync /\ backend' = backend
    BY DEF ReplaceTarget, content, fallback
  <1>2. sync' /\ backend' = "d3d11" /\ Holding(d, screen, dirty) /\ Holding(d, screen, todo)
        /\ todo \subseteq dirty
    BY <1>1 DEF CurrentInv
  <1>3. Sound(d) /\ d.targets[cur].made BY Zenon DEF Inv
  <1>4. cur \in Target /\ seen \in 0..MaxSize BY BridgeAssumption DEF TypeOK
  <1>5. d'.cpu = d.cpu /\ (pc' = "upload" \/ (pc' = "judge" /\ err'))
    <2>1. CASE d.targets[cur].size = seen
      BY <2>1, Zenon DEF ReplaceTarget
    <2>2. CASE d.targets[cur].size # seen
      <3>1. PICK t \in {u \in Target : ~d.targets[u].made} :
              \E x \in TargetCreate(d, t, seen) :
                 IF Failed(x.hr)
                 THEN d' = x.d /\ cur' = cur /\ err' = TRUE /\ pc' = "judge"
                 ELSE d' = TargetDestroy(x.d, cur) /\ cur' = t /\ err' = err /\ pc' = "upload"
        BY <2>2, Zenon DEF ReplaceTarget
      <3>2. PICK x \in TargetCreate(d, t, seen) :
                 IF Failed(x.hr)
                 THEN d' = x.d /\ cur' = cur /\ err' = TRUE /\ pc' = "judge"
                 ELSE d' = TargetDestroy(x.d, cur) /\ cur' = t /\ err' = err /\ pc' = "upload"
        BY <3>1
      <3>3. Sound(x.d) /\ x.d.cpu = d.cpu
        <4>1. t \in Target /\ ~d.targets[t].made BY <3>1
        <4>2. \A y \in TargetCreate(d, t, seen) : Sound(y.d) /\ y.d.cpu = d.cpu
          BY <1>3, <1>4, <4>1, TargetCreateSound
        <4> QED BY <4>2
      <3>4. CASE Failed(x.hr) BY <3>2, <3>3, <3>4, Zenon
      <3>5. CASE ~Failed(x.hr)
        <4>1. d' = TargetDestroy(x.d, cur) /\ pc' = "upload" BY <3>2, <3>5
        <4>2. OneTarget(x.d, d', cur, Freed)
          BY <1>4, <3>3, <4>1, TargetDestroySound, Zenon
        <4> QED BY <3>3, <4>1, <4>2, Zenon DEF OneTarget
      <3> QED BY <3>4, <3>5
    <2> QED BY <2>1, <2>2
  <1>6. CASE pc' = "judge" /\ err' BY <1>1, <1>2, <1>5, <1>6, Onward
  <1>7. CASE pc' = "upload"
    <2>1. Holding(d', screen', dirty') /\ Holding(d', screen', todo')
      BY <1>1, <1>2, <1>5, HoldsOn
    <2>2. ~AtRest' BY <1>7 DEF AtRest
    <2>3. /\ pc' # "policy" /\ pc' # "present" /\ pc' # "judge"
          /\ pc' \notin {"clear", "draw", "present"} /\ todo' \subseteq dirty'
      BY <1>1, <1>2, <1>7
    <2> QED BY <1>2, <2>1, <2>2, <2>3, Zenon DEF CurrentInv
  <1> QED BY <1>5, <1>6, <1>7

\* An upload that succeeds leaves one resource less to do, and its mirror
\* holds what is wanted; one that fails writes the mirror of a dirty resource.
LEMMA UploadCurrent ==
    ASSUME TypeOK, Inv, CurrentInv, NEW r \in Resource, Upload(r)
    PROVE  CurrentInv'
  <1>1. Sound(d) BY Zenon DEF Inv
  <1>2. screen[r] \in Value BY DEF TypeOK
  <1>3. PICK room \in Room(r) :
        LET x == IF Failed(room.hr) THEN room
                 ELSE IF r \in Texture THEN TextureWrite(room.d, r, screen[r])
                 ELSE BufferWrite(room.d, r, screen[r])
        IN  /\ d' = x.d
            /\ IF Failed(x.hr)
               THEN err' = TRUE /\ pc' = "judge" /\ UNCHANGED <<todo, dirty>>
               ELSE /\ todo' = todo \ {r}
                    /\ dirty' = IF r \in Texture THEN dirty \ {r}
                                ELSE IF todo \cap Buffer = {r} THEN dirty \ Buffer
                                ELSE dirty
                    /\ UNCHANGED <<err, pc>>
    BY Zenon DEF Upload
  <1> DEFINE w == BufferWrite(room.d, r, screen[r])
             x == IF Failed(room.hr) THEN room ELSE w
  <1>4. Sound(room.d) /\ Spares(d, room, r)
    <2>1. CASE r \in Texture
      <3>1. room = Result(d, "ok") \/ room \in TextureReplace(d, r)
        BY <1>3, <2>1, Zenon DEF Room
      <3>2. CASE room = Result(d, "ok")
        <4>1. room.d = d BY <3>2, ResultParts
        <4> QED BY <1>1, <4>1, Zenon DEF Spares
      <3>3. CASE room \in TextureReplace(d, r)
        BY <1>1, <3>3, TextureReplaceSound, Zenon DEF Call
      <3> QED BY <3>1, <3>2, <3>3
    <2>2. CASE r \notin Texture
      <3>1. PICK n \in 1..MaxSize : room \in BufferReserve(d, r, n)
        BY <1>3, <2>2, Zenon DEF Room
      <3>2. n \in 0..MaxSize BY BridgeAssumption
      <3> QED BY <1>1, <3>1, <3>2, BufferReserveSound, Zenon DEF Call
    <2> QED BY <2>1, <2>2
  <1>5. w.d.cpu[r].data = screen[r] /\ \A q \in Resource \ {r} : w.d.cpu[q] = room.d.cpu[q]
    BY <1>2, <1>4, BufferWriteSound, Zenon
  <1> HIDE DEF w
  <1>6. /\ \A q \in Resource \ {r} : x.d.cpu[q] = d.cpu[q]
        /\ ~Failed(x.hr) => x.d.cpu[r].data = screen[r]
    <2>1. CASE Failed(room.hr) BY <1>4, <2>1, Zenon DEF Spares
    <2>2. CASE ~Failed(room.hr)
      <3>1. x = w BY <2>2
      <3> HIDE DEF x
      <3> QED BY <1>4, <1>5, <3>1, Zenon DEF Spares
    <2> QED BY <2>1, <2>2
  <1>7. /\ d' = x.d
        /\ IF Failed(x.hr)
           THEN err' = TRUE /\ pc' = "judge" /\ UNCHANGED <<todo, dirty>>
           ELSE /\ todo' = todo \ {r}
                /\ dirty' = IF r \in Texture THEN dirty \ {r}
                            ELSE IF todo \cap Buffer = {r} THEN dirty \ Buffer
                            ELSE dirty
                /\ UNCHANGED <<err, pc>>
    BY <1>3, Zenon DEF w, TextureWrite
  <1> HIDE DEF x
  <1>8. /\ pc = "upload" /\ r \in todo /\ screen' = screen /\ sync' = sync
        /\ backend' = backend
    BY DEF Upload, content, fallback
  <1>9. /\ sync' /\ backend' = "d3d11" /\ todo \subseteq dirty /\ r \in dirty
        /\ \A q \in Resource \ dirty : d.cpu[q].data = screen[q]
        /\ \A q \in Resource \ todo : d.cpu[q].data = screen[q]
    BY <1>8 DEF CurrentInv, Holding
  <1>10. pc' # "policy" /\ pc' # "present" /\ pc' \notin {"clear", "draw", "present"}
         /\ ~AtRest' /\ (pc' = "judge" => err')
    BY <1>7, <1>8 DEF AtRest
  <1>11. CASE Failed(x.hr)
    <2>1. todo' = todo /\ dirty' = dirty /\ pc' = "judge" BY <1>7, <1>11
    <2>2. Holding(d', screen', dirty')
      BY <1>6, <1>7, <1>8, <1>9, <2>1, Zenon DEF Holding
    <2>3. pc' \notin {"target", "upload"} /\ todo' \subseteq dirty' BY <1>9, <2>1
    <2> QED BY <1>9, <1>10, <2>2, <2>3, Zenon DEF CurrentInv
  <1>12. CASE ~Failed(x.hr)
    <2>1. todo' = todo \ {r}
          /\ dirty' = IF r \in Texture THEN dirty \ {r}
                      ELSE IF todo \cap Buffer = {r} THEN dirty \ Buffer ELSE dirty
      BY <1>7, <1>12
    <2>2. \A q \in Resource \ (todo \ {r}) : x.d.cpu[q].data = screen[q]
      <3> SUFFICES ASSUME NEW q \in Resource \ (todo \ {r})
                   PROVE  x.d.cpu[q].data = screen[q]
        OBVIOUS
      <3>1. CASE q = r BY <1>6, <1>12, <3>1
      <3>2. CASE q # r
        <4>1. q \in Resource \ {r} /\ q \in Resource \ todo BY <3>2
        <4> QED BY <1>6, <1>9, <4>1
      <3> QED BY <3>1, <3>2
    <2>3. Holding(d', screen', todo') BY <1>7, <1>8, <2>1, <2>2 DEF Holding
    <2>4. \A q \in Resource \ (dirty \ {r}) : x.d.cpu[q].data = screen[q]
      BY <1>9, <2>2
    <2>5. todo' \subseteq dirty' /\ Holding(d', screen', dirty')
      <3>1. CASE r \in Texture
        <4>1. dirty' = dirty \ {r} BY <2>1, <3>1
        <4> QED BY <1>7, <1>8, <1>9, <2>1, <2>4, <4>1 DEF Holding
      <3>2. CASE r \notin Texture /\ todo \cap Buffer = {r}
        <4>1. dirty' = dirty \ Buffer BY <2>1, <3>2
        <4>2. \A q \in Resource \ dirty' : q \in Resource \ dirty \/ q \in Resource \ (todo \ {r})
          BY <3>2, <4>1
        <4>3. \A q \in Resource \ dirty' : x.d.cpu[q].data = screen[q]
          BY <1>9, <2>2, <4>2
        <4>4. todo' \subseteq dirty' BY <1>9, <2>1, <3>2, <4>1
        <4> QED BY <1>7, <1>8, <4>3, <4>4 DEF Holding
      <3>3. CASE r \notin Texture /\ todo \cap Buffer # {r}
        <4>1. dirty' = dirty BY <2>1, <3>3
        <4> QED BY <1>7, <1>8, <1>9, <2>1, <2>4, <4>1 DEF Holding
      <3> QED BY <3>1, <3>2, <3>3
    <2>6. pc' = "upload" BY <1>7, <1>8, <1>12
    <2>7. pc' # "judge" BY <2>6
    <2> QED BY <1>9, <1>10, <2>3, <2>5, <2>7, Zenon DEF CurrentInv
  <1> QED BY <1>11, <1>12

LEMMA BeginFrameCurrent ==
    ASSUME TypeOK, Inv, CurrentInv, BeginFrame
    PROVE  CurrentInv'
  <1>1. PICK x \in Recover(d) :
        /\ d' = x.d
        /\ err' = Failed(x.hr)
        /\ pc' = IF Failed(x.hr) THEN "judge" ELSE "clear"
    BY Zenon DEF BeginFrame
  <1>2. d'.cpu = d.cpu BY <1>1, RecoverSound, Zenon DEF Inv
  <1>3. /\ pc = "upload" /\ todo = {} /\ screen' = screen /\ dirty' = dirty
        /\ todo' = todo /\ sync' = sync /\ backend' = backend
    BY DEF BeginFrame, content, fallback
  <1>4. /\ sync' /\ backend' = "d3d11" /\ todo \subseteq dirty
        /\ Holding(d, screen, dirty) /\ Holding(d, screen, {})
    BY <1>3 DEF CurrentInv
  <1>5. CASE Failed(x.hr)
    <2>1. pc' = "judge" /\ err' BY <1>1, <1>5
    <2> QED BY <1>2, <1>3, <1>4, <2>1, Onward
  <1>6. CASE ~Failed(x.hr)
    <2>1. pc' = "clear" BY <1>1, <1>6
    <2>2. Holding(d', screen', dirty') /\ Holding(d', screen', {})
      BY <1>2, <1>3, <1>4, HoldsOn
    <2>3. ~AtRest' BY <2>1 DEF AtRest
    <2>4. /\ pc' # "policy" /\ pc' # "present" /\ pc' # "judge"
          /\ pc' \notin {"target", "upload"} /\ todo' \subseteq dirty'
      BY <1>3, <1>4, <2>1
    <2> QED BY <1>4, <2>2, <2>3, <2>4, Zenon DEF CurrentInv
  <1> QED BY <1>5, <1>6

\* A pass that succeeds leaves the mirrors to the next, and one that fails
\* ends the attempt with an error.
LEMMA PassCurrent ==
    ASSUME CurrentInv, NEW from \in {"clear", "draw"}, NEW x, x.d.cpu = d.cpu,
           NEW to \in {"draw", "present"}, Pass(from, x, to),
           to = "present" /\ ~Failed(x.hr) => x.d.targets[cur].pixels.of = screen
    PROVE  CurrentInv'
  <1>1. /\ pc = from /\ d' = x.d /\ screen' = screen /\ dirty' = dirty
        /\ todo' = todo /\ sync' = sync /\ backend' = backend /\ cur' = cur
    BY DEF Pass, content, fallback
  <1>2. pc \in {"clear", "draw"} BY <1>1
  <1>3. /\ sync' /\ backend' = "d3d11" /\ todo \subseteq dirty
        /\ Holding(d, screen, dirty) /\ Holding(d, screen, {})
    BY <1>1, <1>2 DEF CurrentInv
  <1>4. CASE Failed(x.hr)
    <2>1. pc' = "judge" /\ err' BY <1>4 DEF Pass
    <2> QED BY <1>1, <1>3, <2>1, Onward
  <1>5. CASE ~Failed(x.hr)
    <2>1. pc' = to BY <1>5 DEF Pass
    <2>2. Holding(d', screen', dirty') /\ Holding(d', screen', {})
      BY <1>1, <1>3, HoldsOn
    <2>3. ~AtRest' BY <2>1 DEF AtRest
    <2>4. /\ pc' # "policy" /\ pc' # "judge"
          /\ pc' \notin {"target", "upload"} /\ todo' \subseteq dirty'
      BY <1>1, <1>3, <2>1
    <2>5. pc' = "present" => d'.targets[cur'].pixels.of = screen'
      BY <1>1, <1>5, <2>1
    <2> QED BY <1>3, <2>2, <2>3, <2>4, <2>5, Zenon DEF CurrentInv
  <1> QED BY <1>4, <1>5

LEMMA ClearCurrent ==
    ASSUME TypeOK, Inv, CurrentInv, ClearTarget
    PROVE  CurrentInv'
  <1> DEFINE x == Clear(d, cur)
  <1>1. cur \in Target /\ Sound(d) BY DEF TypeOK, Inv
  <1>2. x.d.cpu = d.cpu BY <1>1, ClearSound, Zenon
  <1>3. Pass("clear", x, "draw") BY Zenon DEF ClearTarget
  <1> HIDE DEF x
  <1> QED BY <1>2, <1>3, PassCurrent

\* What is drawn is what the mirrors hold.
LEMMA DrawCurrent ==
    ASSUME TypeOK, Inv, CurrentInv, DrawPass
    PROVE  CurrentInv'
  <1> DEFINE x == Draw(d, cur)
             now == [r \in Resource |-> d.gpu[r].data]
  <1>1. cur \in Target /\ Sound(d) /\ (backend = "d3d11" => Agree(d))
    BY DEF TypeOK, Inv
  <1>2. pc = "draw" BY DEF DrawPass, Pass
  <1>3. d.last # cur /\ backend = "d3d11" /\ Holding(d, screen, {})
    BY <1>2 DEF Inv, CurrentInv
  <1>4. /\ x.d.cpu = d.cpu
        /\ ~Failed(x.hr) => /\ x.d.targets[cur].pixels.of = now
                            /\ ~d.pending /\ ~d.unavailable
    BY <1>1, <1>3, DrawSound, Zenon
  <1>5. Pass("draw", x, "present") BY Zenon DEF DrawPass
  <1>6. ~d.pending /\ ~d.unavailable => now = screen
    <2> SUFFICES ASSUME ~d.pending, ~d.unavailable PROVE now = screen
      OBVIOUS
    <2>1. \A r \in Resource : d.gpu[r] = CopyOf(d.cpu[r])
      BY <1>1, <1>3, Zenon DEF Agree, Uploaded
    <2>2. \A r \in Resource : d.cpu[r].data = screen[r]
      BY <1>3 DEF Holding
    <2>3. \A m : CopyOf(m).data = m.data BY Zenon DEF CopyOf
    <2>4. \A r \in Resource : d.gpu[r].data = screen[r] BY <2>1, <2>2, <2>3
    <2>5. screen \in [Resource -> Value] BY DEF TypeOK
    <2> QED BY <2>4, <2>5
  <1> HIDE DEF x, now
  <1>7. ~Failed(x.hr) => x.d.targets[cur].pixels.of = screen BY <1>4, <1>6
  <1> QED BY <1>4, <1>5, <1>7, PassCurrent

\* A presentation that does not fail shows it, or the window does not.
LEMMA PresentCurrent ==
    ASSUME TypeOK, Inv, CurrentInv, RestoreFails = FALSE, Present
    PROVE  CurrentInv'
  <1>1. /\ cur \in Target /\ Sound(d) /\ d.targets[cur].made /\ minimised \in BOOLEAN
        /\ d.targets[cur].pixels.whole
    BY DEF TypeOK, Inv, Present
  <1>2. PICK x \in PresentTarget(d, cur, TRUE, minimised) :
            d' = x.d /\ healthy' = ~Failed(x.hr)
    BY DEF Present
  <1>3. Call(d, x) /\ x.d.cpu = d.cpu /\ (~minimised => Drawn(d, cur, x))
    <2>1. Call(d, x) /\ Unwritten(d, x.d) /\ (~minimised => Drawn(d, cur, x))
      BY <1>1, <1>2, PresentTargetSound, Zenon
    <2> QED BY <2>1, Zenon DEF Unwritten
  <1>4. /\ pc = "present" /\ pc' = "judge" /\ screen' = screen /\ dirty' = dirty
        /\ todo' = todo /\ sync' = sync /\ backend' = backend /\ minimised' = minimised
    BY DEF Present, content, frame, fallback
  <1>5. /\ sync' /\ backend' = "d3d11" /\ todo \subseteq dirty
        /\ Holding(d, screen, dirty) /\ d.targets[cur].pixels.of = screen
    BY <1>4 DEF CurrentInv
  <1>6. healthy' => d'.occluded \/ minimised' \/ OnScreen'
    <2> SUFFICES ASSUME healthy', ~d'.occluded, ~minimised PROVE OnScreen'
      BY <1>4
    <2>1. d'.committed /\ d'.front = d.targets[cur].pixels
      BY <1>2, <1>3, Zenon DEF Drawn
    <2>2. d'.swapchain /\ d'.graph.live
      <3>1. Sound(d') BY <1>2, <1>3, Zenon DEF Call
      <3> QED BY <2>1, <3>1, CommittedShows, Zenon
    <2> QED BY <1>1, <1>4, <1>5, <2>1, <2>2 DEF OnScreen
  <1>7. Holding(d', screen', dirty') BY <1>2, <1>3, <1>4, <1>5, HoldsOn
  <1>8. ~AtRest' BY <1>4 DEF AtRest
  <1>9. /\ pc' # "policy" /\ pc' # "present" /\ pc' \notin {"target", "upload"}
        /\ pc' \notin {"clear", "draw", "present"} /\ todo' \subseteq dirty'
    BY <1>4, <1>5
  <1> QED BY <1>5, <1>6, <1>7, <1>8, <1>9, Zenon DEF CurrentInv

\* A failed attempt is made again, or leaves a draw due.
LEMMA JudgeFailureCurrent ==
    ASSUME TypeOK, Inv, CurrentInv, JudgeFailure
    PROVE  CurrentInv'
  <1> DEFINE n == IF Counts THEN Counted ELSE failures
  <1>1. pc = "judge" /\ Attempted(n) BY Zenon DEF JudgeFailure
  <1> HIDE DEF n
  <1>2. \/ (FallBackFails \/ NoFallBack) /\ Later
        \/ UNCHANGED <<d, fallback, rebuilt>> /\ Later
        \/ /\ attempt' = 2 /\ err' = FALSE /\ pc' = "recover"
           /\ UNCHANGED <<d, content, dirty, todo, seen, cur, sync, healthy, paint, retry,
                          fallback>>
    BY <1>1, Zenon DEF Attempted
  <1>3. sync /\ backend = "d3d11" BY <1>1 DEF CurrentInv
  <1>4. CASE Later
    <2>1. /\ pc' = "idle" /\ todo' = {} /\ retry' = TRUE /\ screen' = screen
          /\ dirty' = dirty
      BY <1>4 DEF Later, EndFrame, Kept
    <2>2. d'.cpu = d.cpu
      <3>1. CASE FallBackFails \/ NoFallBack BY <3>1, GoesOn, Zenon DEF Passed
      <3>2. CASE UNCHANGED <<d, fallback, rebuilt>> BY <3>2
      <3> QED BY <1>2, <2>1, <3>1, <3>2
    <2> QED BY <2>1, <2>2, Onward
  <1>5. CASE /\ attempt' = 2 /\ err' = FALSE /\ pc' = "recover"
             /\ UNCHANGED <<d, content, dirty, todo, seen, cur, sync, healthy, paint, retry,
                            fallback>>
    <2>1. d' = d /\ screen' = screen /\ dirty' = dirty /\ todo' = todo /\ sync' = sync
          /\ backend' = backend
      BY <1>5 DEF content, fallback
    <2> QED BY <1>3, <1>5, <2>1, Onward
  <1> QED BY <1>2, <1>4, <1>5

LEMMA JudgeSuccessCurrent ==
    ASSUME CurrentInv, JudgeSuccess
    PROVE  CurrentInv'
  <1>1. /\ pc = "judge" /\ ~err /\ healthy /\ pc' = "idle" /\ todo' = {}
        /\ retry' = d.occluded /\ d' = d /\ screen' = screen /\ dirty' = dirty
        /\ minimised' = minimised
    BY DEF JudgeSuccess, EndFrame, Kept
  <1>2. d.occluded \/ minimised \/ Lost \/ OnScreen BY <1>1, Zenon DEF CurrentInv
  <1>3. AtRest' /\ ~minimised' => Lost' \/ OnScreen'
    <2>1. (Lost <=> Lost') /\ (OnScreen <=> OnScreen') BY <1>1 DEF Lost, OnScreen
    <2>2. AtRest' => ~d.occluded BY <1>1 DEF AtRest
    <2> QED BY <1>1, <1>2, <2>1, <2>2
  <1>4. Holding(d', screen', dirty') BY <1>1 DEF CurrentInv
  <1>5. /\ pc' # "policy" /\ pc' # "present" /\ pc' \notin {"target", "upload"}
        /\ pc' \notin {"clear", "draw", "present"} /\ todo' \subseteq dirty'
        /\ pc' \in {"policy", "idle"} /\ pc' # "judge"
    BY <1>1
  <1> QED BY <1>3, <1>4, <1>5, Zenon DEF CurrentInv

\* What happens to the pane between frames asks for a draw, unless it hides
\* it; a resource that is written is dirty.
LEMMA PaneCurrent ==
    ASSUME TypeOK, CurrentInv,
           \/ \E r \in Resource, v \in Value : Write(r, v)
           \/ \E n \in 1..MaxSize : Resize(n)
           \/ \E empty \in BOOLEAN : Minimise(empty)
           \/ Expose
           \/ \E reload \in BOOLEAN : NeedFeature(reload)
    PROVE  CurrentInv'
  <1>1. ASSUME NEW r \in Resource, NEW v \in Value, Write(r, v)
        PROVE  CurrentInv'
    <2>1. /\ pc = "idle" /\ pc' = "idle" /\ d' = d /\ todo' = todo /\ paint' = TRUE
          /\ screen' = [screen EXCEPT ![r] = v] /\ dirty' = dirty \cup {r}
      BY <1>1 DEF Write, Between
    <2>2. Holding(d, screen, dirty) /\ todo \subseteq dirty BY <2>1 DEF CurrentInv
    <2>3. Holding(d', screen', dirty')
      <3>1. \A q \in Resource \ dirty' : q \in Resource \ dirty /\ q # r BY <2>1
      <3>2. \A q \in Resource \ {r} : screen'[q] = screen[q] BY <2>1 DEF TypeOK
      <3>3. \A q \in Resource \ dirty' : d'.cpu[q].data = screen'[q]
        BY <2>1, <2>2, <3>1, <3>2 DEF Holding
      <3> QED BY <3>3, Zenon DEF Holding
    <2>4. ~AtRest' BY <2>1 DEF AtRest
    <2>5. /\ pc' # "policy" /\ pc' # "present" /\ pc' \notin {"target", "upload"}
          /\ pc' \notin {"clear", "draw", "present"} /\ todo' \subseteq dirty'
          /\ pc' \in {"policy", "idle"} /\ pc' # "judge"
      BY <2>1, <2>2
    <2> QED BY <2>3, <2>4, <2>5, Zenon DEF CurrentInv
  <1>2. CASE \/ \E n \in 1..MaxSize : Resize(n)
             \/ Minimise(FALSE)
             \/ Expose
             \/ \E reload \in BOOLEAN : NeedFeature(reload)
    <2>1. /\ pc' = "idle" /\ d' = d /\ screen' = screen /\ dirty' = dirty
          /\ todo' = todo /\ paint'
      BY <1>2 DEF Resize, Minimise, Expose, NeedFeature, Between, content
    <2> QED BY <2>1, Onward
  <1>3. CASE Minimise(TRUE)
    <2>1. /\ pc = "idle" /\ pc' = "idle" /\ d' = d /\ screen' = screen /\ dirty' = dirty
          /\ todo' = todo /\ minimised'
      BY <1>3 DEF Minimise, Between
    <2>2. Holding(d', screen', dirty') /\ todo \subseteq dirty BY <2>1 DEF CurrentInv
    <2>3. /\ pc' # "policy" /\ pc' # "present" /\ pc' \notin {"target", "upload"}
          /\ pc' \notin {"clear", "draw", "present"} /\ todo' \subseteq dirty'
          /\ pc' \in {"policy", "idle"} /\ pc' # "judge"
      BY <2>1, <2>2
    <2> QED BY <2>1, <2>2, <2>3, Zenon DEF CurrentInv
  <1> QED BY <1>1, <1>2, <1>3

\* A bridge that has aged shows what it showed.
LEMMA AgedCurrent ==
    ASSUME CurrentInv, Aged(d, d'), d'.occluded = d.occluded, d'.graph.live = d.graph.live,
           Lost => Lost', UNCHANGED <<content, dirty, todo, frame, pc, healthy, paint, retry,
                                      backend>>
    PROVE  CurrentInv'
  <1>1. /\ screen' = screen /\ minimised' = minimised /\ dirty' = dirty /\ todo' = todo
        /\ cur' = cur /\ sync' = sync /\ err' = err /\ pc' = pc /\ healthy' = healthy
        /\ paint' = paint /\ retry' = retry /\ backend' = backend
    BY DEF content, frame
  <1>2. /\ d'.cpu = d.cpu /\ d'.targets = d.targets /\ d'.swapchain = d.swapchain
        /\ d'.front = d.front
    BY Zenon DEF Aged
  <1>3. OnScreen => OnScreen' BY <1>1, <1>2, Zenon DEF OnScreen
  <1>4. AtRest' => AtRest BY <1>1 DEF AtRest
  <1>5. \A S : Holding(d, screen, S) => Holding(d', screen, S) BY <1>2, HoldsOn
  <1>6. \A S : Holding(d, screen, S) => Holding(d', screen', S) BY <1>1, <1>5
  <1>7. /\ pc' = "policy" => paint'
        /\ pc' \notin {"policy", "idle"} => sync' /\ backend' = "d3d11"
        /\ todo' \subseteq dirty'
        /\ pc' = "present" => d'.targets[cur'].pixels.of = screen'
    BY <1>1, <1>2 DEF CurrentInv
  <1>8. /\ Holding(d', screen', dirty')
        /\ pc' \in {"target", "upload"} => Holding(d', screen', todo')
        /\ pc' \in {"clear", "draw", "present"} => Holding(d', screen', {})
    BY <1>1, <1>6 DEF CurrentInv
  <1>9. /\ pc' = "judge" /\ ~err' /\ healthy'
             => d'.occluded \/ minimised' \/ Lost' \/ OnScreen'
        /\ AtRest' /\ ~minimised' => Lost' \/ OnScreen'
    BY <1>1, <1>3, <1>4 DEF CurrentInv
  <1> QED BY <1>7, <1>8, <1>9, Zenon DEF CurrentInv

LEMMA LossCurrent ==
    ASSUME TypeOK, CurrentInv, LoseDevice \/ InvalidateGraph \/ Calm \/ Tick
    PROVE  CurrentInv'
  <1>1. d \in Bridge /\ d.graph \in Graph BY Fields DEF TypeOK
  <1>2. UNCHANGED <<content, dirty, todo, frame, pc, healthy, paint, retry, backend>>
    BY DEF LoseDevice, InvalidateGraph, Calm, Tick, fallback
  <1>3. ASSUME LoseDevice \/ Calm \/ Tick
        PROVE  /\ Aged(d, d') /\ d'.occluded = d.occluded /\ d'.graph = d.graph
               /\ d.gone => d'.gone
    BY <1>1, <1>3, Zenon DEF Bridge, Aged, LoseDevice, Calm, Tick
  <1>4. ASSUME InvalidateGraph
        PROVE  /\ Aged(d, d') /\ d'.occluded = d.occluded /\ d'.graph.live = d.graph.live
               /\ Lost => Lost'
    <2> DEFINE g == [d.graph EXCEPT !.valid = FALSE]
    <2>1. g \in Graph /\ g.made = d.graph.made /\ g.live = d.graph.live /\ ~g.valid
      BY <1>1, Zenon DEF Graph
    <2>2. d' = [d EXCEPT !.graph = g] BY <1>4 DEF InvalidateGraph
    <2> HIDE DEF g
    <2>3. /\ Aged(d, d') /\ d'.occluded = d.occluded /\ d'.graph = g /\ d'.gone = d.gone
      BY <1>1, <2>2, Zenon DEF Bridge, Aged
    <2> QED BY <2>1, <2>3, Zenon DEF Lost
  <1>5. /\ Aged(d, d') /\ d'.occluded = d.occluded /\ d'.graph.live = d.graph.live
        /\ Lost => Lost'
    <2>1. CASE LoseDevice \/ Calm \/ Tick BY <1>3, <2>1, Zenon DEF Lost
    <2>2. CASE InvalidateGraph BY <1>4, <2>2
    <2> QED BY <2>1, <2>2
  <1> QED BY <1>2, <1>5, AgedCurrent

LEMMA NextCurrent ==
    ASSUME TypeOK, Inv, CurrentInv, RestoreFails = FALSE, Syncs = {TRUE}, Next
    PROVE  CurrentInv'
  <1>1. CASE SetPolicy BY <1>1, PolicyCurrent
  <1>2. CASE Paint BY <1>2, PaintCurrent
  <1>3. CASE FrameStep
    <2>1. CASE EnterFallback BY <2>1, EnterFallbackCurrent
    <2>2. CASE RecoverFirst BY <2>2, RecoverFirstCurrent
    <2>3. CASE SkipEmpty BY <2>3, SkipEmptyCurrent
    <2>4. CASE PresentRetained BY <2>4, PresentRetainedCurrent
    <2>5. CASE Prepare BY <2>5, PrepareCurrent
    <2>6. CASE ReplaceTarget BY <2>6, ReplaceTargetCurrent
    <2>7. CASE \E r \in Resource : Upload(r) BY <2>7, UploadCurrent
    <2>8. CASE BeginFrame BY <2>8, BeginFrameCurrent
    <2>9. CASE ClearTarget BY <2>9, ClearCurrent
    <2>10. CASE DrawPass BY <2>10, DrawCurrent
    <2>11. CASE Present BY <2>11, PresentCurrent
    <2>12. CASE JudgeFailure BY <2>12, JudgeFailureCurrent
    <2>13. CASE JudgeFallback
      <3>1. FallBack BY <2>13 DEF JudgeFallback
      <3> QED BY <3>1, FallBackCurrent
    <2>14. CASE JudgeSuccess BY <2>14, JudgeSuccessCurrent
    <2> QED BY <1>3, <2>1, <2>2, <2>3, <2>4, <2>5, <2>6, <2>7, <2>8, <2>9, <2>10,
               <2>11, <2>12, <2>13, <2>14 DEF FrameStep
  <1>4. CASE Environment BY <1>4, PaneCurrent, LossCurrent DEF Environment
  <1>5. CASE Tick BY <1>5, LossCurrent
  <1> QED BY <1>1, <1>2, <1>3, <1>4, <1>5 DEF Next

LEMMA StutterCurrent ==
    ASSUME CurrentInv, UNCHANGED vars
    PROVE  CurrentInv'
  BY DEF CurrentInv, Holding, AtRest, Lost, OnScreen, vars

\* A pane with no draw due shows what its terminal holds, unless its window is
\* empty or its device or graph was lost since: for any number of resources,
\* for every way a call may fail, in whatever order.  It is about panes whose
\* paints all pass sync, as the program's do, and whose failed detach can be
\* undone.
THEOREM SettledCurrent ==
    ASSUME RestoreFails = FALSE, Syncs = {TRUE}
    PROVE  Spec => []SettledIsCurrent
  <1>1. Init => TypeOK /\ Inv /\ CurrentInv BY InitInv, InitCurrent
  <1>2. TypeOK /\ Inv /\ CurrentInv /\ [Next]_vars => (TypeOK /\ Inv /\ CurrentInv)'
    <2>1. ASSUME TypeOK, Inv, CurrentInv, Next PROVE (TypeOK /\ Inv /\ CurrentInv)'
      BY <2>1, NextInv, NextCurrent
    <2>2. ASSUME TypeOK, Inv, CurrentInv, UNCHANGED vars
          PROVE  (TypeOK /\ Inv /\ CurrentInv)'
      BY <2>2, StutterInv, StutterCurrent
    <2> QED BY <2>1, <2>2
  <1>3. CurrentInv => SettledIsCurrent
    BY Zenon DEF CurrentInv, SettledIsCurrent, LostAtRest, Lost
  <1> QED BY <1>1, <1>2, <1>3, PTL DEF Spec
=============================================================================
