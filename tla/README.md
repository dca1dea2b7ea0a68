# Noctty: a TLA+ model of its concurrent and transactional core

Noctty is a Windows terminal written in Zig (`src/src/`), built on a terminal
emulation core and an application layer for Windows. These modules model the
parts of it whose correctness depends on the order in which things happen: the
threads behind one terminal and the mailboxes between them, the app's mailbox
inside native message loops, a search that runs beside the user interface, the
undo history of tabs and splits, a pane drawn by a graphics stack that fails and
loses its device, an install that replaces itself across processes and crashes,
and the lossy channel from the terminal to screen readers. TLC model-checks them on small instances; TLAPS proves the most
important safety properties for every value of the constants.

Contents

1. Inventory: the system's parts
2. The modules and the code they model
3. The runs: what is checked, with which bounds and which fairness
4. What is proved
5. Where the code and what is said of it disagree
6. Only model-checked; not modelled
7. How the project was built, and what would come next

Paths start at the checkout, whose own source directory is `src/src/`.

## 1. Inventory

### Parts that carry the control logic

| Part | Code | State | Operations | Talks to | Hard because of |
|---|---|---|---|---|---|
| Blocking queue | `src/src/datastruct/blocking_queue.zig` | ring of values, indices, length, count of waiters, mutex, `cond_not_full` | `push` (instant, forever, forever_unless, ns), `pop`, `drain` iterator | every thread | lost wakeups, barging producers, spurious wakes, a drain that frees many slots and signals once |
| Surface threads | `src/src/Surface.zig`, `src/src/termio/{mailbox,Thread,Exec,Termio,stream_handler}.zig`, `src/src/renderer/Thread.zig`, `src/src/terminal/search/Thread.zig` | four mailboxes, the async handles that wake their consumers, the terminal lock `renderer_state.mutex`, the flags `io.stopping` and `Search.stopping` | sends, drains, parsing a chunk of output, drawing, search start and end, start, failed start, teardown | one another | waiting in a cycle, waiting with the lock held, a missed wake, joins against sends, use after teardown |
| App mailbox and modal ticks | `src/src/App.zig`, `src/src/apprt/win32/app.zig`, `src/src/apprt/win32.zig` | mailbox, the deferred list with its read index, one overflow message, the rest of a modal batch | `push` and its wake, `tick`, `tickModal`, the native message loops that call them | every thread, Windows message loops | reentrancy (a handler opens a menu, whose loop ticks), order across nested loops, allocation failure, backpressure |
| Search generations | `src/src/Surface.zig`, `src/src/terminal/search/{Thread,query_search}.zig`, `src/src/renderer/Thread.zig` | `search_generation`, the search thread's query and what it reported, what bar and renderer show | set query, navigate, invalidate, end; report, forward, apply | app, search and renderer threads | results that arrive after the user moved on |
| Shell model | `src/src/apprt/win32_shell/{model,reducer,runtime,ids}.zig` | tabs, split trees, focus, retained IDs, records of transfers | one reducer per intent, prepare / validate / commit | native tabs | two copies of one truth; preparation and commit apart |
| Structural history | `src/src/apprt/win32_structural_history.zig`, `src/src/apprt/win32/{host,terminal_window,app}.zig` | undo and redo lists whose entries own live panes | close tab, split, drop tab, undo, redo, expire, evict, clear | shell model, native tabs | long sequences; entries that outlive what they name; one step of several that fails |
| Direct3D renderer | `src/src/renderer/d3d11/{bridge.c,composition.cpp,Frame.zig,buffer.zig}`, `src/src/renderer/{Direct3D11,Windows,generic}.zig` | device, copies of every buffer and texture in memory and on the GPU, targets, the target last drawn, swapchain, composition graph, recovery and retry deadlines; failures counted, fallback wanted or blocked | begin, recover, create, write, clear, draw, present, present again, suspend; one frame; fall back to OpenGL | UI thread (draws), renderer thread (asks for draws), Direct3D, DirectComposition | any call may fail, the device may go between any two calls; what was reported as done must survive it; retries against deadlines |
| Portable update | `src/src/update/{github_releases,portable_apply}.zig` | `update-state.json` with a phase and a token, two lock files, backup with its marker, displaced directory, installed files | request, preflight, helper, backup, swap, confirm, roll back, clean up; the update check | file system, other noctty processes | a crash at any step, several processes, stale reads, a timeout against a late answer |
| Frame pacing | `src/src/renderer/Pacer.zig` | owed updates and repaints, three timers, synchronized output | wake, timer, presented | renderer thread | what is owed must be presented |
| Terminal output transport | `src/src/apprt/surface.zig`, `src/src/termio/{Termio,semantic_output_capture}.zig` | interest epoch, ring of chunks, trailing reset, omission mark | capture, push (try-lock), drain, interest on and off | pty reader, accessibility session | lossy by design, and losses must be told; two atomics read and changed beside a mutex; sessions that come and go |
| Settings transaction | `src/src/apprt/win32_settings_transaction.zig` | drafts, base, pending apply, conflicts | edit, external change, apply, result | settings window, file watcher | stale base, apply racing a change on disk |
| Startup recovery | `src/src/apprt/win32_recovery.zig` | bounded ledger on disk | begin, mark, merge | other processes | concurrent read-modify-write, crash |
| App message delivery | `src/src/apprt/win32/app_delivery.zig` | list of owned payloads, posted messages | post, take, drop | producer threads, app window | ownership when a post fails |
| Session state | `src/src/apprt/win32_session_state.zig`, `win32_session_persistence.zig`, `win32/session.zig` | snapshot of windows, file | save, load, who may replace the file | file system | atomic replace |
| Single-instance IPC | `src/src/apprt/win32_ipc.zig`, `win32/ipc_server.zig` | pipe server | authenticate, forward | other processes | mostly Windows' own protocol |

Other parts, which are sequential or adapters: terminal emulation (`Terminal`,
`Screen`, `PageList`, the parser), page memory (`bitmap_allocator`,
`ref_counted_set`, `hash_map`), the search engine's matching, tmux control mode,
pty/ConPTY and child process, fonts, OpenGL, configuration and key
bindings, program status, clipboard writing, containers, text undo, UI
Automation, notifications, the jump list, default-terminal handoff.
`PROJECT.json` lists each with the reason it is not modelled.

### How the parts interact

```
   child --> pty reader ----------------.  parses under the terminal lock
                |  |                    |
   reports,     |  | reset_cursor_blink |
   messages     |  v                    v
      .---------|--> renderer mailbox --> renderer thread
      |         |                           ^  ^
      |         |          draw, visibility |  | search matches
      v         v                           |  |
   app mailbox -----> app (UI) thread ------'  |
      ^    ^              |       |            |
      |    |   writes,    v       v queries    |
      |    |   resizes  IO mailbox  search mailbox
      |    |              |               |
      |    '--- exit, --- IO thread    search thread --- results --.
      |        failures                                            |
      '------------------------------------------------------------'
```

* The **app thread** runs the Windows message loop, drains the app mailbox
  (`App.tick`, and `App.tickModal` inside native loops), sends to the other
  three mailboxes, draws, ends searches, and tears surfaces down: it stops and
  joins the search, IO and renderer threads in that order.
* The **IO thread** drains its mailbox on an event loop; handlers take the
  terminal lock. It starts the **pty reader** and joins it when it leaves.
* The **pty reader** reads chunks of output and parses them with the terminal
  lock held. What it reports goes to the app mailbox, and to the IO and the
  renderer mailbox; full ones make it give the lock back while it waits.
* The **renderer thread** drains its mailbox, and copies the terminal's state
  under the lock; the **search thread** searches under the lock.
* A wake is an `xev.Async` notification or a posted window message. It is
  remembered, but not counted.
* The **shell model** is changed on the app thread only. A change is prepared
  on a copy, the native side is changed, the copy is committed; native calls in
  between may dispatch focus messages that change the model themselves.

* A pane's **frame** runs on the UI thread under the renderer's draw mutex: the
  generic renderer uploads what changed, draws into a target, and the C bridge
  copies that to the swapchain. A failed or lost frame is tried again once, then
  on the next draw, which the renderer thread asks for every 250 ms while one is
  owed; after three failures, or when recovery gave up, OpenGL is tried.
* An **update** crosses processes: the window that is asked for it only records
  it; the next launch starts a copy of itself, the helper, which replaces the
  files, starts the new build and watches it. They share one state file, a lock
  on it held for one change, and a lock that the launch holds until it ends and
  the helper for as long as it works.

* The **pty reader** also captures the text it parses for a screen reader's session, if one
  listens, and pushes it to the output transport without ever waiting for it; the UI thread
  drains it when a frame is asked for, when the session's timer fires, and whenever a client asks.

### What makes the parts correct

* Queue: no accepted value is lost, repeated or reordered; no push that must
  wait is refused; nobody sleeps on a queue nobody will pop.
* Threads: no wait with the lock held; no wait in a cycle; closing always ends;
  nothing uses what closing freed; no message waits unseen.
* App mailbox: messages are handled in the order of sending; in a native loop the first
  safe one is, past unsafe ones only; no message waits without a wake to come.
* Search: bar and highlights follow the query last asked for.
* Shell and history: native tabs and model agree; every running program is
  visible or retained by exactly one entry; undo brings back what was there;
  refusals have named causes.
* Direct3D: whatever was lost, what is drawn is what was last written; a frame
  that is presented again is whole; a pane with nothing due shows its terminal;
  recovery is bounded and respects the user's choice.
* Update: there is a way back from the first replaced file to the last; only a
  whole install is confirmed or closed; one process writes at a time; every
  update comes to an end, and noctty opens meanwhile.
* Output transport: a session hears the text in order; it is told of what is missing before
  it hears anything newer; it forgets where the terminal was reset; it hears nothing
  that was captured for another session.

## 2. The modules and the code they model

| Module | Models | Proofs | Run by |
|---|---|---|---|
| `BoundedFifo` | what a mailbox promises (abstract) | | |
| `BlockingQueue` | `blocking_queue.zig` | `BlockingQueueProofs` | itself |
| `SurfaceThreads` | five threads, four mailboxes, one lock | `SurfaceThreadsProofs` | `MCSurfaceThreads` |
| `SearchEvents` | a search's queries and results | `SearchEventsProofs` | `MCSearchEvents` |
| `MailLine` | what the app mailbox promises (abstract) | | |
| `ModalMailbox` | `App.tick`, `tickModal` and the message loops | `ModalMailboxProofs` | `MCModalMailbox` |
| `PaneTree` | split trees | | |
| `ShellModel` | the shell model's reducers and validation | | |
| `StructuralHistory` | native tabs, shell model, undo and redo | | `MCStructuralHistory` |
| `D3DBridge` | `bridge.c` and `composition.cpp`, call by call | `D3DRendererProofs` | `MCD3DRenderer` |
| `D3DRenderer` | a pane's frames, retries and fallback, over the bridge | `D3DRendererProofs` | `MCD3DRenderer` |
| `PortableUpdate` | applying an update across processes | `PortableUpdateProofs` | `MCPortableUpdate` |
| `OutputTransport` | `TerminalOutputTransport`, the reader that pushes and the session that drains | `OutputTransportProofs` | `MCOutputTransport` |

`PROJECT.json` maps every definition to the lines it models. `BlockingQueue`
implements `BoundedFifo`; `SurfaceThreads` and the modules after it build on
that and treat a push as one step. `ModalMailbox` implements `MailLine`.
`StructuralHistory` extends `ShellModel`, which extends `PaneTree`; `D3DRenderer`
extends `D3DBridge`.

Definitions marked MUTANT (or "fault") are plausible bugs that no action uses.
Substituting one for the definition it varies makes TLC report the property
named with it in `PROJECT.json`: they show that each property can fail.

### BlockingQueue

A push or pop is a critical section of the queue's mutex, hence one step. A
push that waits is three: it enters the wait and frees the mutex
(`PushWaits`), it is woken by a signal, spuriously, or by its timeout
(`WakeUnsignalled`, `Expire`), and it gets the mutex back (`Resume`) to find
room (`ResumePut`), a reason to give up (`ResumeRefused`), or neither
(`ResumeWaits`). In between other producers may run. A signal wakes any one
waiter. `drain()` holds the mutex until `deinit()` (`DrainBegin`, `DrainNext`,
`DrainEnd`) and signals once. `ns` pushes may time out at any time; time itself
is not modelled. `accepted`, `refused` and `delivered` are history variables.

### SurfaceThreads

`pc[t]` says where a thread is; `job[t]` describes the send it is in: to which
mailbox, what a full one means (drop, wait, wait until a flag is set), whether
the sender holds the terminal lock, where it goes on. Sends share their steps:
`try` pushes without waiting first (`termio.Mailbox.send`,
`surfaceMessageWriter`), `hint` notifies the consumer first (renderer and search
`send`), `wait` only pushes. Before it waits, a sender of the first kind wakes
the consumer and gives the lock back, and takes it again afterwards, in the
order the two functions differ in (`AfterPush`). Only the number of messages in a
mailbox is kept: a handler is a choice among what handlers do.

App: `AppInput` and `AppHandles` send; `AppDraws` reports a change of the
renderer's health; `StartSearch`, `EndSearch` and `Close` with `Stop`,
`JoinSearch`, `JoinIo`, `JoinRen` are the life cycle. IO: `IoEnters`, or
`IoFails` before or after the reader was started; `IoHandles`, `IoLocks`; timers;
`ChildExits`; `IoStops` cancels the reader's read until the reader is gone
(`CancelRead`, `JoinReader`). Reader: check, read, take the lock, parse and report,
unlock, notify. Renderer: drain, read the terminal, ask for a repaint. Search:
drain, step under the lock, report.

The reader leaves its cursor-blink message in the renderer mailbox without a
notification until it has parsed its chunk. The code's senders rely on a mailbox
of 64 not to be filled by one such message; `BoundsAssumption` states it as
`Cap["ren"] > 1`.

### SearchEvents

A result is abstracted to the query it is of. Each of the three places that
compare generations is a step apart from the place that acts on the comparison:
`searchCallback` and its push (`ThreadEmits`, `ThreadPushes`), the app thread's
`handleMessage` (`AppHandles`), the renderer's `drainMailbox` (`RenChecks`,
`RenApplies`). Mailboxes are unbounded here, since waiting is SurfaceThreads'
subject. The terminal's content is fixed, so every query is reported once.
`Fails` is `endIfFailed`: at the end of any step, of a new query, a navigation or a
slice, a pattern in `Failing` may have failed; the query ends, and one cleared report takes the
place of what the step had to say. `replacing` is a history variable: the user has only
replaced valid queries by valid queries, and none has failed.

Allocation does not fail. In the code a valid query that memory runs out for ends the one
before it with a clear; if there is none before it, it starts nothing and reports nothing
(`changeQuery` in `src/src/terminal/search/query_search.zig`), and the bar keeps what it showed.

### ModalMailbox

The UI thread is a stack of at most three activities, each a variable: the main
loop's dispatch or the handler of an outer tick, a native loop inside it
(`native`), and a modal tick inside that (`modal`). `OuterBegins` to
`OuterHandled` are `App.tick` and its drain: deferred messages by index, then
the overflow message, then the mailbox. `ModalBegins` to `ModalEnds` are
`tickModal`: flush the overflow, take up to a batch, handle the safe ones,
defer the others; `ModalRefused` is a modal tick inside a modal tick, which does
nothing. Growing the deferred list may fail at any time. A producer pushes and
posts its wake in two steps. A modal tick is also called for messages that
deliver something else (`OtherDelivery`).

### PaneTree, ShellModel, StructuralHistory

A tree is a function from leaf paths to panes. The shell model is a record;
reducers are operators that return a record, or `Refused`, which is none of a model's
records; `Prepare` is the runtime's copy, reduce, validate. The native side is `tabs` and `front`; `undo` and
`redo` hold entries; `alive` are the panes that exist. Everything runs on the UI
thread, so an operation is one step, with two exceptions, where a native call
between prepare and commit dispatches a focus message: closing a pane and redoing
the close of the tab in front have a parameter `noted`, the pane that message
names. Each action composes the operation's whole code: clear or push,
native change, commit, the model's effects on the native focus, activation.

An entry lives on one of the two lists and changes phase with it: a close entry
owns its tab on the undo list, a split entry owns its pane on the redo list, a
drop entry (`move`) owns the source tab's identity while applied and the trees of
both sides' other state. The model, too, retains what an entry may bring
back: `kept`, `keptPanes`, `moves`. `Dispose` gives up both halves.

One window is modelled. Split ratios, axis and zoom, text undo within a pane, and
running out of memory are left out; a split's direction is kept as the order of
its sides. A resize only clears the history.

### D3DBridge, D3DRenderer

The bridge is one record, the struct `NocttyD3D` with everything it owns, and each
exported function is an operator: from a bridge to a new bridge and an HRESULT, or
to the set of them when Direct3D may answer in several ways (`Answers`). HRESULTs
are kept as far as `record_result` tells them apart. What a buffer or texture
holds is one value; a resource has a copy in memory (`cpu`) and one on the device
(`gpu`); a frame is the values it was drawn from, and whether it was drawn whole.
A device can be lost behind the bridge's back (`gone`), which only the next
`GetDeviceRemovedReason` tells. The composition graph has its tree (root and
content), what a commit made visible (`live`), and its own loss (`valid`).
Deadlines are kept as the ticks left until they pass.

`D3DRenderer` is the loop around it: `pc` says where the UI thread is in a frame.
`Paint` to `EnterFallback` is the head of `Windows.drawFrame`; `RecoverFirst` to
`Present` are `generic.drawFrame` with one step per call into the bridge, so that
the device may be lost between any two; `JudgeFailure`, `JudgeFallback`,
`JudgeSuccess` is what `Windows.drawFrame` makes of the attempt. `dirty` is what
the renderer still has to upload: cells are clean once all of them are, an atlas
once it is. Writes, resizes, minimising, exposure and features that Direct3D lacks
come between frames. `Calm` is the assumption of the liveness property: from there
on the graphics stack does what it is asked. Once OpenGL has taken over the model
stops but for time, as the code never goes back.

Left out: a failing `CheckDeviceState` call and `GetClientRect`, the second state
check after a commit (it can fail only by a loss that the model has happen right
after), statistics and test tools, contents of shaders and vertex data, a frame in
several passes (they are drawn together), other frames in flight (the backend has
one).

### PortableUpdate

The shared state is what is on disk: `saved` (phase, token, whether a stage is
named), `tree` (which build each managed entry is of), `backup` and `manifest` (the
`.complete` marker, taken with the hashes it holds), `displaced` (the `share`
directory moved aside), and who holds the two lock files. A process is a record: where
it is, which build it runs, the token it was started with, what it read of the state,
and for a helper what it has still to handle and how the build it started is doing.

`Load` to `Clean` are `preflightPortableUpdateStartup` with every place where it
reads, locks and reads again a step of its own; `Confirm` to `Confirming` are
`confirmPortableUpdateStartup`, `RequestApply`, `Check` and `DropForeign` what a
window does. `Claim` to `KidEnded` are the helper: waiting for the launch lock, the
backup entry by entry with the marker last, the phase saved before the first file
is replaced, each file at once and `share` in two renames, the new build started
and watched. `MarkRollback` to `Recover` are the ways back. A helper waits for the
launch that started it: its launch is over when the launch lock is free.

`HelperFault`, `ShareStuck`, `ReturnStuck`, `LaunchFault`, `AppFault` and
`RecoverStuck` are operations that fail; `Crash` ends any process anywhere and
frees its locks, as Windows does; `LoseBackup` is somebody who deletes the stage.
All of them count against `MaxFaults`. Entries are replaced in any order but
`noctty.exe` last; the code's order is one of these. Versions are of whole entries
but for `share`, which may be torn while it is copied.

Left out: staging (`Init` is a state with a stage), the 30 s wait for the
parent, which counts as a failing step of the helper if it times out, a clean-up
that fails (logged only), a state file that cannot be parsed.

### OutputTransport

Two threads. `reader` says where the pty reader is and what it has still to push; `ui` where
the UI thread is and what a drain has taken. `interest` is `interest_state`, odd while a
session listens, so that its value names the session; `pending` is `omission_pending`; `ring`
and `trailing` are the chunks and the reset behind them. Every atomic load, store and
exchange is a step of its own: `CheckEpoch`, `ReadPending`, `ReadCurrent`, `RemoveMark`,
`Mark`, `Claim` are those of `pushSemanticBatchForEpoch`, `omissionPendingForEpoch` and
`markOmissionForEpoch`, which meet three times in a push (`at`: on the way in, under the
mutex, when a mark is made). What only the holder of the mutex can see is done at once:
`Fill` puts in what fits, `Empty` and `Take` take everything out. `LoseInterest`,
`TakeInterest`, `Empty`, `Unmark`, `BeginEpoch` are `setInterested`; `Drain`, `Take`, `Swap`,
`UiUnlocks`, `TellChunk`, `TellEnd` are `drain` and its callback.

A capture is a number of chunks before a reset, whether there is one, a number after it, and
whether it was cut short; the two parts of one with a reset between its bytes are two
pushes. `made` and `told` are history variables: what was captured, for which session, and
what a session was told.

Left out: the bytes of a chunk and how they are cut at UTF-8 boundaries; `push` and its two
shorter forms, which only tests call; what the session makes of an item; and when a drain
is asked for: a read wakes the renderer only if there is something to draw now
(`shouldWakeRendererAfterOutput`, `src/src/termio/Termio.zig:1391`), a timer and a client's
query come when they come, so in the model a drain may begin at any time and need never begin.

## 3. The runs

TLC finishes each passing run; the numbers are distinct states. No run names a `TypeOK`:
those of the modules with proofs are proved, and in `StructuralHistory` the bound of the
lists, the phases of their entries and the range of the tab in front are part of
`PanesAccounted` and `MappingAgrees`.

| Run | Bounds | States | What it shows |
|---|---|---|---|
| `queue` | 2 producers, 2 values, capacity 2, 4 pushes | 204 thousand | no lost wakeup, justified refusals, FIFO, every wait ends |
| `surface_end` | one slot (renderer two), 3 sends or chunks | 544 thousand | closing a surface and ending a search always end; lock discipline, nothing used after it is freed, no lost wake |
| `surface_send` | the same, 4 sends or chunks | 554 thousand | the app thread's sends return |
| `search_all` | 3 generations, 1 navigation, 2 patterns, one of which may fail, and 1 invalid | 6.75 million | bar and highlights follow the query |
| `modal` | 4 messages (1 safe, 2 unsafe, 1 quit), 2 slots, batch 1 | 97 thousand | one line in the order of sending, nobody stranded, everything handled |
| `shell` | 3 panes, 3 tabs, 2 history entries | 54 thousand | model, native tabs and history agree; undo reverts |
| `d3d_resources` | one buffer, one texture, two targets, two contents, one size; one tick to every window, one failure before OpenGL | 1.68 million | what is drawn, kept, committed and recovered is right under every loss and failure |
| `d3d_frames` | one buffer, two sizes, an empty client area | 1.56 million | a pane with nothing due shows its terminal |
| `d3d_recovers` | one buffer, one size, failures and bad arguments, calm | 436 thousand | the pane shows its terminal, or OpenGL does, in the end |
| `portable` | 3 processes, 3 entries, 2 requests, 1 fault | 354 thousand | backup, whole installs, one writer, and an end to every update |
| `portable_feed` | the same, 1 request, no fault, one change of feed | 25 to the violation | section 5 |
| `output` | ring of 2, 4 items captured by 7 kinds of read, 2 sessions | 323 thousand | order, gaps, resets, sessions; no push waits for the UI thread |

### What the properties say

`queue`. `NobodyStranded`: while a producer sleeps and nobody holds the mutex, the
queue is not empty or a woken producer is on its way. `RefusalJustified`:
`.forever` is never refused, `.forever_unless` only once its flag is set.
`ImplementsFifo`: the refinement of `BoundedFifo`. `BlockedReturns` and
`FlagReleases`: waits end. Two producers are what barging needs: one wakes, the
other takes its slot. Capacity 2 with four pushes wraps the ring and lets a drain
free two slots with both producers asleep.

`surface_*`. `LockDiscipline`: nobody waits, for room or for a thread, with the
terminal lock held, and the reader has it again when it parses on.
`NothingUsesFreed`: once the surface is closed all its threads have gone, and no
send to a search mailbox outlives its thread. `NoLostWake`: a message in a mailbox
has a consumer that is draining, was notified, or is about to be. `JoinsFinish`,
`SendReturns`: these waits end. With mailboxes of one slot one
message fills a mailbox, and three or four sends fill those of a cycle of two
threads and block both. Larger mailboxes only make the same waits rarer.
`Events` selects what may happen in a run. `surface_end` allows what can block a teardown,
`surface_send` what leaves `SendReturns` true: no searches, child exit, failing start or
health reports, with each of which it is false (section 5). The three invariants are also
proved, for all happenings but failing handlers or for all: a failed handler ends a drain
(`Thread.zig:404`) and the rest waits for the next wakeup, so `NoLostWake` is false with them.

`search_all`. `BarFollows`: any change of the bar is of the current query or a
clear. `ResultsCurrent`: when nothing is under way, the bar's
total and the highlights are those of the query that runs, and that is the one asked
for, unless it is invalid or its pattern may fail; then it may be none. `ReplacedCurrent`: while
valid queries replace each other and none fails, the selected match and the lists are current
or empty; section 5 has what stays if one fails. Three generations are an old query, its replacement, and one that overtakes
a message of the replacement.

`modal`. `ImplementsLine`: the refinement of `MailLine`, whose line is the deferred list
from the read index on, the overflow and the mailbox, in this order. `NotStranded`: no message
loop waits with a non-empty mailbox and no wake to come. `NothingLeftDeferred`: the
main loop never waits with deferred messages. `KeepsMoving`: an open menu does not
stop the producers. `AllHandled`: once native loops end, everything is handled. The
batch of 1 is exhausted by each message; two slots and four messages block
producers.

`shell`. `MappingAgrees`: native tabs, order, trees, front tab and its focus equal the
model's. `PanesAccounted`: a pane exists if and only if one tab shows it or one
entry holds it. `RetainedIsHeld`: the model is valid and retains exactly what
entries may bring back. `UndoReverts`: undoing a change just made shows what was
there. `RoundTrips`: undo then redo, or the reverse, changes nothing; an undo needs for
this that nothing newer was lost to a clear that got stuck (section 5).
`RefusalsExplained`: a clear of the history gets stuck, and a drop is refused by the
model, exactly in one case each (section 5); expiry always lets entries go and the redo
list can always be cleared. Two history entries show
eviction, and every order of two kinds; three panes show nested splits, a drop on a
split tab and a tab behind.

`d3d_*`. `MirrorsAgree`: a bridge that is neither waiting for recovery nor given up has
on the device what was last written to it, although a write during a loss reports
success without having reached one. `RetainedFrameWhole`: the target that may be
presented again exists, has a texture, and was drawn in full. `CommittedIsAttached`:
`composition_committed` implies a swapchain and a graph whose content is visible, or
is known to be lost. `OneProbePerWindow`: recoveries that follow one another try
hardware once. `NeverGoesBack`: a bridge that gave up shows nothing new, and no recovery
takes hardware when software is forced. `SettledIsCurrent`: with no draw due or owed, nothing
minimised and no loss that nobody could have noticed yet, the window shows exactly the
contents the terminal last wrote. `Recovers`: after `Calm` the same comes about, or
OpenGL takes over. A loss while nothing is due is noticed at the next draw only
(`LostAtRest`); both properties say so. One tick in each window makes every deadline
both pending and passed; two targets are the old and the new one of a resize; with two
contents an old frame differs from the current one. `RestoreFails` is FALSE in the
runs: see section 5. All paints pass `sync = true`, as every Win32 paint does today;
`d3d_resources` also lets a paint pass FALSE, which takes the path that presents a frame
again.

`portable`. `BackupCovers`: whenever files may have been replaced there is a complete
backup of the old build. `PhaseIsTrue`: the recorded phase says no more of the install
than is so: with no update under way it is one build's, a confirmed one is all new, and
while it is swapped a new noctty.exe stands in a whole new install. `RolledBackIsOld`:
a rollback ends with the old build. `OneWriter`: two processes are never both between
taking the launch lock and having finished with the files. `Resolves`: every update
ends. Three processes are a helper, the build it watches, and a launch that comes in
between; two requests let what an earlier update left behind meet the next one. Larger
safety instances were explored with symmetry (`Places`): three processes with two faults
(218 thousand states), four with one (3.2 million), without an error.

`output`. `NoSilentGap`: what a session hears comes in the order of printing, and whatever was
printed for it before that it has heard before, or it was told of an omission and has heard
only newer text since. `ResetsInPlace`: between two texts it hears without an omission there is a
reset exactly if the terminal had one between them. `TrueToEpoch`: text that a session hears
was captured for it, and an omission it is told of is of its own output. `PushEnds`: every push
ends, whatever the UI thread does in between and even if it stops there, with the mutex held or
an epoch just ended: the reader's try-lock and its loops over the mark never wait for it. `MaxEpoch` of 3 lets a session end, with a push under
way, and another begin; four items on a ring of two are a ring that is full, a push that fills it
in part, and what comes after the gap.

### Fairness

* `BlockingQueue`: a woken producer gets the mutex in the end even if others take it
  in between (strong fairness of `Resume`), and a drain, which is a loop over a
  finite list, is closed (weak fairness of `DrainEnd`). The liveness properties state
  what more they need: a consumer that takes values; the 10 ms poll.
* `SurfaceThreads`: each thread that can go on by itself does, one weak fairness
  condition per thread. Nothing obliges the user to act, the child to write, read or
  exit, or a timer to fire. Weak fairness is enough because `MaxWork` bounds the sends
  that could keep a mailbox full, the lock taken, or a thread awake, for ever.
* `ModalMailbox`: a producer posts the wake it owes; ticks proceed, with strong
  fairness since a handler may open one native loop after another. A native loop
  need not end.
* `D3DRenderer`: the UI thread takes the steps of a frame, a draw that is due is made,
  and time passes between frames however many there are (strong fairness of `Tick`,
  since a frame may always be under way). Nothing obliges the terminal or the graphics
  stack to do anything.
* `PortableUpdate`: a process that is not ended goes on; the user opens noctty again and
  closes it; locks are served in turn, so a helper that waits gets its turn; and two
  launches do not for ever probe the launch lock at the same instant, which makes each
  take the other for a helper (strong fairness of a probe and of a lock taken).

* `OutputTransport`: the pty reader finishes the push it began, for nothing it does waits.
  Nothing is assumed of the UI thread, which may stop anywhere, and nothing makes the child
  write or a session come, go or ask.

### Deadlock

The `d3d`, `portable` and `output` runs check it. The others say `CHECK_DEADLOCK FALSE`: pushes,
sends, generations and messages are bounded, so a run that has used its bound stops with
everything idle, and the window of `StructuralHistory` may be gone. The liveness
properties find the deadlocks that matter: a thread that waits for ever.

## 4. What is proved

TLAPS checks every obligation of seven modules. The theorems hold for all values of
the constants that satisfy the stated assumptions.

### BlockingQueueProofs

Assumptions: a positive capacity, finitely many producers, `Undef` is no value.
`QueueInv` adds to the types what ties the ring to the history: the ring between
`read` and `write` holds the accepted values not yet delivered, in order
(`RingInv`); `not_full_waiters` is the number of producers inside the wait, each with
a value to push, and only an `ns` push expires (`WaitInv`). It is inductive
(`QueueInvariant`), with one lemma for a put, one for a get and one per kind of step.

* `TypeCorrect` follows from it.
* `RefusalsJustified` and `NobodyIsStranded` take an induction each on top of it. The
  second: whoever falls asleep leaves a full queue, and whoever takes from a queue with
  waiters counted signals one, which the exact count makes a real sleeper.
* `QueueImplementsFifo`: the refinement of `BoundedFifo`; the count of accepted but
  undelivered values is `len`, so a put accepts within the capacity and a get
  delivers the next accepted value.

### SurfaceThreadsProofs

Assumptions: every mailbox has a slot, the renderer's two. The inductive invariant
`IInv` is `TypeOK` and

* `SendInv`: a send goes on where its thread may go on, and only the app thread and
  the reader, when it parses, send with the lock held;
* `LockInv`: who has the lock is in a send's non-waiting part or parsing, and a
  reader that sends from the parser has it except while it gave it back;
* `EndInv`: the order in which threads end: IO is gone before the renderer is
  stopped, the reader before IO is gone, the search first of all.

`LockDiscipline` alone is not inductive: it says nothing of a sender that is
about to wait. Theorems: `Inductive`, `TypeCorrect`, `LockDisciplined`,
`NothingIsUsedFreed`.

`NoWakeIsLost` assumes besides that no handler fails, and takes an induction on top of `IInv`.
`NoLostWake` alone is not inductive: it counts every thread that is about to take the lock
again as one that will notify, but only a send to the IO thread notifies after that. The
invariant `AttendInv` says so (`Promises`), and bounds what the reader owes by where it is
(`Debts`): it has notified the IO thread before it gives the lock back, and owes the
renderer at most when it gets to it.

### SearchEventsProofs

No assumption beyond the module's: any queries, failures, changes and navigations. The set of messages
that may be on their way depends on the generation: `Reports` and `Orders` ask of one
that carries the generation in force that it is of the query asked for. Then the invariant
says that each mailbox is a sequence over its set (`OnTheWay`), and that the query the
search thread works on, if it has the last it was told, is the one asked for or none (`Running`). A new
generation only makes the sets larger, since nothing on its way carries it yet
(`NewGeneration`); that is what the generation is for.

* `TypeCorrect` follows from the invariant.
* `TheBarFollows`: only an accepted report or a clear changes the bar (`AppStep`).

What is shown in the end needs a second invariant, since a report that is dropped by generation
says nothing of what replaces it. `RInv` follows what is *last* on its way. An event counts if it
carries the generation in force, and no thread drops one that does (`Counts`); the last that
counts of a kind, in the report being sent, in flight, in the app mailbox, in the renderer's,
accepted, or, if none is on its way, what is shown, must be what is wanted (`Follows`). What is
wanted is a result of `Answer`: of the query that runs, once the thread has taken the one asked
for, and of the one asked for until then. A query that fails changes what is wanted to none, and
its clear is what is last on the way (`FailsStep`, `Failed`). That
holds except while the query asked for has not reached the search thread, has not been reported
by it, or the search is being ended (`Due`, `FollowInv`). Three parts make it inductive:

* `OrderInv`: of the orders that wait, the query in force is the last query; once the thread has
  taken it, no query waits and the thread works on it, or on none if it cannot run or may fail. Without it a `select` behind a stale
  query could be taken for the report that is due.
* `LiveInv`: no report that counts is on its way before the thread has taken the query in force,
  nor after the search was ended, so one that is taken out is never refused by `stopping`.
* `ReplaceInv`: while queries only replace each other, an event of each other kind that counts is
  to come, or what is there is not another query's (`Coming`). It holds because a query that
  replaces another reports every field again, and a first one finds nothing shown (`Untouched`).

`LastIsAsked` proves `RInv` with one lemma per part (`OrderKept`, `LiveKept`, `FollowKept`,
`ReplaceKept`), over lemmas on what each report counts for (`ClearedCounts`, `FullCounts`,
`FirstCounts`) and on what remains of a sequence when its head is taken or something is appended
(`CountsTail`, `CountsAppend`). TLC found `RInv` invariant on `MCSearchEvents` first.

* `ResultsAreCurrent` and `ReplacedAreCurrent`: with nothing under way, what was to come has
  arrived (`RestArrived`).

### ModalMailboxProofs

Assumptions: finitely many messages, positive slots and batch.

* `TypeCorrect`: among others only unsafe messages are deferred, only safe ones are
  handled in a modal tick, the read index stays within the deferred list.
* `NeverStranded`: the invariant extends `NotStranded` to the ticks in between: a
  non-empty mailbox has a wake posted, owed, or a modal tick running.
* `NoneLeftDeferred`: with how activities nest (`Nested`), that what is deferred was
  sent (`AllSent`, which relates it to `Quitting`), and that outside dispatch and
  tick nothing is deferred (`Emptied`).
* `MailboxIsOneLine`: the refinement of `MailLine`, step by step, from the type invariant.
  Whichever of its three sources the outer tick takes a message from, it is the first of
  the line (`OuterTakesFirst`); what a modal tick takes from behind the deferred messages
  is the first safe one, and deferring, or failing to, moves a message across a joint of
  the line and leaves the line as it is (`ModalTakesSafe`). The lemmas before them are
  facts about concatenation.

### D3DRendererProofs

Assumptions: two targets at least, buffers that are no textures, positive sizes and gaps.
What a call may answer is any set of failures: the theorems hold whatever the
graphics stack does.

The first part has one lemma for each operation of the bridge: from a sound bridge each
result is sound, and what the caller relies on is kept. `Sound` is the part of the
invariant about the bridge alone: the retained frame (`Retained`), the graph and what was
committed (`GraphSound`), the budget of probes (`ProbesSound`: one probe at most since the
deadline was set, and the deadline passes before the window does). `Steady` is what no
step may undo; `Agree` says that a bridge that draws has on the device what its mirrors hold.

The second part lifts them to the pane: `Inv` adds `Agree` while Direct3D is used, and
that the frame's target exists, is not the retained one while it is drawn and is whole when
it is presented. Neither
`MirrorsAgree` nor `RetainedFrameWhole` is inductive alone: a copy is only right if no
upload of it failed without notice, and a retained target only whole if every path that
empties a target clears the pointer.

* `Invariance`, `PaneTypes`: the invariant and the types.
* `MirrorsAgreeTheorem`, `RetainedFrame`, `OneProbe`, `GoesNotBack`.
* `Attached`: assumes `RestoreFails = FALSE`; without it the statement is false (section 5).
* `SettledCurrent`: `SettledIsCurrent`, under the same assumption and `Syncs = {TRUE}`, which
  is what every paint of the program passes; without either the statement is false.
  `CurrentInv` follows a frame on its way to the window. The mirrors of resources that are not
  dirty hold what the terminal wrote; in a frame, those of the resources not yet uploaded
  (`Holding`); once a frame has begun, all of them. A pass draws the copies, which are the
  mirrors (`Agree`), so the frame presented is the terminal's, and a presentation that does
  not fail shows it, or the window is hidden (`Drawn`), or the device is lost meanwhile. Every
  other way out, a failure, a skipped frame, a recovery, a fall back that did not succeed,
  ends with a retry or a paint due, or with OpenGL (`Onward`).

### PortableUpdateProofs

Assumption of every theorem: no process uses another feed while an update is under way
(`FeedKept`); `portable_feed` and section 5 show what happens otherwise. Any number of processes, files, requests and faults. The
inductive invariant `IInv` has four parts:

* `Record`: an update under way names its stage, this feed and the latest token;
* `Store`: a backup with its marker is complete and of the old build, and missing only if
  somebody deleted it while an update was open;
* `Install`: with a stage and no swap begun every file is the old build's; and `PhaseIsTrue`;
* for each process (`Local`) what holds where it is: `Locked`, who works holds the launch
  lock; `Backs`, a backup is made for a pending update under the state lock; `Swaps`, a swap
  knows exactly which entries it has replaced, noctty.exe last; `Rolls`, a rollback goes on
  only over a record that says so, or one that was given up for want of a backup; `Confirms`,
  a token in hand is older than a pending request, and belongs to a whole new install if
  it is that of a swapped one.

None of the properties is inductive alone: that a process which has read an older state
does no harm rests on tokens, locks and phases together. Two kinds of step recur. One that
leaves what is shared alone (`Steps`) only needs that the place reached asks nothing. One
of the helper at work (`WorkStep`, `SwapStep`, `UndoStep`) may change the files because
nobody else holds the launch lock, and of what is asked of the others only what they may
confirm depends on the files.

* `TypeCorrect`, `BackupIsThere`, `PhaseHolds`, `AloneAtWork` follow from the invariant.
* `RollbackIsWhole`: only `Restored` closes a rollback whose backup is there, after comparing
  every file with it (`VerifiedIsOld`).

### OutputTransportProofs

Assumptions: a ring of one chunk at least, captures with something in them. `IInv` gives
every item that was captured one of a few places, and says in which order they come:

* `Control`: who holds the mutex and what each thread knows. A reader that has seen its
  epoch under the mutex may find that it has ended, not that another began (`EpochInv`,
  which is what `setInterested`'s lock between the two is for); only the reader makes marks, and one
  of its own epoch is not there when it claims it (`MarkInv`);
* `MadeInv`, `PartsInv`: what the reader has still to push is the end of what was captured,
  of its epoch, and ends with text, a reset or the note that it was cut short;
* `PlaceInv`, `OrderInv`: what is in the ring, in a drain's hands and told are of what was
  captured for the session, each place older than the next, and all of it older than what is
  not decided yet;
* `LossInv`: a mark, an omission in hand and one that was told of stand for an item of that
  epoch that is not to be had any more. It stays so: only `Fill` puts items in, and only
  undecided ones (`LossKept`);
* `GapInv`: an item of the present session that is missing was told of, with only newer text
  told or kept after it, or the drain holds its omission and everything in the ring is newer,
  or it is marked, or about to be, and everything kept is older.

`NoSilentGap` is not inductive alone, since it says nothing of text before it is told. The
third case of `GapInv` is the delicate one: a reader that could not get the lock has still to mark
what it dropped, and between the drop and the mark nothing newer may get into the ring. It
cannot, because the one reader marks before it returns (`Dropping`). The proof has a
lemma for the effect of each action (`CheckEpochEffect` and so on), then one for each part of the
invariant, with a step per action.

* `NeverSilent`, `OfItsEpoch`. `OfItsEpoch` needs `LossInv`, too: an omission is of the epoch
  in which something was lost.
* `ResetsKeepPlace` states `ResetsInPlace`, from a second invariant, `RInv`, on top of the first.
  A reset is printed between two items and becomes a flag: of the chunk behind it, of the ring
  (`trailing`) or of the drain. `FlowInv` follows the way from the last text told through the
  drain's chunks and the ring to the first item not decided yet (`Frontier`), and says of any two
  texts that follow one another on it: there is a flag between them exactly where a reset was
  printed, unless an omission is under way there too. The exceptions are where the argument
  is: a part that did not fit leaves a flag for items that are gone, but then its mark is made
  before anything newer is kept (`Held`); a part that was enqueued without chunks leaves its reset
  as the trailing one, and the next part's chunk takes it over (`FillFlow`); and what a reader
  still holds for a session that ended is no reset of the present one (`Stale`). `DataInv`,
  `LeftInv` and `ResetParts` are what the flow stands on; `ResetsTold` is what it leaves behind.

## 5. Where the code and what is said of it disagree

One run shows a disagreement; the others were shown by runs of the same modules, whose
properties and constants are named here, and are not repeated by every check.

1. `portable_feed` (`src/src/update/github_releases.zig:679`). An update check against
   another feed forgets the stage, takes no lock and leaves the apply's phase. If a swap is
   unconfirmed, or confirmed and not yet cleaned up, the record has a phase and no stage:
   every later launch fails its preflight (`src/src/update/github_releases.zig:1446`) and
   exits (`src/src/main_ghostty.zig:75`), although "Updater bookkeeping must not be able to
   stop the terminal from opening" (`src/src/apprt/win32/app.zig:1638`).
2. `IoSendReturns` with `Events = {"io_fail"}` (`src/src/termio/Thread.zig:338`). After a
   failed start the IO thread runs its loop again "so that messages are drained", with
   nothing registered in it: it returns at once and the thread exits. Nobody drains the IO
   mailbox any more, and a `.forever` send hangs the app thread once it is full.
3. `IoSendReturns` with `Events = {"child_exit"}`, four sends (`src/src/termio/Exec.zig:505`).
   The IO thread reports the child's exit by waiting for room in the app mailbox. If the
   app thread waits for room in the IO mailbox at that moment, neither goes on before the
   surface closes, which only the app thread could do.
4. `DrawReturns` with `Events = {"health"}` (`src/src/renderer/generic.zig:2313`). A frame
   that changes the renderer's health reports it with `.forever`; on Windows the app thread
   draws, and it alone drains that mailbox.
5. `SelectionCurrent` of `SearchEvents`, without invalid patterns
   (`src/src/Surface.zig:8184`). The clear sent by the end of a search carries a generation;
   a new query that follows at once makes it stale, and the new thread's first report clears
   nothing: the ended search's selected match stays highlighted. A pattern that fails at
   run time does the same without an end (`src/src/terminal/search/query_search.zig:157`,
   `ReplacedCurrent` without its condition that none fails). The failed query is reported by
   "one clear, then idle"; if the user has typed on meanwhile, that clear is of an old
   generation and is dropped, and the next query, though it replaced the failed one on screen,
   starts as a first one: its report need not carry rows or a selection, and those of the
   last query that had some stay in the bar and highlighted. An invalid query whose clear is
   overtaken does it too.
6. `AuditPasses` of `StructuralHistory` (`src/src/apprt/win32_shell/reducer.zig:420`). Drop
   a tab on a split one, undo, focus the other pane of the split tab, redo, undo: the model
   restores the focus of the time of the drop, the native side that of the redo. The app's
   own audit (`src/src/apprt/win32/app.zig:6447`) compares the two.

The three of `SurfaceThreads` need `FairSpec`, slots of one and two sends unless it says
four.

Two limits of the history, which `RefusalsExplained` names and shows to be the only
ones at which an entry or a change is refused. A clear is newest first; if a tab was the target of a drop and was then closed,
the clear asks the model to discard the tab before the drop, which it refuses, and until
the entries expire every change that must clear first is refused: closing a pane,
moving or dragging a tab, closing the tabs beside, resizing. What the stuck clear disposed
is missing to the entries that are older: with more panes and tabs than the run has, the
redo of a split whose pane was split again may put the panes in another order, and the undo
of a drop is refused for as long as the dropped tab's place is beyond the strip
(`src/src/apprt/win32_shell/reducer.zig:409`), because the closes of the tabs before it were
disposed. `Undisturbed` excludes just these. And a drop asks the model before
it clears the history (`src/src/apprt/win32/host.zig:3584`), so a tab whose undone drop is
still in the history cannot be dropped again.

With a search open, `SendReturns` is false too: the app thread may wait for the search
mailbox while the search thread waits for the app mailbox, both full. The
search thread drains its mailbox only between reports. This is listed as a hazard.

Of the Direct3D renderer. `restore_after_failed_detach` ignores the results of the calls
that put root and content back (`src/src/renderer/d3d11/composition.cpp`); with
`RestoreFails = TRUE` such a failure leaves a composition that counts as committed and
shows nothing, and `CommittedIsAttached` fails. And a paint with `sync = false` after frames
that failed may present the old frame again, if the window was empty in between, for an empty
window's frame counts as a success and ends the retries; no caller on Windows makes one.

Of the portable update, all of them explored with the module as it is.

* `src/docs/windows.md` says that a swap still unconfirmed at a later launch is rolled
  back. A later launch of the new build whose payload is intact goes on instead, and
  confirms.
* A launch that read "swapped" before the build it meets confirmed still starts a helper
  that rolls back, and `launchPortableHelper` lets it roll back a confirmed update. The
  result is whole (`RolledBackIsOld`), only older than it need be.
* A request whose stage was dropped stays `pending`: launches go on beside it.
* The check of item 1 writes back the whole state it read. If an update began or went on in
  between, that does not only lose the stage: the phase and the token of the update under
  way are overwritten by older ones. `DropForeign` does so, and `FeedKept` excludes it.
* `RequestApply` makes the comparison of the feeds and the recording one step and has one
  feed for all processes. In the code each process compares the feed of its own
  configuration (`src/src/apprt/win32/app.zig:3494`, `src/src/update/github_releases.zig:970`),
  then verifies the stage, and records afterwards. What is shown and proved of the update
  therefore holds if no process uses another feed around an update.
* "Concurrent starts must not clean or roll back its backup while it is watching"
  (`src/src/update/github_releases.zig:1503`) holds within one update. A launch that decided
  to clean up after one update and was held up over the next finalizes the next's
  confirmation while its helper watches; nothing is lost, since it was confirmed.
* A rollback helper that was held up the same way may give up a new request that is
  still pending.

Of the output transport. Text that was captured while the terminal holds its frames back
(synchronized output), or by a read that left nothing to draw, wakes nobody: it waits in the
ring for the next read that has something to draw, the session's timer or a client's
question. So nothing is promised of when a session hears a text, only of what it hears.

## 6. Only model-checked; not modelled

Model-checked only: all liveness properties (TLAPS does not prove liveness under
fairness); and everything about shell model and history, whose lists are emptied and
expired by folds: what a fold does to every list needs induction over data.

`PROJECT.json` lists what is not modelled, with reasons. In short: terminal emulation, fonts,
OpenGL and shaders, configuration and input are sequential, large and about contents; IPC,
handoff, pty and accessibility are protocols of Windows.

Most of the C in the tree is not the program's: of its 30 thousand lines nearly all are
vendored image loaders, generated COM proxies, headers of the embedding interface and the
configuration of a vendored libintl. The program is Zig. The two files of C and C++ it
does have, `renderer/d3d11/bridge.c` and `composition.cpp`, are modelled; the rest has no
state to model.

Not modelled within the modelled parts: allocation failure except that of the deferred
list; failure of `PostMessageW`, which takes a thread message queue with 10000
messages; several surfaces or windows at once; the content of messages.

## 7. How the project was built, and what would come next

Written in this order: queue, surface threads, app mailbox, search generations, shell model
and history, Direct3D renderer, portable update, output transport. Each part's abstract specification, where
it has one, came with it, and its proofs after TLC agreed with its invariant.

What a next step would model, most important first:

1. Frame pacing (`renderer/Pacer.zig`, `terminal/render_dirty.zig`): owed updates and
   repaints, three timers, synchronized output. Promise: what is owed is presented, and no
   frame shows half of a synchronized update.
2. The settings transaction (`apprt/win32_settings_transaction.zig`): no draft is lost, none
   wins silently over a change on disk.
3. The recovery ledger (`apprt/win32_recovery.zig`) and the delivery of owned payloads
   (`apprt/win32/app_delivery.zig`).

And what it would prove: that the tree operators of `PaneTree` keep a tree's panes but for the
one that is added or removed, and that the reducers of `ShellModel` keep the model valid: what the
invariants of the history rest on, apart from the folds.
