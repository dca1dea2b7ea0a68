--------------------------- MODULE SurfaceThreads ---------------------------
(***************************************************************************)
(* The five threads that serve one terminal surface and the four bounded   *)
(* mailboxes between them:                                                 *)
(*                                                                         *)
(*   app      the UI thread: drains the app mailbox, sends to the others,  *)
(*            ends searches and tears the surface down (Surface.deinit)    *)
(*   io       termio/Thread.zig: drains the IO mailbox                     *)
(*   reader   the pty reader that termio/Exec.zig starts and joins         *)
(*   ren      renderer/Thread.zig: drains the renderer mailbox             *)
(*   search   terminal/search/Thread.zig: runs while a search is open      *)
(*                                                                         *)
(* A mailbox is a BlockingQueue, which BlockingQueueProofs shows to be a   *)
(* bounded FIFO, so a push is one step here, possible while there is room. *)
(* Only the number of messages matters: what can go wrong is who waits for *)
(* whom, so a message's handler is a choice among what handlers do.        *)
(*                                                                         *)
(* Threads wake each other through xev.Async handles (for the app thread,  *)
(* a posted window message), which remember that they were notified but    *)
(* not how often: wake[q].                                                 *)
(***************************************************************************)
EXTENDS Naturals

CONSTANTS
    Cap,        \* Cap[q]: the slots of mailbox q (64 in the code)
    MaxWork,    \* bound: how many sends may begin and chunks be read
    Events      \* which of the optional happenings below may occur

AllEvents == {"output",        \* the child writes
              "timers",        \* the IO thread's timers fire
              "search",        \* the user searches
              "child_exit",    \* the IO thread reports that the child exited
              "adopted_eof",   \* the reader does, of an adopted session
              "io_fail",       \* the IO thread fails to start
              "handler_error", \* a message handler fails
              "health"}        \* a frame changes the renderer's health

ASSUME EventsAssumption == Events \subseteq AllEvents

Threads == {"app", "io", "reader", "ren", "search"}
Queues  == {"app", "io", "ren", "search"}      \* each named for its consumer

\* The reader leaves one message in the renderer mailbox until the end of a
\* chunk before it notifies the renderer (reset_cursor_blink). A send that
\* only notifies before it waits relies on that not filling the mailbox.
ASSUME BoundsAssumption == /\ Cap \in [Queues -> Nat \ {0}]
                           /\ Cap["ren"] > 1
                           /\ MaxWork \in Nat

VARIABLES
    len,            \* messages in each mailbox
    wake,           \* wake[q]: its consumer has been notified
    stop,           \* stop[q]: its consumer has been told to stop
    lock,           \* the holder of renderer_state.mutex, or "free"
    stopping,       \* io.stopping
    searchStopping, \* Search.stopping
    owed,           \* mailboxes the reader must notify after this chunk
    pc,             \* where each thread is
    job,            \* the send each thread is in
    work            \* sends begun and chunks read so far

vars == <<len, wake, stop, lock, stopping, searchStopping, owed, pc, job, work>>

\* A send to mailbox `to`. `style` says what a full mailbox means for it:
\*   "never"    drop the message          "forever"  wait for room
\*   "unless"   wait until `flag` is set
\* `held`: the sender holds the terminal lock. `next`: where it continues.
Returns == {"idle", "drain", "parse", "exited", "report"}
Jobs == [to : Queues, style : {"never", "forever", "unless"},
         flag : {"none", "stopping", "searchStopping"},
         held : BOOLEAN, next : Returns]

Idle == [to |-> "app", style |-> "never", flag |-> "none",
         held |-> FALSE, next |-> "idle"]

Flag(f) == CASE f = "stopping" -> stopping
             [] f = "searchStopping" -> searchStopping
             [] OTHER -> FALSE

Init == /\ len  = [q \in Queues |-> 0]
        /\ wake = [q \in Queues |-> q = "ren"]
        /\ stop = [q \in Queues |-> FALSE]
        /\ lock = "free"
        /\ stopping = FALSE
        /\ searchStopping = FALSE
        /\ owed = {}
        /\ pc = [t \in Threads |-> CASE t = "io" -> "start"
                                     [] t \in {"reader", "search"} -> "off"
                                     [] OTHER -> "idle"]
        /\ job = [t \in Threads |-> Idle]
        /\ work = 0

(***************************************************************************)
(* Steps that several threads share.                                       *)
(***************************************************************************)
Goto(t, label) == pc' = [pc EXCEPT ![t] = label]
Notify(q)      == wake' = [wake EXCEPT ![q] = TRUE]

\* Begin a send at `label`: "try" pushes without waiting first, as
\* termio.Mailbox.send and surfaceMessageWriter do; "hint" notifies the
\* consumer first, as renderer and search sends do; "wait" only pushes.
Begin(t, label, to, style, flag, held, next) ==
    /\ work < MaxWork
    /\ work' = work + 1
    /\ job' = [job EXCEPT ![t] = [to |-> to, style |-> style, flag |-> flag,
                                  held |-> held, next |-> next]]
    /\ Goto(t, label)

\* BlockingQueue.full.
Room(t)     == len[job[t].to] < Cap[job[t].to]

Put(t) == len' = [len EXCEPT ![job[t].to] = @ + 1]

\* Give the lock back before waiting, and take it again afterwards.
Release(t) == lock' = IF lock = t THEN "free" ELSE lock

TrySucceeds(t) ==
    /\ pc[t] = "try"
    /\ Room(t)
    /\ Put(t)
    /\ Goto(t, "notify")
    /\ UNCHANGED <<wake, stop, lock, stopping, searchStopping, owed, job, work>>

\* Before it waits on a full mailbox a sender wakes the consumer and gives
\* back the terminal lock, which the consumer may need.
MakeRoomLocked(t)   == UNCHANGED lock /\ Notify(job[t].to)   \* MUTANT: keeps the lock
MakeRoomSilently(t) == Release(t) /\ UNCHANGED wake          \* MUTANT: wakes nobody
MakeRoom(t)         == Release(t) /\ Notify(job[t].to)

TryFails(t) ==
    /\ pc[t] = "try"
    /\ ~Room(t)
    /\ IF job[t].style = "never"
       THEN Goto(t, "notify") /\ UNCHANGED <<lock, wake>>
       ELSE Goto(t, "wait") /\ MakeRoom(t)
    /\ UNCHANGED <<len, stop, stopping, searchStopping, owed, job, work>>

Hint(t) ==
    /\ pc[t] = "hint"
    /\ Notify(job[t].to)
    /\ Goto(t, "wait")
    /\ UNCHANGED <<len, stop, lock, stopping, searchStopping, owed, job, work>>

\* termio.Mailbox.send takes the lock back before its caller notifies;
\* surfaceMessageWriter's push notifies the app before it takes the lock.
AfterPush(t) == IF job[t].held /\ job[t].to = "io" THEN "relock" ELSE "notify"

PushEnds(t) ==
    /\ pc[t] = "wait"
    /\ Room(t)
    /\ Put(t)
    /\ Goto(t, AfterPush(t))
    /\ UNCHANGED <<wake, stop, lock, stopping, searchStopping, owed, job, work>>

\* A forever_unless push on a full mailbox gives up once its flag is set.
PushGivesUp(t) ==
    /\ pc[t] = "wait"
    /\ ~Room(t)
    /\ job[t].style = "unless"
    /\ Flag(job[t].flag)
    /\ Goto(t, AfterPush(t))
    /\ UNCHANGED <<len, wake, stop, lock, stopping, searchStopping, owed, job, work>>

\* After the push. The reader only notes that the IO or renderer thread is
\* owed a notification (termio_messaged, queued_renderer_message).
NotifyOnce(t) ==                  \* MUTANT: a hint before the push is enough
    IF job[t].to \in {"ren", "search"} THEN UNCHANGED <<wake, owed>>
    ELSE Notify(job[t].to) /\ UNCHANGED owed
NotifyAfter(t) ==
    IF t = "reader" /\ job[t].to # "app"
    THEN owed' = owed \cup {job[t].to} /\ UNCHANGED wake
    ELSE Notify(job[t].to) /\ UNCHANGED owed

SendNotifies(t) ==
    /\ pc[t] = "notify"
    /\ NotifyAfter(t)
    /\ Goto(t, IF job[t].held /\ lock # t THEN "relock" ELSE "sent")
    /\ UNCHANGED <<len, stop, lock, stopping, searchStopping, job, work>>

Relock(t) ==
    /\ pc[t] = "relock"
    /\ lock = "free"
    /\ lock' = t
    /\ Goto(t, IF job[t].to = "io" THEN "notify" ELSE "sent")
    /\ UNCHANGED <<len, wake, stop, stopping, searchStopping, owed, job, work>>

\* The caller goes on; a caller on the app thread that took the lock for
\* this send gives it back when it returns.
Sent(t) ==
    /\ pc[t] = "sent"
    /\ Goto(t, job[t].next)
    /\ IF t = "app" THEN Release(t) ELSE UNCHANGED lock
    /\ job' = [job EXCEPT ![t] = Idle]
    /\ UNCHANGED <<len, wake, stop, stopping, searchStopping, owed, work>>

Send(t) == \/ TrySucceeds(t) \/ TryFails(t) \/ Hint(t) \/ PushEnds(t)
           \/ PushGivesUp(t) \/ SendNotifies(t) \/ Relock(t) \/ Sent(t)

\* An event loop runs a wakeup callback: the consumer starts to drain.
Woken(t) ==
    /\ pc[t] = "idle"
    /\ wake[t]
    /\ wake' = [wake EXCEPT ![t] = FALSE]
    /\ Goto(t, "drain")
    /\ UNCHANGED <<len, stop, lock, stopping, searchStopping, owed, job, work>>

Pop(t) == /\ len[t] > 0
          /\ len' = [len EXCEPT ![t] = @ - 1]

DrainEnds(t) ==
    /\ pc[t] = "drain"
    /\ len[t] = 0
    /\ Goto(t, "idle")
    /\ UNCHANGED <<len, wake, stop, lock, stopping, searchStopping, owed, job, work>>

(***************************************************************************)
(* The app thread.                                                         *)
(***************************************************************************)
\* A send to the IO thread: a key press encoded and sent under the terminal
\* lock (queueIo(msg, .locked)), or a send that does not hold it.
AppSendsIo(next) ==
    \/ /\ lock = "free"
       /\ lock' = "app"
       /\ Begin("app", "try", "io", "forever", "none", TRUE, next)
    \/ /\ UNCHANGED lock
       /\ Begin("app", "try", "io", "forever", "none", FALSE, next)

\* renderer_thread.send and, while a search is open, its thread's send.
AppSendsWorker(next) ==
    \E q \in {"ren"} \cup (IF pc["search"] = "off" THEN {} ELSE {"search"}) :
        /\ Begin("app", "hint", q, "forever", "none", FALSE, next)
        /\ UNCHANGED lock

AppSends(next) == AppSendsIo(next) \/ AppSendsWorker(next)

\* A window message: input, focus, resize, configuration. The event loop
\* ticks the app after it, except inside a native modal loop.
AppInput ==
    /\ pc["app"] = "idle"
    /\ \E next \in {"idle", "drain"} : AppSends(next)
    /\ UNCHANGED <<len, wake, stop, stopping, searchStopping, owed>>

\* frameCompleted: on Windows the app thread draws, and reports a change of
\* the renderer's health to its own mailbox.
AppDraws ==
    /\ "health" \in Events
    /\ pc["app"] = "idle"
    /\ Begin("app", "wait", "app", "forever", "none", FALSE, "idle")
    /\ UNCHANGED <<len, wake, stop, lock, stopping, searchStopping, owed>>

\* App.tick takes a message; its handler may send (a title report, search
\* results for the renderer) before the next one is taken.
AppHandles ==
    /\ pc["app"] = "drain"
    /\ Pop("app")
    /\ \/ UNCHANGED <<lock, job, work, pc>>
       \/ AppSends("drain")
    /\ UNCHANGED <<wake, stop, stopping, searchStopping, owed>>

StartSearch ==
    /\ "search" \in Events
    /\ pc["app"] = "idle"
    /\ pc["search"] = "off"
    /\ searchStopping' = FALSE
    /\ stop' = [stop EXCEPT !["search"] = FALSE]
    /\ wake' = [wake EXCEPT !["search"] = TRUE]
    /\ pc' = [pc EXCEPT !["search"] = "idle", !["app"] = "hint"]
    /\ work < MaxWork
    /\ work' = work + 1
    /\ job' = [job EXCEPT !["app"] = [to |-> "search", style |-> "forever",
                                      flag |-> "none", held |-> FALSE, next |-> "idle"]]
    /\ UNCHANGED <<len, lock, stopping, owed>>

TellSearch    == searchStopping' = TRUE
TellIoNothing == UNCHANGED stopping           \* MUTANT: only notified
TellIo        == stopping' = TRUE

\* Search.deinit: the flag, then the stop notification, then the join.
EndSearch ==
    /\ pc["app"] = "idle"
    /\ pc["search"] # "off"
    /\ Goto("app", "end_search")
    /\ TellSearch
    /\ UNCHANGED <<len, wake, stop, lock, stopping, owed, job, work>>

\* Surface.deinit sets io.stopping, then ends a search if there is one.
Close ==
    /\ pc["app"] \in {"idle", "drain"}
    /\ TellIo
    /\ IF pc["search"] = "off"
       THEN Goto("app", "stop_io") /\ UNCHANGED searchStopping
       ELSE Goto("app", "close_search") /\ TellSearch
    /\ UNCHANGED <<len, wake, stop, lock, owed, job, work>>

\* After each of these the app thread waits in a join.
StopNext == [end_search   |-> "search",
             close_search |-> "search",
             stop_io      |-> "io",
             stop_ren     |-> "ren"]

Stop ==
    \E label \in DOMAIN StopNext :
        /\ pc["app"] = label
        /\ stop' = [stop EXCEPT ![StopNext[label]] = TRUE]
        /\ Goto("app", CASE label = "end_search" -> "join_search"
                         [] label = "close_search" -> "close_join_search"
                         [] label = "stop_io" -> "join_io"
                         [] OTHER -> "join_ren")
        /\ UNCHANGED <<len, wake, lock, stopping, searchStopping, owed, job, work>>

\* The search is freed with its mailbox and handles; endSearch goes on to
\* tell the renderer to clear its matches.
JoinSearch ==
    /\ pc["app"] \in {"join_search", "close_join_search"}
    /\ pc["search"] = "exited"
    /\ len' = [len EXCEPT !["search"] = 0]
    /\ IF pc["app"] = "join_search"
       THEN /\ pc' = [pc EXCEPT !["search"] = "off", !["app"] = "hint"]
            /\ job' = [job EXCEPT !["app"] = [to |-> "ren", style |-> "forever",
                                   flag |-> "none", held |-> FALSE, next |-> "idle"]]
       ELSE pc' = [pc EXCEPT !["search"] = "off", !["app"] = "stop_io"] /\ UNCHANGED job
    /\ wake' = [wake EXCEPT !["search"] = FALSE]
    /\ stop' = [stop EXCEPT !["search"] = FALSE]
    /\ searchStopping' = FALSE
    /\ UNCHANGED <<lock, stopping, owed, work>>

JoinIo ==
    /\ pc["app"] = "join_io"
    /\ pc["io"] = "exited"
    /\ Goto("app", "stop_ren")
    /\ UNCHANGED <<len, wake, stop, lock, stopping, searchStopping, owed, job, work>>

\* The renderer is stopped last. Then the IO and renderer mailboxes and the
\* terminal lock are freed.
JoinRen ==
    /\ pc["app"] = "join_ren"
    /\ pc["ren"] = "exited"
    /\ len' = [len EXCEPT !["io"] = 0, !["ren"] = 0]
    /\ Goto("app", "closed")
    /\ UNCHANGED <<wake, stop, lock, stopping, searchStopping, owed, job, work>>

\* The surface has left the app, which drops what is still addressed to it.
DropLate ==
    /\ pc["app"] = "closed"
    /\ Pop("app")
    /\ UNCHANGED <<wake, stop, lock, stopping, searchStopping, owed, pc, job, work>>

App == \/ Send("app") \/ AppInput \/ AppDraws \/ Woken("app") \/ AppHandles
       \/ DrainEnds("app") \/ StartSearch \/ EndSearch \/ Close \/ Stop
       \/ JoinSearch \/ JoinIo \/ JoinRen \/ DropLate

(***************************************************************************)
(* The IO thread.                                                          *)
(***************************************************************************)
\* Exec.threadEnter starts the reader before the loop waits for anything.
IoEnters ==
    /\ pc["io"] = "start"
    /\ pc' = [pc EXCEPT !["io"] = "idle", !["reader"] = "check"]
    /\ UNCHANGED <<len, wake, stop, lock, stopping, searchStopping, owed, job, work>>

\* threadEnter fails before the reader is started, or after, in which case
\* it ends it again (Termio.threadEnter's errdefer).
IoFails ==
    /\ "io_fail" \in Events
    /\ pc["io"] = "start"
    /\ \/ Goto("io", "failed") /\ UNCHANGED stopping
       \/ /\ stopping' = TRUE
          /\ pc' = [pc EXCEPT !["io"] = "undo_enter", !["reader"] = "check"]
    /\ UNCHANGED <<len, wake, stop, lock, searchStopping, owed, job, work>>

\* Write the error on the screen, wake the renderer and run the loop "so
\* that messages are drained". Neither wakeup nor stop was ever registered
\* with that loop, so it has nothing to wait for and returns at once.
IoReportsFailure ==
    /\ pc["io"] = "failed"
    /\ lock = "free"
    /\ Notify("ren")
    /\ Goto("io", "exited")
    /\ UNCHANGED <<len, stop, lock, stopping, searchStopping, owed, job, work>>

\* A message's handler takes the terminal lock, or not. One that fails ends
\* this drain: later messages wait for the next wakeup.
IoHandles ==
    /\ pc["io"] = "drain"
    /\ Pop("io")
    /\ \/ Goto("io", "drain")
       \/ Goto("io", "locking")
       \/ "handler_error" \in Events /\ Goto("io", "idle")
    /\ UNCHANGED <<wake, stop, lock, stopping, searchStopping, owed, job, work>>

\* The handler takes the terminal lock and gives it back.
IoLocks ==
    /\ pc["io"] = "locking"
    /\ lock = "free"
    /\ Goto("io", "drain")
    /\ UNCHANGED <<len, wake, stop, lock, stopping, searchStopping, owed, job, work>>

\* The end of a drain may ask the renderer for a frame.
IoDrained ==
    /\ pc["io"] = "drain"
    /\ len["io"] = 0
    /\ Goto("io", "idle")
    /\ Notify("ren") \/ UNCHANGED wake
    /\ UNCHANGED <<len, stop, lock, stopping, searchStopping, owed, job, work>>

\* The selection's scroll timer tells the app, if there is room.
IoScrolls ==
    /\ "timers" \in Events
    /\ pc["io"] = "idle"
    /\ Begin("io", "try", "app", "never", "none", FALSE, "idle")
    /\ UNCHANGED <<len, wake, stop, lock, stopping, searchStopping, owed>>

\* The resize timer: resize the terminal under its lock, then mail the
\* renderer.
IoResizes ==
    /\ "timers" \in Events
    /\ pc["io"] = "idle"
    /\ lock = "free"
    /\ Begin("io", "hint", "ren", "forever", "none", FALSE, "idle")
    /\ UNCHANGED <<len, wake, stop, lock, stopping, searchStopping, owed>>

\* processExitCommon.
ChildExits ==
    /\ "child_exit" \in Events
    /\ pc["io"] = "idle"
    /\ Begin("io", "wait", "app", "unless", "stopping", FALSE, "idle")
    /\ UNCHANGED <<len, wake, stop, lock, stopping, searchStopping, owed>>

\* Exec.threadExit sets the reader's stop flag, then cancels its read until
\* it has exited.
IoStops ==
    /\ pc["io"] = "idle"
    /\ stop["io"]
    /\ stopping' = TRUE
    /\ Goto("io", "join_reader")
    /\ UNCHANGED <<len, wake, stop, lock, searchStopping, owed, job, work>>

CancelRead ==
    /\ pc["io"] \in {"join_reader", "undo_enter"}
    /\ pc["reader"] = "read"
    /\ Goto("reader", "check")
    /\ UNCHANGED <<len, wake, stop, lock, stopping, searchStopping, owed, job, work>>

\* MUTANT: cancels the read once instead of until the reader has exited.
ReaderCancelled == pc["reader"] \in {"check", "exited"}
ReaderGone      == pc["reader"] = "exited"

JoinReader ==
    /\ pc["io"] \in {"join_reader", "undo_enter"}
    /\ ReaderGone
    /\ Goto("io", IF pc["io"] = "join_reader" THEN "exited" ELSE "failed")
    /\ UNCHANGED <<len, wake, stop, lock, stopping, searchStopping, owed, job, work>>

Io == \/ Send("io") \/ IoEnters \/ IoFails \/ IoReportsFailure \/ Woken("io")
      \/ IoHandles \/ IoLocks \/ IoDrained \/ IoScrolls \/ IoResizes
      \/ ChildExits \/ IoStops \/ CancelRead \/ JoinReader

(***************************************************************************)
(* The pty reader.                                                         *)
(***************************************************************************)
ReaderChecks ==
    /\ pc["reader"] = "check"
    /\ Goto("reader", IF stopping THEN "exited" ELSE "read")
    /\ UNCHANGED <<len, wake, stop, lock, stopping, searchStopping, owed, job, work>>

\* Output arrives; processOutput takes the lock and may tell the renderer,
\* without waiting, to reset the cursor's blink.
ReaderReads ==
    /\ "output" \in Events
    /\ pc["reader"] = "read"
    /\ work < MaxWork
    /\ work' = work + 1
    /\ Goto("reader", "process")
    /\ UNCHANGED <<len, wake, stop, lock, stopping, searchStopping, owed, job>>

ReaderLocks ==
    /\ pc["reader"] = "process"
    /\ lock = "free"
    /\ lock' = "reader"
    /\ \/ Goto("reader", "parse") /\ UNCHANGED <<job, work>>
       \/ Begin("reader", "try", "ren", "never", "none", TRUE, "parse")
    /\ UNCHANGED <<len, wake, stop, stopping, searchStopping, owed>>

\* A control sequence is answered (messageWriter) or reported to the app
\* (surfaceMessageWriter). A stopping reader does neither.
ReaderReports ==
    /\ pc["reader"] = "parse"
    /\ ~stopping
    /\ \E q \in {"app", "io"} :
         Begin("reader", "try", q, "unless", "stopping", TRUE, "parse")
    /\ UNCHANGED <<len, wake, stop, lock, stopping, searchStopping, owed>>

\* The chunk is parsed: notify the IO thread if it was sent something, then
\* unlock; the renderer is notified after the lock is free.
ReaderUnlocks ==
    /\ pc["reader"] = "parse"
    /\ wake' = [wake EXCEPT !["io"] = @ \/ "io" \in owed]
    /\ owed' = owed \ {"io"}
    /\ lock' = "free"
    /\ Goto("reader", "render")
    /\ UNCHANGED <<len, stop, stopping, searchStopping, job, work>>

\* shouldWakeRendererAfterOutput: certainly after a renderer message.
ReaderRenders ==
    /\ pc["reader"] = "render"
    /\ Notify("ren") \/ ("ren" \notin owed /\ UNCHANGED wake)
    /\ owed' = {}
    /\ Goto("reader", "check")
    /\ UNCHANGED <<len, stop, lock, stopping, searchStopping, job, work>>

\* The output of an adopted session ends: report the child's exit.
ReaderEnds ==
    /\ "adopted_eof" \in Events
    /\ pc["reader"] = "read"
    /\ Begin("reader", "wait", "app", "unless", "stopping", FALSE, "exited")
    /\ UNCHANGED <<len, wake, stop, lock, stopping, searchStopping, owed>>

Reader == \/ Send("reader") \/ ReaderChecks \/ ReaderReads \/ ReaderLocks
          \/ ReaderReports \/ ReaderUnlocks \/ ReaderRenders \/ ReaderEnds

(***************************************************************************)
(* The renderer thread. A pass drains the mailbox, reads the terminal under *)
(* its lock and asks the app thread for a repaint, which it never waits for. *)
(***************************************************************************)
RenHandles ==
    /\ pc["ren"] = "drain"
    /\ Pop("ren")
    /\ \/ UNCHANGED pc
       \/ "handler_error" \in Events /\ Goto("ren", "frame")
    /\ UNCHANGED <<wake, stop, lock, stopping, searchStopping, owed, job, work>>

RenDrained ==
    /\ pc["ren"] = "drain"
    /\ len["ren"] = 0
    /\ Goto("ren", "frame")
    /\ UNCHANGED <<len, wake, stop, lock, stopping, searchStopping, owed, job, work>>

RenReads ==
    /\ pc["ren"] = "frame"
    /\ lock = "free"
    /\ \/ Goto("ren", "idle") /\ UNCHANGED <<job, work>>
       \/ Begin("ren", "try", "app", "never", "none", FALSE, "idle")
    /\ UNCHANGED <<len, wake, stop, lock, stopping, searchStopping, owed>>

RenStops ==
    /\ pc["ren"] = "idle"
    /\ stop["ren"]
    /\ Goto("ren", "exited")
    /\ UNCHANGED <<len, wake, stop, lock, stopping, searchStopping, owed, job, work>>

Ren == \/ Send("ren") \/ Woken("ren") \/ RenHandles \/ RenDrained \/ RenReads
       \/ RenStops

(***************************************************************************)
(* The search thread. Stepping a query takes the terminal lock; what it     *)
(* found is then sent to the app, which may wait for room.                  *)
(***************************************************************************)
SearchHandles ==
    /\ pc["search"] = "drain"
    /\ Pop("search")
    /\ \/ Goto("search", "drain")
       \/ Goto("search", "step")
    /\ UNCHANGED <<wake, stop, lock, stopping, searchStopping, owed, job, work>>

\* A busy query makes progress, and a waiting one refreshes, when the loop
\* has polled and found nothing to do.
SearchContinues ==
    /\ pc["search"] = "idle"
    /\ ~wake["search"] /\ ~stop["search"]
    /\ Goto("search", "step")
    /\ UNCHANGED <<len, wake, stop, lock, stopping, searchStopping, owed, job, work>>

\* apply, then searchCallback: nothing is sent once searchStopping is set.
SearchSteps ==
    /\ pc["search"] = "step"
    /\ lock = "free"
    /\ Goto("search", "report")
    /\ UNCHANGED <<len, wake, stop, lock, stopping, searchStopping, owed, job, work>>

SearchReports ==
    /\ pc["search"] = "report"
    /\ \/ Goto("search", "drain") /\ UNCHANGED <<job, work>>
       \/ /\ ~searchStopping
          /\ Begin("search", "wait", "app", "unless", "searchStopping", FALSE, "report")
    /\ UNCHANGED <<len, wake, stop, lock, stopping, searchStopping, owed>>

\* The loop is stopped: drain what is left unread and leave.
SearchStops ==
    /\ pc["search"] = "idle"
    /\ stop["search"]
    /\ len' = [len EXCEPT !["search"] = 0]
    /\ Goto("search", "exited")
    /\ UNCHANGED <<wake, stop, lock, stopping, searchStopping, owed, job, work>>

Search == \/ Send("search") \/ Woken("search") \/ SearchHandles
          \/ DrainEnds("search") \/ SearchContinues \/ SearchSteps \/ SearchReports \/ SearchStops

\* Everything is closed and read: the surface is gone.
Gone == pc["app"] = "closed" /\ len["app"] = 0 /\ UNCHANGED vars

Next == App \/ Io \/ Reader \/ Ren \/ Search \/ Gone

Spec == Init /\ [][Next]_vars


(***************************************************************************)
(* Fairness: every thread that can go on by itself does, and window         *)
(* messages are dispatched. Nothing obliges the user to act, the child to   *)
(* write or exit, or a timer to fire. Weak fairness is enough: MaxWork      *)
(* bounds the sends and chunks that could keep a mailbox full or the        *)
(* terminal lock busy for ever.                                            *)
(***************************************************************************)
AppGoesOn    == Send("app") \/ Woken("app") \/ AppHandles \/ DrainEnds("app")
                \/ Stop \/ JoinSearch \/ JoinIo \/ JoinRen \/ DropLate
IoGoesOn     == Send("io") \/ IoEnters \/ IoFails \/ IoReportsFailure
                \/ Woken("io") \/ IoHandles \/ IoLocks \/ IoDrained
                \/ IoStops \/ CancelRead \/ JoinReader
ReaderGoesOn == Send("reader") \/ ReaderChecks \/ ReaderLocks
                \/ ReaderUnlocks \/ ReaderRenders
RenGoesOn    == Send("ren") \/ Woken("ren") \/ RenHandles \/ RenDrained
                \/ RenReads \/ RenStops
SearchGoesOn == Send("search") \/ Woken("search") \/ SearchHandles
                \/ DrainEnds("search") \/ SearchSteps \/ SearchReports
                \/ SearchStops

Fairness == /\ WF_vars(AppGoesOn) /\ WF_vars(IoGoesOn)
            /\ WF_vars(ReaderGoesOn) /\ WF_vars(RenGoesOn)
            /\ WF_vars(SearchGoesOn)

FairSpec == Spec /\ Fairness

(***************************************************************************)
(* Properties.                                                             *)
(***************************************************************************)
Sending == {"try", "hint", "wait", "notify", "relock", "sent"}
Closing == {"close_search", "close_join_search", "stop_io", "join_io",
            "stop_ren", "join_ren"}
Labels  == Sending \cup Closing
           \cup {"idle", "drain", "off", "start", "exited", "closed", "step",
                 "report", "locking", "failed", "undo_enter", "join_reader",
                 "check", "read", "process", "parse", "render", "frame",
                 "end_search", "join_search"}

TypeOK ==
    /\ len \in [Queues -> Nat] /\ \A q \in Queues : len[q] <= Cap[q]
    /\ wake \in [Queues -> BOOLEAN]
    /\ stop \in [Queues -> BOOLEAN]
    /\ lock \in Threads \cup {"free"}
    /\ stopping \in BOOLEAN /\ searchStopping \in BOOLEAN
    /\ owed \subseteq Queues
    /\ pc \in [Threads -> Labels]
    /\ job \in [Threads -> Jobs]
    /\ work \in 0..MaxWork

\* A thread that waits for room in a mailbox, or for another thread to
\* exit, does not hold the terminal lock: whoever it waits for may need it
\* (the unlocks of mailbox.zig and stream_handler.zig). Yet the reader parses
\* with the lock held, after such a wait too.
Waiting == {"wait", "join_search", "close_join_search", "join_io",
            "join_ren", "join_reader", "undo_enter"}
LockDiscipline == /\ lock # "free" => pc[lock] \notin Waiting
                  /\ pc["reader"] = "parse" => lock = "reader"

\* No thread is left that could use what has been freed: the surface's
\* mailboxes and its terminal lock once it is closed, the search mailbox
\* once the search thread is joined.
NothingUsesFreed ==
    /\ pc["app"] = "closed" => /\ pc["io"] = "exited"
                               /\ pc["reader"] \in {"off", "exited"}
                               /\ pc["ren"] = "exited"
                               /\ pc["search"] = "off"
                               /\ lock = "free"
    /\ pc["search"] = "off" => ~(pc["app"] \in Sending /\ job["app"].to = "search")

\* A message in a mailbox will be seen: its consumer is taking messages, or
\* has been notified, or somebody is about to notify it.
WillLook(q) ==
    \/ wake[q]
    \/ pc[q] \in {"drain", "locking", "step", "report"}
    \/ q = "app" /\ pc[q] \in Closing \* and then finishes its tick
    \/ pc[q] \in Sending /\ job[q].next \in {"drain", "report"}
    \/ \E t \in Threads : pc[t] \in {"notify", "relock"} /\ job[t].to = q
    \/ q \in owed
NoLostWake ==
    \A q \in Queues : len[q] > 0 =>
        \/ WillLook(q)
        \/ stop[q] \/ pc[q] \in {"exited", "closed"}

\* Closing a surface and ending a search come to their end: nobody the app
\* thread joins is waiting for the app thread, or for a thread already gone.
\* A surface that is closing is never idle again, so it ends up closed.
JoinsFinish == pc["app"] \in Closing \cup {"end_search", "join_search"}
               ~> pc["app"] \in {"closed", "idle"}

\* The user interface does not hang: every send the app thread begins to a
\* worker returns.
SendReturns == pc["app"] \in Sending ~> pc["app"] \notin Sending

\* A send to the IO thread, and a draw, return as well.  They do not when the
\* IO thread failed to start, a child exits at the wrong moment, or a frame
\* reports the renderer's health to a full app mailbox.
IoSendReturns ==
    (pc["app"] \in Sending /\ job["app"].to = "io") ~> pc["app"] \notin Sending
DrawReturns ==
    (pc["app"] \in Sending /\ job["app"].to = "app") ~> pc["app"] \notin Sending

(***************************************************************************)
(* The inductive invariant behind the safety properties.                   *)
(***************************************************************************)
\* Where a thread goes on after a send.
Afterwards == [app |-> {"idle", "drain"}, io |-> {"idle"},
               reader |-> {"parse", "exited"}, ren |-> {"idle"},
               search |-> {"report"}]
SendInv ==
    \A t \in Threads :
        /\ pc[t] \in Sending => job[t].next \in Afterwards[t]
        /\ pc[t] = "hint" => ~job[t].held
        /\ pc[t] = "relock" => job[t].held
        /\ job[t].held => t \in {"app", "reader"}
        /\ t = "reader" => (job[t].held <=> job[t].next = "parse")

\* Who has the lock, and who must have it.
LockInv ==
    /\ lock # "free" =>
        \/ /\ lock \in {"app", "reader"}
           /\ pc[lock] \in {"try", "notify", "sent"}
           /\ job[lock].held
        \/ lock = "reader" /\ pc["reader"] = "parse"
    /\ pc["reader"] = "parse" => lock = "reader"
    /\ pc["reader"] \in {"try", "sent"} /\ job["reader"].held => lock = "reader"

\* The order in which the threads end.
EndInv ==
    /\ pc["io"] = "start" => pc["reader"] = "off"
    /\ pc["io"] \in {"failed", "exited"} => pc["reader"] \in {"off", "exited"}
    /\ pc["app"] \in {"stop_io", "join_io", "stop_ren", "join_ren", "closed"}
            => pc["search"] = "off"
    /\ pc["app"] \in {"stop_ren", "join_ren", "closed"} => pc["io"] = "exited"
    /\ pc["app"] = "closed" => pc["ren"] = "exited"
    /\ pc["app"] \in Sending /\ job["app"].to = "search" => pc["search"] # "off"

IInv == TypeOK /\ SendInv /\ LockInv /\ EndInv

=============================================================================
