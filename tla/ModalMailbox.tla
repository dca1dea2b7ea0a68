---------------------------- MODULE ModalMailbox ----------------------------
(***************************************************************************)
(* App.zig's mailbox as the Windows UI thread drains it.                   *)
(*                                                                         *)
(* The main loop dispatches a window message and then ticks the app, which *)
(* handles everything in the mailbox (the outer tick). Menus, dialogs and  *)
(* the move/size loop run message loops of their own, inside the dispatch  *)
(* or inside a handler of the outer tick, in which only the wake message   *)
(* ticks the app: the modal tick handles the messages that are safe there  *)
(* and moves the others, in their order, to a deferred list. Producers on  *)
(* other threads push and then post a wake message.                        *)
(***************************************************************************)
EXTENDS Naturals, Sequences, FiniteSets

CONSTANTS Messages,     \* each is sent once
          Safe,         \* those safe inside a modal loop
          Quits,        \* those that ask the app to quit
          Slots,        \* of the mailbox (64 in the code)
          Batch,        \* modal_batch_limit
          NoMessage

ASSUME ModalAssumption ==
    /\ IsFiniteSet(Messages)
    /\ Safe \subseteq Messages /\ Quits \subseteq Messages \ Safe
    /\ Slots \in Nat \ {0} /\ Batch \in Nat \ {0}
    /\ {NoMessage, "off", "next"} \cap Messages = {}

VARIABLES
    sent,       \* messages pushed so far
    queue,      \* the mailbox
    owed,       \* producers that have pushed and not yet posted their wake
    wake,       \* a wake message is posted
    deferred,   \* ModalMailbox.deferred
    read,       \* ModalMailbox.read
    overflow,   \* ModalMailbox.overflow, or NoMessage
    remaining,  \* ModalMailbox.modal_remaining
    pump,       \* the main loop: "get", or "dispatched" before its tick
    native,     \* a native modal loop runs
    outer,      \* the outer tick: "off", "next", or the message handled
    modal,      \* the modal tick, likewise
    failed      \* history: the deferred list could not grow at some time

mailbox == <<deferred, read, overflow, remaining>>
vars == <<sent, queue, owed, wake, mailbox, pump, native, outer, modal, failed>>

\* App.run posts itself a wake before its message loop starts.
Init == /\ sent = {} /\ queue = <<>> /\ owed = 0 /\ wake = TRUE
        /\ deferred = <<>> /\ read = 0 /\ overflow = NoMessage /\ remaining = Batch
        /\ pump = "get" /\ native = FALSE
        /\ outer = "off" /\ modal = "off" /\ failed = FALSE

(***************************************************************************)
(* Producers: App.Mailbox.push, which waits while there is no room.        *)
(***************************************************************************)
Push(m) ==
    /\ m \notin sent
    /\ Len(queue) < Slots
    /\ sent' = sent \cup {m}
    /\ queue' = Append(queue, m)
    /\ owed' = owed + 1
    /\ UNCHANGED <<wake, mailbox, pump, native, outer, modal, failed>>

Post ==
    /\ owed > 0
    /\ owed' = owed - 1
    /\ wake' = TRUE
    /\ UNCHANGED <<sent, queue, mailbox, pump, native, outer, modal, failed>>

(***************************************************************************)
(* The message loops of the UI thread.                                     *)
(***************************************************************************)
\* Some message loop waits for a message: the main one, or a native one.
Waits == /\ modal = "off"
         /\ native \/ (pump = "get" /\ outer = "off")

\* tickCoreAppModal. In the main loop what calls it is a dispatched message
\* like any other.
TickModal ==
    /\ Waits
    /\ modal' = "next"
    /\ remaining' = Batch
    /\ pump' = IF native THEN pump ELSE "dispatched"
    /\ UNCHANGED <<sent, queue, owed, deferred, read, overflow, native, outer, failed>>

\* It is called for the wake message, and after the messages that deliver
\* something else to the app (an update check, a toast, profiles).
ModalBegins   == wake /\ wake' = FALSE /\ TickModal
OtherDelivery == UNCHANGED wake /\ TickModal

\* A wake dispatched while a modal tick's handler runs does nothing: the
\* tick below it goes on.
ModalRefused ==
    /\ modal \in Messages
    /\ wake
    /\ wake' = FALSE
    /\ UNCHANGED <<sent, queue, owed, mailbox, pump, native, outer, modal, failed>>

\* Any other window message; its procedure may run a native loop. So may the
\* shell requests that App.run performs between two messages: they are
\* ticked for as well. (The timers and hotkeys that App.run handles without a
\* tick run none, and are no step here.)
Dispatch ==
    /\ Waits
    /\ ~native
    /\ pump' = "dispatched"
    /\ native' \in BOOLEAN
    /\ UNCHANGED <<sent, queue, owed, wake, mailbox, outer, modal, failed>>

\* A handler of the outer tick opens a dialog or a menu.
HandlerOpens ==
    /\ outer \in Messages
    /\ modal = "off"
    /\ ~native
    /\ native' = TRUE
    /\ UNCHANGED <<sent, queue, owed, wake, mailbox, pump, outer, modal, failed>>

NativeEnds ==
    /\ native
    /\ modal = "off"
    /\ native' = FALSE
    /\ UNCHANGED <<sent, queue, owed, wake, mailbox, pump, outer, modal, failed>>

\* finishLoopStep ticks the core after every dispatched message.
OuterBegins ==
    /\ pump = "dispatched"
    /\ ~native /\ modal = "off"
    /\ pump' = "get"
    /\ outer' = "next"
    /\ UNCHANGED <<sent, queue, owed, wake, mailbox, native, modal, failed>>

(***************************************************************************)
(* ModalMailbox.next for the outer tick: the deferred messages, then the   *)
(* overflow, then the mailbox.                                             *)
(***************************************************************************)
OuterNext == outer = "next" /\ modal = "off"

NextDeferred ==
    /\ OuterNext
    /\ read < Len(deferred)
    /\ outer' = deferred[read + 1]
    /\ IF read + 1 = Len(deferred)
       THEN deferred' = <<>> /\ read' = 0
       ELSE read' = read + 1 /\ UNCHANGED deferred
    /\ UNCHANGED <<sent, queue, owed, wake, overflow, remaining, pump, native,
                   modal, failed>>

NextOverflow ==
    /\ OuterNext
    /\ read = Len(deferred)
    /\ overflow # NoMessage
    /\ outer' = overflow
    /\ overflow' = NoMessage
    /\ UNCHANGED <<sent, queue, owed, wake, deferred, read, remaining, pump,
                   native, modal, failed>>

QueueIsNextEarly == OuterNext /\ read = Len(deferred)  \* MUTANT: before the overflow
QueueIsNext == OuterNext /\ read = Len(deferred) /\ overflow = NoMessage

NextQueued ==
    /\ QueueIsNext
    /\ queue # <<>>
    /\ outer' = Head(queue)
    /\ queue' = Tail(queue)
    /\ UNCHANGED <<sent, owed, wake, mailbox, pump, native, modal, failed>>

OuterDrained ==
    /\ QueueIsNext
    /\ queue = <<>>
    /\ outer' = "off"
    /\ UNCHANGED <<sent, queue, owed, wake, mailbox, pump, native, modal, failed>>

\* MUTANT: one message for each tick.
OuterHandledOnce ==
    /\ outer \in Messages
    /\ ~native /\ modal = "off"
    /\ outer' = "off"
    /\ UNCHANGED <<sent, queue, owed, wake, mailbox, pump, native, modal, failed>>

\* A handler returns; quitting ends the drain.
OuterHandled ==
    /\ outer \in Messages
    /\ ~native /\ modal = "off"
    /\ outer' = IF outer \in Quits THEN "off" ELSE "next"
    /\ UNCHANGED <<sent, queue, owed, wake, mailbox, pump, native, modal, failed>>

(***************************************************************************)
(* ModalMailbox.next for the modal tick.                                   *)
(***************************************************************************)
\* Growing the list fails: the tick ends there, without another wake.
NoStorage == modal' = "off" /\ failed' = TRUE

ModalFlushes ==
    /\ modal = "next"
    /\ overflow # NoMessage
    /\ \/ /\ deferred' = Append(deferred, overflow)
          /\ overflow' = NoMessage
          /\ UNCHANGED <<modal, failed>>
       \/ NoStorage /\ UNCHANGED <<deferred, overflow>>
    /\ UNCHANGED <<sent, queue, owed, wake, read, remaining, pump, native, outer>>

\* An unsafe message is kept for the outer tick.
Defer(m) ==
    \/ deferred' = Append(deferred, m) /\ UNCHANGED <<overflow, modal, failed>>
    \/ NoStorage /\ overflow' = m /\ UNCHANGED deferred

MessageSafeDuringModal(m) == m \in Safe

ModalPops ==
    /\ modal = "next"
    /\ overflow = NoMessage
    /\ remaining > 0
    /\ queue # <<>>
    /\ queue' = Tail(queue)
    /\ remaining' = remaining - 1
    /\ IF MessageSafeDuringModal(Head(queue))
       THEN modal' = Head(queue) /\ UNCHANGED <<deferred, overflow, failed>>
       ELSE Defer(Head(queue))
    /\ UNCHANGED <<sent, owed, wake, read, pump, native, outer>>

ModalHandled ==
    /\ modal \in Messages
    /\ modal' = "next"
    /\ UNCHANGED <<sent, queue, owed, wake, mailbox, pump, native, outer, failed>>

\* needsModalWake: only a batch that was used up asks for another.
NeverWake == FALSE                               \* MUTANT: the batch is final
NeedsModalWake == remaining = 0 /\ queue # <<>>

ModalEnds ==
    /\ modal = "next"
    /\ overflow = NoMessage
    /\ remaining = 0 \/ queue = <<>>
    /\ modal' = "off"
    /\ wake' = (wake \/ NeedsModalWake)
    /\ UNCHANGED <<sent, queue, owed, mailbox, pump, native, outer, failed>>

OuterSteps == \/ OuterBegins \/ NextDeferred \/ NextOverflow \/ NextQueued
              \/ OuterDrained \/ OuterHandled
ModalSteps == \/ ModalBegins \/ ModalFlushes \/ ModalPops \/ ModalHandled
              \/ ModalEnds

Next == \/ \E m \in Messages : Push(m)
        \/ Post \/ OtherDelivery \/ ModalRefused \/ Dispatch \/ HandlerOpens \/ NativeEnds
        \/ OuterSteps \/ ModalSteps

Spec == Init /\ [][Next]_vars

(***************************************************************************)
(* Fairness: producers post what they owe, and the UI thread runs. It is   *)
(* strong because a handler may open one native loop after another: it     *)
(* returns all the same, and message loops dispatch what is posted to      *)
(* them. A native loop need not end: the user may leave a menu open.       *)
(***************************************************************************)
LiveSpec == Spec /\ WF_vars(Post) /\ SF_vars(OuterSteps) /\ SF_vars(ModalSteps)

(***************************************************************************)
(* Properties.                                                             *)
(***************************************************************************)
TypeOK ==
    /\ sent \subseteq Messages
    /\ queue \in Seq(Messages) /\ Len(queue) <= Slots
    /\ owed \in Nat /\ wake \in BOOLEAN
    /\ deferred \in Seq(Messages \ Safe)
    /\ read \in Nat /\ (read = 0 \/ read < Len(deferred))
    /\ overflow \in (Messages \ Safe) \cup {NoMessage}
    /\ remaining \in 0..Batch
    /\ pump \in {"get", "dispatched"} /\ native \in BOOLEAN
    /\ outer \in {"off", "next"} \cup Messages
    /\ modal \in {"off", "next"} \cup Safe
    /\ failed \in BOOLEAN

\* The messages not yet handled: what is left of the deferred list, then what
\* could not be deferred, then the mailbox.
Held == IF overflow = NoMessage THEN <<>> ELSE <<overflow>>
Waiting == (SubSeq(deferred, read + 1, Len(deferred)) \o Held) \o queue
Line == INSTANCE MailLine WITH pending <- Waiting

\* The mailbox with its deferred list is one line in the order of sending, of
\* which the outer tick handles the first message and a modal tick the first
\* safe one (App.zig's "unsafe messages retain their original FIFO order").
ImplementsLine == Line!Spec

\* Unless the deferred list could not grow, whenever a message loop waits
\* the mailbox is empty or a wake is on its way: otherwise producers that
\* wait for room would wait for the user.
NotStranded == ~failed => (Waits /\ queue # <<>> => wake \/ owed > 0)

\* Unless a quit cuts the outer tick short, the main loop never waits with
\* deferred messages: they would wait for the next window message.
Quitting == sent \cap Quits # {}
NothingLeftDeferred ==
    ~Quitting /\ pump = "get" /\ outer = "off" /\ ~native =>
        read = Len(deferred) /\ overflow = NoMessage

Pending(m) == \E i \in DOMAIN queue : queue[i] = m
Unhandled(m) == Pending(m) \/ (\E i \in read+1..Len(deferred) : deferred[i] = m)
                \/ overflow = m

\* A menu left open does not stop the producers: what is in the mailbox is
\* taken out of it, safe messages to be handled at once.
KeepsMoving == []~failed => \A m \in Messages : Pending(m) ~> ~Pending(m)

\* If no native loop stays open for ever, every message is handled.
AllHandled ==
    []~Quitting /\ []<>~native => \A m \in Messages : Unhandled(m) ~> ~Unhandled(m)
=============================================================================
