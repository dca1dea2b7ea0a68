--------------------------- MODULE OutputTransport ---------------------------
(* The transport that hands a terminal's text to its accessibility session    *)
(* (TerminalOutputTransport of src/src/apprt/surface.zig): a ring of chunks   *)
(* under a mutex the pty reader never waits for, an omission mark where text  *)
(* was dropped, and an interest epoch that says which session is listening.   *)
(*                                                                            *)
(* The pty reader captures text and pushes it (Termio.processOutput); the UI  *)
(* thread turns the interest on and off and drains.  Every atomic load, store *)
(* and exchange is a step of its own; what only the holder of the mutex can   *)
(* see is done in the step that takes it.                                     *)
EXTENDS Integers, Sequences

CONSTANTS
    MaxChunks,  \* slots of the ring (8 in the code)
    Captures,   \* what one read of the pty may capture
    MaxMade,    \* bound: items captured
    MaxEpoch    \* bound: the interest state, which grows by one per change

\* What a read captures: the chunks before the reset (reset_at), whether there
\* is one, the chunks after it, and whether the capture itself was cut short.
CaptureType == [head : Nat, reset : BOOLEAN, tail : Nat, cut : BOOLEAN]

ASSUME TransportAssumption ==
    /\ MaxChunks \in Nat \ {0}
    /\ Captures \subseteq CaptureType
    /\ \A c \in Captures : /\ c.head > 0 => c.reset
                           /\ c.reset \/ c.cut \/ c.tail > 0

VARIABLES
    interest,   \* interest_state: odd while somebody listens
    pending,    \* omission_pending: the epoch with a gap to tell, 0 for none
    mutex,      \* who holds the mutex
    ring,       \* the chunks: [at |-> index in made, reset |-> resets_before]
    trailing,   \* trailing_reset
    reader,     \* the pty reader: where it is and the push under way
    ui,         \* the UI thread: where it is and the drain under way
    made,       \* history: what was captured, and for which epoch
    told        \* history: what the session was told, and in which epoch

shared == <<interest, pending, mutex, ring, trailing>>
vars == <<interest, pending, mutex, ring, trailing, reader, ui, made, told>>

Listening == interest % 2 = 1

Nothing == <<>>
Idle == [pc |-> "idle", at |-> "entry", epoch |-> 0, seen |-> 0, parts |-> Nothing]
Resting == [pc |-> "idle", chunks |-> <<>>, reset |-> FALSE, omitted |-> FALSE]

Init ==
    /\ interest = 0 /\ pending = 0 /\ mutex = "free"
    /\ ring = <<>> /\ trailing = FALSE
    /\ reader = Idle /\ ui = Resting
    /\ made = <<>> /\ told = <<>>

-----------------------------------------------------------------------------
(* The pty reader.                                                           *)

ReaderTo(pc) == reader' = [reader EXCEPT !.pc = pc]

\* The items of a capture for epoch e, in the order the terminal printed them.
Resets(c) == IF c.reset THEN 1 ELSE 0
Cuts(c)   == IF c.cut THEN 1 ELSE 0
Items(c, e) ==
    [i \in 1..(c.head + Resets(c) + c.tail + Cuts(c)) |->
        [epoch |-> e,
         kind  |-> IF c.reset /\ i = c.head + 1 THEN "reset"
                   ELSE IF i <= c.head + Resets(c) + c.tail THEN "data"
                   ELSE "cut"]]

\* A push of count chunks, those after the first items of made. A capture becomes
\* one, or two when its reset lies between its bytes.
Push(first, count, cut, reset) ==
    [first |-> first, count |-> count, cut |-> cut, reset |-> reset]
\* Mutant: the reset of a capture goes before all of its bytes.
PartsResetFirst(c) ==
    IF c.head > 0
    THEN << Push(Len(made), c.head, FALSE, c.reset),
            Push(Len(made) + c.head + Resets(c), c.tail, c.cut, FALSE) >>
    ELSE << Push(Len(made) + Resets(c), c.tail, c.cut, c.reset) >>
Parts(c) ==
    IF c.head > 0
    THEN << Push(Len(made), c.head, FALSE, FALSE),
            Push(Len(made) + c.head + Resets(c), c.tail, c.cut, c.reset) >>
    ELSE << Push(Len(made) + Resets(c), c.tail, c.cut, c.reset) >>

\* processOutput: the epoch is read before the bytes are parsed, and a capture
\* is made for it.
Capture(c) ==
    /\ reader.pc = "idle"
    /\ Listening
    /\ Len(made \o Items(c, interest)) <= MaxMade
    /\ made' = made \o Items(c, interest)
    /\ reader' = [Idle EXCEPT !.pc = "check", !.epoch = interest, !.parts = Parts(c)]
    /\ UNCHANGED <<shared, ui, told>>

\* A push that is over: the mutex if it is held is given back first. What is
\* left of the capture is pushed only if this part was enqueued.
Finished == IF mutex = "reader" THEN "unlock" ELSE "done"
GivesUp  == reader' = [reader EXCEPT !.pc = Finished, !.parts = Nothing]

\* The epoch has passed: the push is stale.
CheckEpoch ==
    /\ reader.pc = "check"
    /\ IF interest = reader.epoch THEN ReaderTo("pending") ELSE GivesUp
    /\ UNCHANGED <<shared, ui, made, told>>

\* omissionPendingForEpoch answers no, on the way into the push, once more
\* under the mutex, and before a mark is made.
NotPending == \/ reader.at = "entry"   /\ ReaderTo("try")
              \/ reader.at = "locked"  /\ ReaderTo("fill")
              \/ reader.at = "marking" /\ ReaderTo("claim")

\* omissionPendingForEpoch reads the mark. Its own epoch's: the push is
\* rejected, or the mark is already made. An older one's is to be removed.
ReadPending ==
    /\ reader.pc = "pending"
    /\ \/ pending = 0 /\ NotPending
       \/ pending # 0 /\ pending = reader.epoch /\ GivesUp
       \/ /\ pending \notin {0, reader.epoch}
          /\ reader' = [reader EXCEPT !.pc = "current", !.seen = pending]
    /\ UNCHANGED <<shared, ui, made, told>>

ReadCurrent ==
    /\ reader.pc = "current"
    /\ IF interest # reader.epoch \/ reader.seen = interest
       THEN NotPending
       ELSE ReaderTo("remove")
    /\ UNCHANGED <<shared, ui, made, told>>

RemoveMark ==
    /\ reader.pc = "remove"
    /\ pending' = IF pending = reader.seen THEN 0 ELSE pending
    /\ ReaderTo("pending")
    /\ UNCHANGED <<interest, mutex, ring, trailing, ui, made, told>>

\* Mutants: what a locked transport makes the reader drop goes unmarked; and
\* the epoch is not looked at again under the mutex.
TryLockSilently ==
    /\ reader.pc = "try"
    /\ IF mutex = "free"
       THEN /\ mutex' = "reader"
            /\ reader' = [reader EXCEPT !.pc = "check", !.at = "locked"]
       ELSE GivesUp /\ UNCHANGED mutex
    /\ UNCHANGED <<interest, pending, ring, trailing, ui, made, told>>
TryLockTrusting ==
    /\ reader.pc = "try"
    /\ IF mutex = "free"
       THEN /\ mutex' = "reader"
            /\ reader' = [reader EXCEPT !.pc = "pending", !.at = "locked"]
       ELSE ReaderTo("mark") /\ UNCHANGED mutex
    /\ UNCHANGED <<interest, pending, ring, trailing, ui, made, told>>

\* Mutant: the reader waits for the mutex.
TryLockWaits ==
    /\ reader.pc = "try"
    /\ mutex = "free"
    /\ mutex' = "reader"
    /\ reader' = [reader EXCEPT !.pc = "check", !.at = "locked"]
    /\ UNCHANGED <<interest, pending, ring, trailing, ui, made, told>>

\* tryLock: the reader does not wait for a drain, it marks what it drops.
TryLock ==
    /\ reader.pc = "try"
    /\ IF mutex = "free"
       THEN /\ mutex' = "reader"
            /\ reader' = [reader EXCEPT !.pc = "check", !.at = "locked"]
       ELSE /\ ReaderTo("mark")
            /\ UNCHANGED mutex
    /\ UNCHANGED <<interest, pending, ring, trailing, ui, made, told>>

\* The chunks of a part that fit go into the ring, the first after a reset
\* saying so.
Fits(part) == IF part.count <= MaxChunks - Len(ring) THEN part.count
              ELSE MaxChunks - Len(ring)
ResetPending(part) == part.reset \/ trailing
Added(part) == [i \in 1..Fits(part) |->
                  [at |-> part.first + i, reset |-> i = 1 /\ ResetPending(part)]]

\* A push without chunks leaves its reset for the next; one that does not fit,
\* or was cut short, ends with a mark.
Fill ==
    /\ reader.pc = "fill"
    /\ LET part == Head(reader.parts)
       IN  /\ ring' = ring \o Added(part)
           /\ trailing' = (IF part.count = 0 THEN ResetPending(part)
                           ELSE trailing /\ Fits(part) = 0)
           /\ IF Fits(part) < part.count \/ part.cut
              THEN ReaderTo("mark")
              ELSE reader' = [reader EXCEPT !.pc = "unlock", !.parts = Tail(@)]
    /\ UNCHANGED <<interest, pending, mutex, ui, made, told>>

\* markOmissionForEpoch: a loop that ends when the epoch has passed, or the
\* mark is there, or its own exchange puts it there.
Mark ==
    /\ reader.pc = "mark"
    /\ IF interest = reader.epoch
       THEN reader' = [reader EXCEPT !.pc = "pending", !.at = "marking"]
       ELSE GivesUp
    /\ UNCHANGED <<shared, ui, made, told>>

Claim ==
    /\ reader.pc = "claim"
    /\ IF pending = 0
       THEN pending' = reader.epoch /\ GivesUp
       ELSE ReaderTo("mark") /\ UNCHANGED pending
    /\ UNCHANGED <<interest, mutex, ring, trailing, ui, made, told>>

\* The second part of a capture follows one that was enqueued.
ReaderUnlocks ==
    /\ reader.pc = "unlock"
    /\ mutex' = "free"
    /\ reader' = [reader EXCEPT !.at = "entry",
                                !.pc = IF reader.parts = <<>> THEN "done" ELSE "check"]
    /\ UNCHANGED <<interest, pending, ring, trailing, ui, made, told>>

\* processOutput ends. It may wake the renderer, whose frame drains; whether it
\* does depends on what is to be drawn and not on what was captured.
ReaderReturns ==
    /\ reader.pc = "done"
    /\ reader' = Idle
    /\ UNCHANGED <<shared, ui, made, told>>

Reader ==
    \/ \E c \in Captures : Capture(c)
    \/ CheckEpoch \/ ReadPending \/ ReadCurrent \/ RemoveMark \/ TryLock
    \/ Fill \/ Mark \/ Claim \/ ReaderUnlocks \/ ReaderReturns

-----------------------------------------------------------------------------
(* The UI thread.                                                            *)

UiTo(pc) == ui' = [ui EXCEPT !.pc = pc]

\* setInterested(false): the epoch ends at once, before the mutex is taken.
LoseInterest ==
    /\ ui.pc = "idle" /\ Listening
    /\ interest < MaxEpoch
    /\ interest' = interest + 1
    /\ UiTo("lock")
    /\ UNCHANGED <<pending, mutex, ring, trailing, reader, made, told>>

\* setInterested(true): the epoch begins only when the transport is empty.
TakeInterest ==
    /\ ui.pc = "idle" /\ ~Listening
    /\ interest < MaxEpoch
    /\ UiTo("lock_on")
    /\ UNCHANGED <<shared, reader, made, told>>

\* The mutex is taken, and the ring emptied under it.
Empty ==
    /\ ui.pc \in {"lock", "lock_on"}
    /\ mutex = "free"
    /\ mutex' = "ui"
    /\ ring' = <<>> /\ trailing' = FALSE
    /\ UiTo(IF ui.pc = "lock" THEN "unmark" ELSE "unmark_on")
    /\ UNCHANGED <<interest, pending, reader, made, told>>

Unmark ==
    /\ ui.pc \in {"unmark", "unmark_on"}
    /\ pending' = 0
    /\ UiTo(IF ui.pc = "unmark" THEN "unlock" ELSE "begin")
    /\ UNCHANGED <<interest, mutex, ring, trailing, reader, made, told>>

BeginEpoch ==
    /\ ui.pc = "begin"
    /\ interest' = interest + 1
    /\ UiTo("unlock")
    /\ UNCHANGED <<pending, mutex, ring, trailing, reader, made, told>>

\* drain: begun by a frame that was rendered, by a timer or by a query of an
\* accessibility client, at any time; without interest it returns at once.
Drain ==
    /\ ui.pc = "idle"
    /\ Listening
    /\ UiTo("drain")
    /\ UNCHANGED <<shared, reader, made, told>>

\* Everything is taken under the mutex. Only this thread changes the interest,
\* so the epoch read before the mutex is still the current one.
Take ==
    /\ ui.pc = "drain"
    /\ mutex = "free"
    /\ mutex' = "ui"
    /\ ui' = [pc |-> "swap", chunks |-> ring, reset |-> trailing, omitted |-> FALSE]
    /\ ring' = <<>> /\ trailing' = FALSE
    /\ UNCHANGED <<interest, pending, reader, made, told>>

\* The mark of this epoch is exchanged for none, still under the mutex.
Swap ==
    /\ ui.pc = "swap"
    /\ pending' = IF pending = interest THEN 0 ELSE pending
    /\ ui' = [ui EXCEPT !.pc = "unlock", !.omitted = pending = interest]
    /\ UNCHANGED <<interest, mutex, ring, trailing, reader, made, told>>

UiUnlocks ==
    /\ ui.pc = "unlock"
    /\ mutex' = "free"
    /\ ui' = IF ui.chunks = <<>> /\ ~ui.reset /\ ~ui.omitted THEN Resting
             ELSE [ui EXCEPT !.pc = "tell"]
    /\ UNCHANGED <<interest, pending, ring, trailing, reader, made, told>>

\* The session is told one item after the other, the mutex given back: each
\* chunk behind its reset, then the last reset, then the omission.
Say(log, b, kind, at) ==
    IF b THEN Append(log, [kind |-> kind, at |-> at, epoch |-> interest]) ELSE log
TellChunk ==
    /\ ui.pc = "tell" /\ ui.chunks # <<>>
    /\ LET chunk == Head(ui.chunks)
       IN  told' = Say(Say(told, chunk.reset, "reset", 0), TRUE, "data", chunk.at)
    /\ ui' = [ui EXCEPT !.chunks = Tail(@)]
    /\ UNCHANGED <<shared, reader, made>>
TellEnd ==
    /\ ui.pc = "tell" /\ ui.chunks = <<>>
    /\ told' = Say(Say(told, ui.reset, "reset", 0), ui.omitted, "omitted", 0)
    /\ ui' = Resting
    /\ UNCHANGED <<shared, reader, made>>

Ui == \/ LoseInterest \/ TakeInterest \/ Empty \/ Unmark \/ BeginEpoch
      \/ Drain \/ Take \/ Swap \/ UiUnlocks
      \/ TellChunk \/ TellEnd

Next == Reader \/ Ui
Spec == Init /\ [][Next]_vars

\* The reader does not stop in the middle of a push. Nothing is assumed of the UI
\* thread, and nothing makes the reader read.
ReaderGoesOn == Reader /\ reader.pc # "idle"
FairSpec == Spec /\ WF_vars(ReaderGoesOn)

-----------------------------------------------------------------------------
(* What the session may rely on.                                             *)

IsData(j) == told[j].kind = "data"
SameText(i, j) == IsData(i) /\ told[i].epoch = told[j].epoch

\* Text comes in the order it was printed, and nothing of it is missing
\* silently: whatever the terminal printed for a session before the text it
\* hears, it has heard before, or it has been told of an omission and heard only
\* newer text since.
NoSilentGap ==
    \A j \in DOMAIN told : IsData(j) =>
        /\ \A i \in 1..(j - 1) : SameText(i, j) => told[i].at < told[j].at
        /\ \A n \in 1..(told[j].at - 1) :
             made[n].epoch = told[j].epoch /\ made[n].kind # "reset" =>
               \E i \in 1..(j - 1) :
                  \/ SameText(i, j) /\ told[i].at = n
                  \/ /\ told[i].kind = "omitted" /\ told[i].epoch = told[j].epoch
                     /\ \A k \in i..j : SameText(k, j) => n < told[k].at

\* What was told in the epoch of told[j] since the text before it, and what the
\* terminal printed for that epoch since that text.
Prior(j)   == LET before == {i \in 1..(j - 1) : SameText(i, j)}
              IN  IF before = {} THEN 0 ELSE CHOOSE i \in before : \A k \in before : k <= i
Said(j)    == {told[i].kind : i \in {i \in (Prior(j) + 1)..(j - 1) :
                                        told[i].epoch = told[j].epoch}}
From(j)    == IF Prior(j) = 0 THEN 0 ELSE told[Prior(j)].at
Printed(j) == {made[n].kind : n \in {n \in (From(j) + 1)..(told[j].at - 1) :
                                        made[n].epoch = told[j].epoch}}

\* The session forgets what it holds exactly between the bytes the reset lay
\* between, unless an omission makes it forget anyway.
ResetsInPlace ==
    \A j \in DOMAIN told : IsData(j) /\ "omitted" \notin Said(j) =>
        ("reset" \in Said(j) <=> "reset" \in Printed(j))

\* The chunks whose text was told, and those the ring holds.
TextTold == {told[i].at : i \in {i \in DOMAIN told : IsData(i)}}
Retained == {ring[i].at : i \in DOMAIN ring}

\* A session that begins to listen hears only of its own epoch: no text
\* captured for an earlier one, and no omission unless its own output has one.
TrueToEpoch ==
    \A j \in DOMAIN told :
        /\ IsData(j) => made[told[j].at].epoch = told[j].epoch
        /\ told[j].kind = "omitted" =>
             \E n \in DOMAIN made :
                /\ made[n].epoch = told[j].epoch
                /\ made[n].kind = "data" => n \notin TextTold \cup Retained

\* Every push ends, wherever the UI thread is and even if it stops there, in a
\* drain or with the mutex held: the pty reader never waits for it.
PushEnds == reader.pc # "idle" ~> reader.pc = "idle"
=============================================================================
