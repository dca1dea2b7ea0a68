------------------------------ MODULE MailLine ------------------------------
(***************************************************************************)
(* What App's mailbox promises of the messages sent to it: they stand in   *)
(* one line, in the order they were sent. The outer tick handles the first *)
(* of the line. A modal tick, which may run inside a handler of the outer  *)
(* one, handles the first that is safe there, which overtakes unsafe ones  *)
(* only. Nothing leaves the line but to be handled.                        *)
(***************************************************************************)
EXTENDS Naturals, SequencesExt

CONSTANTS Messages, Safe

VARIABLES pending,   \* what was sent and not yet handled, oldest first
          sent,      \* what was sent, ever
          outer,     \* the outer tick: "off", "next", or what it handles
          modal      \* the modal tick, likewise

vars == <<pending, sent, outer, modal>>

Init == pending = <<>> /\ sent = {} /\ outer = "off" /\ modal = "off"

Send(m) == /\ m \notin sent
           /\ sent' = sent \cup {m}
           /\ pending' = Append(pending, m)
           /\ UNCHANGED <<outer, modal>>

TakeFirst == /\ outer = "next" /\ modal = "off"
             /\ pending # <<>>
             /\ outer' = Head(pending)
             /\ pending' = Tail(pending)
             /\ UNCHANGED <<sent, modal>>

FirstSafe(i) == pending[i] \in Safe /\ \A j \in 1 .. i - 1 : pending[j] \notin Safe

TakeSafe == /\ modal = "next"
            /\ \E i \in 1 .. Len(pending) :
                  /\ FirstSafe(i)
                  /\ modal' = pending[i]
                  /\ pending' = RemoveAt(pending, i)
            /\ UNCHANGED <<sent, outer>>

\* A tick begins, goes on to its next message, or ends; the outer one stands
\* still while a modal one runs.
Tick == /\ outer' \in {outer, "off", "next"} /\ modal' \in {modal, "off", "next"}
        /\ modal # "off" => UNCHANGED outer
        /\ UNCHANGED <<pending, sent>>

Next == (\E m \in Messages : Send(m)) \/ TakeFirst \/ TakeSafe \/ Tick

Spec == Init /\ [][Next]_vars
=============================================================================
