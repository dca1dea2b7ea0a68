------------------------- MODULE ModalMailboxProofs -------------------------
(***************************************************************************)
(* Theorems about App.zig's mailbox, for any messages, any number of slots *)
(* and any batch.                                                          *)
(***************************************************************************)
EXTENDS ModalMailbox, SequenceTheorems, TLAPS

(***************************************************************************)
(* Type correctness.                                                       *)
(***************************************************************************)
\* What the message loops and the ticks leave behind is well-formed: the
\* deferred list holds unsafe messages only, and read is inside it.
LEMMA TypeStep == TypeOK /\ [Next]_vars => TypeOK'
<1> SUFFICES ASSUME TypeOK, [Next]_vars PROVE TypeOK'
  OBVIOUS
<1> USE ModalAssumption
<1>1. ASSUME NEW m \in Messages, Push(m) PROVE TypeOK'
  BY <1>1 DEF Push, mailbox, TypeOK
<1>2. CASE Post
  BY <1>2 DEF Post, mailbox, TypeOK
<1>3. CASE OtherDelivery
  BY <1>3 DEF OtherDelivery, TickModal, Waits, mailbox, TypeOK
<1>4. CASE ModalRefused
  BY <1>4 DEF ModalRefused, mailbox, TypeOK
<1>5. CASE Dispatch
  BY <1>5 DEF Dispatch, Waits, mailbox, TypeOK
<1>6. CASE HandlerOpens
  BY <1>6 DEF HandlerOpens, mailbox, TypeOK
<1>7. CASE NativeEnds
  BY <1>7 DEF NativeEnds, mailbox, TypeOK
<1>8. CASE OuterBegins
  BY <1>8 DEF OuterBegins, mailbox, TypeOK
<1>9. CASE NextDeferred
  <2>1. /\ read \in Nat /\ deferred \in Seq(Messages \ Safe) /\ read < Len(deferred)
        /\ outer' = deferred[read + 1]
    BY <1>9 DEF NextDeferred, TypeOK
  <2>2. outer' \in Messages
    <3>1. Len(deferred) \in Nat /\ read + 1 \in 1..Len(deferred)
      BY <2>1, LenProperties
    <3> QED
      BY <2>1, <3>1, ElementOfSeq
  <2>3. deferred' \in Seq(Messages \ Safe)
    <3>1. deferred' = <<>> \/ deferred' = deferred
      BY <1>9 DEF NextDeferred
    <3>2. <<>> \in Seq(Messages \ Safe)
      OBVIOUS
    <3> QED
      BY <2>1, <3>1, <3>2
  <2>4. read' \in Nat /\ (read' = 0 \/ read' < Len(deferred'))
    <3>1. Len(deferred) \in Nat
      BY <2>1, LenProperties
    <3>2. CASE read + 1 = Len(deferred)
      BY <1>9, <3>2 DEF NextDeferred
    <3>3. CASE read + 1 # Len(deferred)
      BY <1>9, <2>1, <3>1, <3>3 DEF NextDeferred
    <3> QED
      BY <3>2, <3>3
  <2> QED
    BY <1>9, <2>2, <2>3, <2>4 DEF NextDeferred, TypeOK
<1>10. CASE NextOverflow
  BY <1>10 DEF NextOverflow, OuterNext, mailbox, TypeOK
<1>11. CASE NextQueued
  BY <1>11 DEF NextQueued, QueueIsNext, OuterNext, mailbox, TypeOK
<1>12. CASE OuterDrained
  BY <1>12 DEF OuterDrained, QueueIsNext, OuterNext, mailbox, TypeOK
<1>13. CASE OuterHandled
  BY <1>13 DEF OuterHandled, mailbox, TypeOK
<1>14. CASE ModalBegins
  <2>1. remaining' \in 0..Batch /\ modal' = "next" /\ pump' \in {"get", "dispatched"}
    BY <1>14 DEF ModalBegins, TickModal, TypeOK
  <2>2. wake' \in BOOLEAN
    BY <1>14 DEF ModalBegins
  <2> QED
    BY <1>14, <2>1, <2>2 DEF ModalBegins, TickModal, TypeOK
<1>15. CASE ModalFlushes
  <2>1. CASE /\ deferred' = Append(deferred, overflow) /\ overflow' = NoMessage
             /\ UNCHANGED <<modal, failed>>
    <3>1. overflow \in Messages \ Safe
      BY <1>15 DEF ModalFlushes, TypeOK
    <3>2. deferred' \in Seq(Messages \ Safe) /\ Len(deferred') = Len(deferred) + 1
      BY <2>1, <3>1, AppendProperties DEF TypeOK
    <3>3. Len(deferred) \in Nat
      BY LenProperties DEF TypeOK
    <3>4. read' = 0 \/ read' < Len(deferred')
      BY <1>15, <3>2, <3>3 DEF ModalFlushes, TypeOK
    <3> QED
      BY <1>15, <2>1, <3>2, <3>4 DEF ModalFlushes, TypeOK
  <2>2. CASE NoStorage /\ UNCHANGED <<deferred, overflow>>
    <3>1. failed' \in BOOLEAN
      BY <2>2 DEF NoStorage
    <3> QED
      BY <1>15, <2>2, <3>1 DEF ModalFlushes, NoStorage, TypeOK
  <2> QED
    BY <1>15, <2>1, <2>2 DEF ModalFlushes
<1>16. CASE ModalPops
  <2>1. /\ Head(queue) \in Messages /\ queue' \in Seq(Messages)
        /\ Len(queue') <= Slots
    BY <1>16, HeadTailProperties DEF ModalPops, MessageSafeDuringModal, TypeOK
  <2>2. remaining' \in 0..Batch
    BY <1>16 DEF ModalPops, MessageSafeDuringModal, TypeOK
  <2>3. CASE Head(queue) \in Safe
    BY <1>16, <2>1, <2>2, <2>3 DEF ModalPops, MessageSafeDuringModal, TypeOK
  <2>4. CASE Head(queue) \notin Safe /\ deferred' = Append(deferred, Head(queue))
                                     /\ UNCHANGED <<overflow, modal, failed>>
    <3>1. deferred' \in Seq(Messages \ Safe) /\ Len(deferred') = Len(deferred) + 1
      BY <2>1, <2>4, AppendProperties DEF TypeOK
    <3>2. read' = 0 \/ read' < Len(deferred')
      BY <1>16, <3>1, LenProperties DEF ModalPops, MessageSafeDuringModal, TypeOK
    <3> QED
      BY <1>16, <2>1, <2>2, <2>4, <3>1, <3>2 DEF ModalPops, MessageSafeDuringModal, TypeOK
  <2>5. CASE Head(queue) \notin Safe /\ NoStorage
             /\ overflow' = Head(queue) /\ UNCHANGED deferred
    <3>1. failed' \in BOOLEAN
      BY <2>5 DEF NoStorage
    <3>2. overflow' \in (Messages \ Safe) \cup {NoMessage}
      BY <2>1, <2>5
    <3>3. modal' = "off"
      BY <2>5 DEF NoStorage
    <3>4. /\ deferred' = deferred /\ read' = read /\ sent' = sent /\ owed' = owed
          /\ wake' = wake /\ pump' = pump /\ native' = native /\ outer' = outer
      BY <1>16, <2>5 DEF ModalPops, MessageSafeDuringModal
    <3> QED
      BY <2>1, <2>2, <3>1, <3>2, <3>3, <3>4 DEF TypeOK
  <2> QED
    BY <1>16, <2>3, <2>4, <2>5 DEF ModalPops, MessageSafeDuringModal, Defer
<1>17. CASE ModalHandled
  BY <1>17 DEF ModalHandled, mailbox, TypeOK
<1>18. CASE ModalEnds
  BY <1>18 DEF ModalEnds, NeedsModalWake, mailbox, TypeOK
<1>19. CASE UNCHANGED vars
  BY <1>19 DEF vars, mailbox, TypeOK
<1> QED
  BY <1>1, <1>2, <1>3, <1>4, <1>5, <1>6, <1>7, <1>8, <1>9,
     <1>10, <1>11, <1>12, <1>13, <1>14, <1>15, <1>16, <1>17, <1>18, <1>19
     DEF Next, OuterSteps, ModalSteps

\* The mailbox never holds more than its slots, only unsafe messages are
\* deferred, and a modal tick only handles safe ones (messageSafeDuringModal).
THEOREM TypeCorrect == Spec => []TypeOK
<1>1. Init => TypeOK
  <2> SUFFICES ASSUME Init PROVE TypeOK
    OBVIOUS
  <2>1. Len(<<>>) = 0 /\ Slots \in Nat /\ Batch \in Nat
    BY ModalAssumption
  <2>2. queue \in Seq(Messages) /\ Len(queue) <= Slots
    BY <2>1 DEF Init
  <2>3. deferred \in Seq(Messages \ Safe) /\ read \in Nat /\ read = 0
    BY DEF Init
  <2>4. wake \in BOOLEAN /\ native \in BOOLEAN
    BY DEF Init
  <2>5. remaining \in 0..Batch
    BY <2>1 DEF Init
  <2> QED
    BY <2>2, <2>3, <2>4, <2>5 DEF Init, TypeOK
<1> QED
  BY <1>1, TypeStep, PTL DEF Spec

(***************************************************************************)
(* No message is stranded. A message loop may wait only when somebody will *)
(* wake it; the invariant says so of the ticks in between as well.         *)
(***************************************************************************)
WillBeSeen == ~failed /\ queue # <<>> => wake \/ owed > 0 \/ modal # "off"

\* Every step that puts a message in the mailbox owes a wake, and no step
\* takes the last wake away without ticking, or before the tick has found
\* the mailbox empty or asked for another (needsModalWake).
LEMMA SeenStep ==
  ASSUME TypeOK, WillBeSeen, [Next]_vars
  PROVE  WillBeSeen'
<1> USE ModalAssumption
<1>1. ASSUME NEW m \in Messages, Push(m) PROVE WillBeSeen'
  BY <1>1 DEF Push, mailbox, TypeOK, WillBeSeen
<1>2. CASE Post
  BY <1>2 DEF Post, mailbox, TypeOK, WillBeSeen
<1>3. CASE OtherDelivery
  BY <1>3 DEF OtherDelivery, TickModal, Waits, mailbox, TypeOK, WillBeSeen
<1>4. CASE ModalRefused
  BY <1>4 DEF ModalRefused, mailbox, TypeOK, WillBeSeen
<1>5. CASE Dispatch
  BY <1>5 DEF Dispatch, Waits, mailbox, TypeOK, WillBeSeen
<1>6. CASE HandlerOpens
  BY <1>6 DEF HandlerOpens, mailbox, TypeOK, WillBeSeen
<1>7. CASE NativeEnds
  BY <1>7 DEF NativeEnds, mailbox, TypeOK, WillBeSeen
<1>8. CASE OuterBegins
  BY <1>8 DEF OuterBegins, mailbox, TypeOK, WillBeSeen
<1>9. CASE NextDeferred
  BY <1>9 DEF NextDeferred, OuterNext, mailbox, TypeOK, WillBeSeen
<1>10. CASE NextOverflow
  BY <1>10 DEF NextOverflow, OuterNext, mailbox, TypeOK, WillBeSeen
<1>11. CASE NextQueued
  BY <1>11 DEF NextQueued, QueueIsNext, OuterNext, mailbox, TypeOK, WillBeSeen
<1>12. CASE OuterDrained
  BY <1>12 DEF OuterDrained, QueueIsNext, OuterNext, mailbox, TypeOK, WillBeSeen
<1>13. CASE OuterHandled
  BY <1>13 DEF OuterHandled, mailbox, TypeOK, WillBeSeen
<1>14. CASE ModalBegins
  BY <1>14 DEF ModalBegins, TickModal, Waits, mailbox, TypeOK, WillBeSeen
<1>15. CASE ModalFlushes
  BY <1>15 DEF ModalFlushes, NoStorage, mailbox, TypeOK, WillBeSeen
<1>16. CASE ModalPops
  BY <1>16 DEF ModalPops, MessageSafeDuringModal, Defer, NoStorage, mailbox, TypeOK, WillBeSeen
<1>17. CASE ModalHandled
  BY <1>17 DEF ModalHandled, mailbox, TypeOK, WillBeSeen
<1>18. CASE ModalEnds
  BY <1>18 DEF ModalEnds, NeedsModalWake, mailbox, TypeOK, WillBeSeen
<1>19. CASE UNCHANGED vars
  BY <1>19 DEF vars, mailbox, TypeOK, WillBeSeen
<1> QED
  BY <1>1, <1>2, <1>3, <1>4, <1>5, <1>6, <1>7, <1>8, <1>9,
     <1>10, <1>11, <1>12, <1>13, <1>14, <1>15, <1>16, <1>17, <1>18, <1>19
     DEF Next, OuterSteps, ModalSteps

\* Unless the deferred list could not grow, no message waits in the mailbox
\* while the message loop waits for something else (App.tickModal).
THEOREM NeverStranded == Spec => []NotStranded
<1>1. Init => WillBeSeen
  BY DEF Init, WillBeSeen
<1>2. TypeOK /\ WillBeSeen /\ [Next]_vars => WillBeSeen'
  BY SeenStep
<1>3. WillBeSeen => NotStranded
  BY DEF WillBeSeen, NotStranded, Waits
<1> QED
  BY <1>1, <1>2, <1>3, TypeCorrect, PTL DEF Spec

(***************************************************************************)
(* Nothing stays deferred. Messages are deferred inside a dispatch or a    *)
(* handler of the outer tick, and both are followed by an outer tick.      *)
(***************************************************************************)
Nested == /\ pump = "dispatched" => outer = "off"
          /\ native => pump = "dispatched" \/ outer \in Messages
          /\ modal # "off" => native \/ pump = "dispatched"
Emptied == ~Quitting /\ pump = "get" /\ outer = "off" =>
               read = Len(deferred) /\ overflow = NoMessage

\* Modal ticks run inside a dispatch or inside a handler of the outer tick.
LEMMA NestedStep == TypeOK /\ Nested /\ [Next]_vars => Nested'
<1> SUFFICES ASSUME TypeOK, Nested, [Next]_vars PROVE Nested'
  OBVIOUS
<1> USE ModalAssumption
<1>1. ASSUME NEW m \in Messages, Push(m) PROVE Nested'
  BY <1>1 DEF Push, mailbox, TypeOK, Nested
<1>2. CASE Post
  BY <1>2 DEF Post, mailbox, TypeOK, Nested
<1>3. CASE OtherDelivery
  BY <1>3 DEF OtherDelivery, TickModal, Waits, mailbox, TypeOK, Nested
<1>4. CASE ModalRefused
  BY <1>4 DEF ModalRefused, mailbox, TypeOK, Nested
<1>5. CASE Dispatch
  BY <1>5 DEF Dispatch, Waits, mailbox, TypeOK, Nested
<1>6. CASE HandlerOpens
  BY <1>6 DEF HandlerOpens, mailbox, TypeOK, Nested
<1>7. CASE NativeEnds
  BY <1>7 DEF NativeEnds, mailbox, TypeOK, Nested
<1>8. CASE OuterBegins
  BY <1>8 DEF OuterBegins, mailbox, TypeOK, Nested
<1>9. CASE NextDeferred
  BY <1>9 DEF NextDeferred, OuterNext, mailbox, TypeOK, Nested
<1>10. CASE NextOverflow
  BY <1>10 DEF NextOverflow, OuterNext, mailbox, TypeOK, Nested
<1>11. CASE NextQueued
  BY <1>11 DEF NextQueued, QueueIsNext, OuterNext, mailbox, TypeOK, Nested
<1>12. CASE OuterDrained
  BY <1>12 DEF OuterDrained, QueueIsNext, OuterNext, mailbox, TypeOK, Nested
<1>13. CASE OuterHandled
  BY <1>13 DEF OuterHandled, mailbox, TypeOK, Nested
<1>14. CASE ModalBegins
  BY <1>14 DEF ModalBegins, TickModal, Waits, mailbox, TypeOK, Nested
<1>15. CASE ModalFlushes
  BY <1>15 DEF ModalFlushes, NoStorage, mailbox, TypeOK, Nested
<1>16. CASE ModalPops
  BY <1>16 DEF ModalPops, MessageSafeDuringModal, Defer, NoStorage, mailbox, TypeOK, Nested
<1>17. CASE ModalHandled
  BY <1>17 DEF ModalHandled, mailbox, TypeOK, Nested
<1>18. CASE ModalEnds
  BY <1>18 DEF ModalEnds, NeedsModalWake, mailbox, TypeOK, Nested
<1>19. CASE UNCHANGED vars
  BY <1>19 DEF vars, mailbox, TypeOK, Nested
<1> QED
  BY <1>1, <1>2, <1>3, <1>4, <1>5, <1>6, <1>7, <1>8, <1>9,
     <1>10, <1>11, <1>12, <1>13, <1>14, <1>15, <1>16, <1>17, <1>18, <1>19
     DEF Next, OuterSteps, ModalSteps

\* Nothing is under way that was not sent.
InSent(s) == \A i \in 1..Len(s) : s[i] \in sent
AllSent == /\ InSent(queue) /\ InSent(deferred)
           /\ overflow \in sent \cup {NoMessage}
           /\ outer \in Messages => outer \in sent

\* What is left of a sequence of sent messages was sent.
LEMMA TailInSent ==
  ASSUME queue \in Seq(Messages), queue # <<>>, InSent(queue), sent' = sent,
         queue' = Tail(queue)
  PROVE  InSent(queue)' /\ Head(queue) \in sent
<1>1. /\ Len(queue) \in Nat /\ Len(queue) # 0 /\ Len(queue') = Len(queue) - 1
      /\ \A i \in 1..Len(queue') : queue'[i] = queue[i + 1]
  BY HeadTailProperties, LenProperties, EmptySeq
<1>2. InSent(queue)'
  BY <1>1 DEF InSent
<1>3. Head(queue) = queue[1]
  OBVIOUS
<1> QED
  BY <1>1, <1>2, <1>3 DEF InSent

\* A sent message may be deferred after others.
LEMMA AppendInSent ==
  ASSUME NEW m \in Messages \ Safe, m \in sent, deferred \in Seq(Messages \ Safe),
         InSent(deferred), sent' = sent, deferred' = Append(deferred, m)
  PROVE  InSent(deferred)'
<1>1. /\ Len(deferred) \in Nat /\ Len(deferred') = Len(deferred) + 1
      /\ \A i \in 1..Len(deferred) : deferred'[i] = deferred[i]
      /\ deferred'[Len(deferred) + 1] = m
  BY AppendProperties, LenProperties
<1> QED
  BY <1>1 DEF InSent

\* Messages move between the mailbox, the deferred list, the overflow and the
\* outer tick, and come from nowhere else.
LEMMA SentStep == TypeOK /\ AllSent /\ [Next]_vars => AllSent'
<1> SUFFICES ASSUME TypeOK, AllSent, [Next]_vars PROVE AllSent'
  OBVIOUS
<1> USE ModalAssumption
<1>1. ASSUME NEW m \in Messages, Push(m) PROVE AllSent'
  <2>1. sent' = sent \cup {m} /\ queue' = Append(queue, m)
        /\ UNCHANGED <<deferred, overflow, outer, read>>
    BY <1>1 DEF Push, mailbox
  <2>2. /\ Len(queue) \in Nat /\ Len(queue') = Len(queue) + 1
        /\ \A i \in 1..Len(queue) : queue'[i] = queue[i]
        /\ queue'[Len(queue) + 1] = m
    BY <2>1, AppendProperties, LenProperties DEF TypeOK
  <2>3. InSent(queue)'
    BY <2>1, <2>2 DEF InSent, AllSent
  <2> QED
    BY <2>1, <2>3 DEF InSent, AllSent
<1>2. CASE Post
  BY <1>2 DEF Post, mailbox, InSent, AllSent
<1>3. CASE OtherDelivery
  BY <1>3 DEF OtherDelivery, TickModal, Waits, mailbox, InSent, AllSent
<1>4. CASE ModalRefused
  BY <1>4 DEF ModalRefused, mailbox, InSent, AllSent
<1>5. CASE Dispatch
  BY <1>5 DEF Dispatch, Waits, mailbox, InSent, AllSent
<1>6. CASE HandlerOpens
  BY <1>6 DEF HandlerOpens, mailbox, InSent, AllSent
<1>7. CASE NativeEnds
  BY <1>7 DEF NativeEnds, mailbox, InSent, AllSent
<1>8. CASE OuterBegins
  BY <1>8 DEF OuterBegins, mailbox, InSent, AllSent
<1>9. CASE NextDeferred
  <2>1. /\ deferred \in Seq(Messages \ Safe) /\ read \in Nat /\ read < Len(deferred)
        /\ outer' = deferred[read + 1]
        /\ UNCHANGED <<sent, queue, overflow>>
        /\ deferred' = <<>> \/ deferred' = deferred
    BY <1>9 DEF NextDeferred, TypeOK
  <2>2. Len(deferred) \in Nat /\ Len(<<>>) = 0
    BY <2>1, LenProperties
  <2>3. outer' \in sent
    BY <2>1, <2>2 DEF InSent, AllSent
  <2>4. InSent(deferred)'
    BY <2>1, <2>2 DEF InSent, AllSent
  <2> QED
    BY <2>1, <2>3, <2>4 DEF InSent, AllSent
<1>10. CASE NextOverflow
  BY <1>10 DEF NextOverflow, OuterNext, mailbox, InSent, AllSent
<1>11. CASE NextQueued
  <2>1. /\ queue \in Seq(Messages) /\ queue # <<>> /\ queue' = Tail(queue)
        /\ outer' = Head(queue) /\ UNCHANGED <<sent, deferred, overflow>>
    BY <1>11 DEF NextQueued, mailbox, TypeOK
  <2>2. InSent(queue)' /\ Head(queue) \in sent
    BY <2>1, TailInSent DEF AllSent
  <2> QED
    BY <2>1, <2>2 DEF InSent, AllSent
<1>12. CASE OuterDrained
  BY <1>12 DEF OuterDrained, QueueIsNext, OuterNext, mailbox, InSent, AllSent
<1>13. CASE OuterHandled
  BY <1>13 DEF OuterHandled, mailbox, InSent, AllSent
<1>14. CASE ModalBegins
  BY <1>14 DEF ModalBegins, TickModal, Waits, mailbox, InSent, AllSent
<1>15. CASE ModalFlushes
  <2>1. UNCHANGED <<sent, queue, outer>> /\ overflow \in Messages \ Safe
    BY <1>15 DEF ModalFlushes, TypeOK
  <2>2. CASE deferred' = Append(deferred, overflow) /\ overflow' = NoMessage
    <3>1. InSent(deferred)'
      BY <2>1, <2>2, AppendInSent DEF AllSent, TypeOK
    <3> QED
      BY <2>1, <2>2, <3>1 DEF InSent, AllSent
  <2>3. CASE UNCHANGED <<deferred, overflow>>
    BY <2>1, <2>3 DEF InSent, AllSent
  <2> QED
    BY <1>15, <2>2, <2>3 DEF ModalFlushes
<1>16. CASE ModalPops
  <2>1. /\ queue \in Seq(Messages) /\ queue # <<>> /\ queue' = Tail(queue)
        /\ UNCHANGED <<sent, outer>>
    BY <1>16 DEF ModalPops, MessageSafeDuringModal, TypeOK
  <2>2. InSent(queue)' /\ Head(queue) \in sent /\ Head(queue) \in Messages
    BY <2>1, TailInSent, HeadTailProperties DEF AllSent
  <2>3. CASE UNCHANGED <<deferred, overflow>>
    BY <2>1, <2>2, <2>3 DEF InSent, AllSent
  <2>4. CASE Head(queue) \notin Safe /\ deferred' = Append(deferred, Head(queue))
                                     /\ UNCHANGED overflow
    <3>1. InSent(deferred)'
      BY <2>1, <2>2, <2>4, AppendInSent DEF AllSent, TypeOK
    <3> QED
      BY <2>1, <2>2, <2>4, <3>1 DEF InSent, AllSent
  <2>5. CASE overflow' = Head(queue) /\ UNCHANGED deferred
    BY <2>1, <2>2, <2>5 DEF InSent, AllSent
  <2> QED
    BY <1>16, <2>3, <2>4, <2>5 DEF ModalPops, MessageSafeDuringModal, Defer
<1>17. CASE ModalHandled
  BY <1>17 DEF ModalHandled, mailbox, InSent, AllSent
<1>18. CASE ModalEnds
  BY <1>18 DEF ModalEnds, NeedsModalWake, mailbox, InSent, AllSent
<1>19. CASE UNCHANGED vars
  BY <1>19 DEF vars, mailbox, InSent, AllSent
<1> QED
  BY <1>1, <1>2, <1>3, <1>4, <1>5, <1>6, <1>7, <1>8, <1>9,
     <1>10, <1>11, <1>12, <1>13, <1>14, <1>15, <1>16, <1>17, <1>18, <1>19
     DEF Next, OuterSteps, ModalSteps

\* Unless a quit cuts it short, the outer tick ends only when there is
\* nothing deferred, and nothing is deferred before the next one is due.
LEMMA EmptiedStep ==
  ASSUME TypeOK, Nested, AllSent, Emptied, [Next]_vars
  PROVE  Emptied'
<1> USE ModalAssumption
<1>1. ASSUME NEW m \in Messages, Push(m) PROVE Emptied'
  BY <1>1 DEF Push, mailbox, TypeOK, Nested, Emptied, Quitting
<1>2. CASE Post
  BY <1>2 DEF Post, mailbox, TypeOK, Nested, Emptied, Quitting
<1>3. CASE OtherDelivery
  BY <1>3 DEF OtherDelivery, TickModal, Waits, mailbox, TypeOK, Nested, Emptied, Quitting
<1>4. CASE ModalRefused
  BY <1>4 DEF ModalRefused, mailbox, TypeOK, Nested, Emptied, Quitting
<1>5. CASE Dispatch
  BY <1>5 DEF Dispatch, Waits, mailbox, TypeOK, Nested, Emptied, Quitting
<1>6. CASE HandlerOpens
  BY <1>6 DEF HandlerOpens, mailbox, TypeOK, Nested, Emptied, Quitting
<1>7. CASE NativeEnds
  BY <1>7 DEF NativeEnds, mailbox, TypeOK, Nested, Emptied, Quitting
<1>8. CASE OuterBegins
  BY <1>8 DEF OuterBegins, mailbox, TypeOK, Nested, Emptied, Quitting
<1>9. CASE NextDeferred
  <2>1. outer' \in Messages
    <3>1. /\ read \in Nat /\ deferred \in Seq(Messages \ Safe) /\ read < Len(deferred)
          /\ outer' = deferred[read + 1]
      BY <1>9 DEF NextDeferred, TypeOK
    <3>2. Len(deferred) \in Nat /\ read + 1 \in 1..Len(deferred)
      BY <3>1, LenProperties
    <3> QED
      BY <3>1, <3>2, ElementOfSeq
  <2> QED
    BY <2>1 DEF Emptied
<1>10. CASE NextOverflow
  BY <1>10 DEF NextOverflow, OuterNext, mailbox, TypeOK, Nested, Emptied, Quitting
<1>11. CASE NextQueued
  BY <1>11 DEF NextQueued, QueueIsNext, OuterNext, mailbox, TypeOK, Nested, Emptied, Quitting
<1>12. CASE OuterDrained
  BY <1>12 DEF OuterDrained, QueueIsNext, OuterNext, mailbox, TypeOK, Nested, Emptied, Quitting
<1>13. CASE OuterHandled
  BY <1>13 DEF OuterHandled, mailbox, TypeOK, Nested, AllSent, Emptied, Quitting
<1>14. CASE ModalBegins
  BY <1>14 DEF ModalBegins, TickModal, Waits, mailbox, TypeOK, Nested, Emptied, Quitting
<1>15. CASE ModalFlushes
  BY <1>15 DEF ModalFlushes, NoStorage, mailbox, TypeOK, Nested, Emptied, Quitting
<1>16. CASE ModalPops
  BY <1>16 DEF ModalPops, MessageSafeDuringModal, Defer, NoStorage, mailbox, TypeOK, Nested, Emptied, Quitting
<1>17. CASE ModalHandled
  BY <1>17 DEF ModalHandled, mailbox, TypeOK, Nested, Emptied, Quitting
<1>18. CASE ModalEnds
  BY <1>18 DEF ModalEnds, NeedsModalWake, mailbox, TypeOK, Nested, Emptied, Quitting
<1>19. CASE UNCHANGED vars
  BY <1>19 DEF vars, mailbox, TypeOK, Nested, Emptied, Quitting
<1> QED
  BY <1>1, <1>2, <1>3, <1>4, <1>5, <1>6, <1>7, <1>8, <1>9,
     <1>10, <1>11, <1>12, <1>13, <1>14, <1>15, <1>16, <1>17, <1>18, <1>19
     DEF Next, OuterSteps, ModalSteps

\* Unless the app quits, the main loop never waits with a deferred message
\* (App.run ticks after every message it dispatches).
THEOREM NoneLeftDeferred == Spec => []NothingLeftDeferred
<1>1. Init => Nested /\ AllSent /\ Emptied
  <2> SUFFICES ASSUME Init PROVE Nested /\ AllSent /\ Emptied
    OBVIOUS
  <2>1. Len(<<>>) = 0 /\ "off" \notin Messages
    BY ModalAssumption
  <2>2. Nested
    BY <2>1 DEF Init, Nested
  <2>3. AllSent
    BY <2>1 DEF Init, AllSent, InSent
  <2>4. Emptied
    BY <2>1 DEF Init, Emptied
  <2> QED
    BY <2>2, <2>3, <2>4
<1>2. TypeOK /\ Nested /\ AllSent /\ Emptied /\ [Next]_vars => Emptied'
  BY EmptiedStep
<1>3. Emptied => NothingLeftDeferred
  BY DEF Emptied, NothingLeftDeferred
<1> QED
  BY <1>1, <1>2, <1>3, NestedStep, SentStep, TypeCorrect, PTL DEF Spec

(***************************************************************************)
(* The mailbox with its deferred list is one line. Deferring a message     *)
(* moves it from one part of the line to the next and leaves the line as   *)
(* it is; what is before the mailbox in it is unsafe.                      *)
(***************************************************************************)
LineOf(d, h, q) == (d \o h) \o q

\* What was deferred and not yet handled.
Left == SubSeq(deferred, read + 1, Len(deferred))

\* The parts of the line are sequences of messages, what was deferred of
\* unsafe ones.
LEMMA PartsOfLine ==
  ASSUME TypeOK
  PROVE  /\ Left \in Seq(Messages \ Safe) /\ Left \in Seq(Messages)
         /\ Held \in Seq(Messages \ Safe) /\ Held \in Seq(Messages)
         /\ queue \in Seq(Messages)
         /\ Len(Left) = Len(deferred) - read /\ read <= Len(deferred)
         /\ \A i \in 1..Len(Left) : Left[i] = deferred[read + i]
<1>1. /\ deferred \in Seq(Messages \ Safe) /\ read \in Nat
      /\ read = 0 \/ read < Len(deferred)
      /\ queue \in Seq(Messages) /\ overflow \in (Messages \ Safe) \cup {NoMessage}
  BY DEF TypeOK
<1>2. Len(deferred) \in Nat /\ read <= Len(deferred)
  BY <1>1, LenProperties
<1>3. \A i \in (read + 1)..Len(deferred) : deferred[i] \in Messages \ Safe
  BY <1>1, <1>2, ElementOfSeq
<1>4. /\ Left \in Seq(Messages \ Safe)
      /\ Len(Left) = Len(deferred) - read
      /\ \A i \in 1..Len(Left) : Left[i] = deferred[read + i]
  <2>1. /\ Left \in Seq(Messages \ Safe)
        /\ Len(Left) = IF read + 1 <= Len(deferred) THEN Len(deferred) - (read + 1) + 1 ELSE 0
        /\ \A i \in 1 .. Len(deferred) - (read + 1) + 1 :
              Left[i] = deferred[(read + 1) + i - 1]
    BY <1>1, <1>2, <1>3, SubSeqProperties DEF Left
  <2> QED
    BY <1>1, <1>2, <2>1
<1>5. Held \in Seq(Messages \ Safe)
  <2>1. CASE overflow = NoMessage
    BY <2>1 DEF Held
  <2>2. CASE overflow # NoMessage
    <3>1. overflow \in Messages \ Safe /\ Held = <<overflow>>
      BY <1>1, <2>2 DEF Held
    <3> QED
      BY <3>1
  <2> QED
    BY <2>1, <2>2
<1>6. \A s \in Seq(Messages \ Safe) : s \in Seq(Messages)
  BY SeqMonotonic
<1> QED
  BY <1>1, <1>2, <1>4, <1>5, <1>6

\* What a line is made of.
LEMMA LineProperties ==
  ASSUME NEW S, NEW d \in Seq(S), NEW h \in Seq(S), NEW q \in Seq(S)
  PROVE  /\ LineOf(d, h, q) \in Seq(S)
         /\ Len(d) \in Nat /\ Len(h) \in Nat /\ Len(q) \in Nat
         /\ Len(LineOf(d, h, q)) = Len(d) + Len(h) + Len(q)
         /\ \A i \in 1..Len(d) : LineOf(d, h, q)[i] = d[i]
         /\ \A i \in 1..Len(h) : LineOf(d, h, q)[Len(d) + i] = h[i]
         /\ \A i \in 1..Len(q) : LineOf(d, h, q)[Len(d) + Len(h) + i] = q[i]
<1>1. Len(d) \in Nat /\ Len(h) \in Nat /\ Len(q) \in Nat
  BY LenProperties
<1>2. /\ d \o h \in Seq(S) /\ Len(d \o h) = Len(d) + Len(h)
      /\ \A i \in 1..Len(d) + Len(h) :
            (d \o h)[i] = IF i <= Len(d) THEN d[i] ELSE h[i - Len(d)]
  BY ConcatProperties
<1>3. /\ LineOf(d, h, q) \in Seq(S)
      /\ Len(LineOf(d, h, q)) = Len(d \o h) + Len(q)
      /\ \A i \in 1..Len(d \o h) + Len(q) :
            LineOf(d, h, q)[i] = IF i <= Len(d \o h) THEN (d \o h)[i] ELSE q[i - Len(d \o h)]
  BY <1>2, ConcatProperties DEF LineOf
<1>4. ASSUME NEW i \in 1..Len(d) PROVE LineOf(d, h, q)[i] = d[i]
  <2>1. i \in 1..Len(d \o h) + Len(q) /\ i <= Len(d \o h) /\ i \in 1..Len(d) + Len(h)
    BY <1>1, <1>2
  <2> QED
    BY <1>2, <1>3, <2>1
<1>5. ASSUME NEW i \in 1..Len(h) PROVE LineOf(d, h, q)[Len(d) + i] = h[i]
  <2> DEFINE j == Len(d) + i
  <2>1. /\ j \in 1..Len(d \o h) + Len(q) /\ j <= Len(d \o h)
        /\ j \in 1..Len(d) + Len(h) /\ ~(j <= Len(d)) /\ j - Len(d) = i
    BY <1>1, <1>2
  <2> HIDE DEF j
  <2>2. LineOf(d, h, q)[j] = h[i]
    BY <1>2, <1>3, <2>1
  <2> QED
    BY <2>2 DEF j
<1>6. ASSUME NEW i \in 1..Len(q) PROVE LineOf(d, h, q)[Len(d) + Len(h) + i] = q[i]
  <2> DEFINE j == Len(d) + Len(h) + i
  <2>1. /\ j \in 1..Len(d \o h) + Len(q) /\ ~(j <= Len(d \o h))
        /\ j - Len(d \o h) = i
    BY <1>1, <1>2
  <2> HIDE DEF j
  <2>2. LineOf(d, h, q)[j] = q[i]
    BY <1>3, <2>1
  <2> QED
    BY <2>2 DEF j
<1> QED
  BY <1>1, <1>2, <1>3, <1>4, <1>5, <1>6

\* A message that is sent joins the end of the line.
LEMMA LineAppend ==
  ASSUME NEW S, NEW d \in Seq(S), NEW h \in Seq(S), NEW q \in Seq(S), NEW m \in S
  PROVE  LineOf(d, h, Append(q, m)) = Append(LineOf(d, h, q), m)
<1>1. d \o h \in Seq(S) /\ LineOf(d, h, q) \in Seq(S) /\ <<m>> \in Seq(S)
  BY LineProperties, ConcatProperties
<1>2. Append(q, m) = q \o <<m>> /\ Append(LineOf(d, h, q), m) = LineOf(d, h, q) \o <<m>>
  BY <1>1, AppendIsConcat
<1> QED
  BY <1>1, <1>2, ConcatAssociative DEF LineOf

\* A message that is deferred leaves the line as it is.
LEMMA LineDefers ==
  ASSUME NEW S, NEW d \in Seq(S), NEW q \in Seq(S), NEW m \in S
  PROVE  /\ LineOf(Append(d, m), <<>>, q) = LineOf(d, <<m>>, q)
         /\ LineOf(d, <<m>>, q) = LineOf(d, <<>>, <<m>> \o q)
<1>1. <<m>> \in Seq(S) /\ <<>> \in Seq(S) /\ Append(d, m) \in Seq(S)
  BY AppendProperties
<1>2. Append(d, m) = d \o <<m>>
  BY AppendIsConcat
<1>3. Append(d, m) \o <<>> = Append(d, m) /\ d \o <<>> = d
  BY <1>1, ConcatEmptySeq
<1> QED
  BY <1>1, <1>2, <1>3, ConcatAssociative DEF LineOf

\* A sequence that is not empty is its head and its tail.
LEMMA HeadThenTail ==
  ASSUME NEW S, NEW s \in Seq(S), s # <<>>
  PROVE  /\ Head(s) \in S /\ Tail(s) \in Seq(S) /\ Len(s) \in Nat \ {0}
         /\ Head(s) = s[1] /\ s = <<Head(s)>> \o Tail(s)
<1>1. /\ Head(s) \in S /\ Tail(s) \in Seq(S) /\ Len(Tail(s)) = Len(s) - 1
      /\ \A i \in 1..Len(Tail(s)) : Tail(s)[i] = s[i + 1]
  BY HeadTailProperties
<1>2. Len(s) \in Nat \ {0} /\ Head(s) = s[1]
  BY LenProperties, EmptySeq
<1>3. <<Head(s)>> \in Seq(S) /\ Len(<<Head(s)>>) = 1 /\ <<Head(s)>>[1] = Head(s)
  BY <1>1
<1>4. /\ <<Head(s)>> \o Tail(s) \in Seq(S)
      /\ Len(<<Head(s)>> \o Tail(s)) = 1 + Len(Tail(s))
      /\ \A i \in 1..1 + Len(Tail(s)) : (<<Head(s)>> \o Tail(s))[i] =
            IF i <= 1 THEN <<Head(s)>>[i] ELSE Tail(s)[i - 1]
  BY <1>1, <1>3, ConcatProperties
<1>5. Len(<<Head(s)>> \o Tail(s)) = Len(s)
  BY <1>1, <1>2, <1>4
<1>6. \A i \in 1..Len(s) : (<<Head(s)>> \o Tail(s))[i] = s[i]
  BY <1>1, <1>2, <1>3, <1>4
<1> QED
  BY <1>1, <1>2, <1>4, <1>5, <1>6, SeqEqual

\* Taking the first of what is put in front gives back the rest.
LEMMA TailOfCons ==
  ASSUME NEW S, NEW x \in S, NEW s \in Seq(S)
  PROVE  /\ <<x>> \o s \in Seq(S) /\ <<x>> \o s # <<>>
         /\ Head(<<x>> \o s) = x /\ Tail(<<x>> \o s) = s
<1>1. <<x>> \in Seq(S) /\ Len(<<x>>) = 1 /\ <<x>>[1] = x /\ Len(s) \in Nat
  BY LenProperties
<1>2. /\ <<x>> \o s \in Seq(S) /\ Len(<<x>> \o s) = 1 + Len(s)
      /\ \A i \in 1..1 + Len(s) : (<<x>> \o s)[i] = IF i <= 1 THEN <<x>>[i] ELSE s[i - 1]
  BY <1>1, ConcatProperties
<1>3. <<x>> \o s # <<>>
  BY <1>1, <1>2, EmptySeq
<1>4. (<<x>> \o s)[1] = x
  BY <1>1, <1>2
<1>5. Head(<<x>> \o s) = x
  BY <1>2, <1>3, <1>4, HeadThenTail
<1>6. /\ Tail(<<x>> \o s) \in Seq(S) /\ Len(Tail(<<x>> \o s)) = Len(s)
      /\ \A i \in 1..Len(s) : Tail(<<x>> \o s)[i] = (<<x>> \o s)[i + 1]
  BY <1>1, <1>2, <1>3, HeadTailProperties
<1>7. \A i \in 1..Len(s) : Tail(<<x>> \o s)[i] = s[i]
  BY <1>1, <1>2, <1>6
<1> QED
  BY <1>2, <1>3, <1>5, <1>6, <1>7, SeqEqual

\* When something is left of the deferred list, its first is the line's.
LEMMA LineFirst ==
  ASSUME NEW S, NEW d \in Seq(S), NEW h \in Seq(S), NEW q \in Seq(S), d # <<>>
  PROVE  LineOf(d, h, q) = <<Head(d)>> \o LineOf(Tail(d), h, q)
<1>1. /\ Head(d) \in S /\ Tail(d) \in Seq(S) /\ d = <<Head(d)>> \o Tail(d)
  BY HeadThenTail
<1>2. <<Head(d)>> \in Seq(S) /\ Tail(d) \o h \in Seq(S)
  BY <1>1, ConcatProperties
<1>3. (<<Head(d)>> \o Tail(d)) \o h = <<Head(d)>> \o (Tail(d) \o h)
  BY <1>1, <1>2, ConcatAssociative
<1>4. (<<Head(d)>> \o (Tail(d) \o h)) \o q = <<Head(d)>> \o ((Tail(d) \o h) \o q)
  BY <1>1, <1>2, ConcatAssociative
<1> QED
  BY <1>1, <1>3, <1>4 DEF LineOf

\* Where nothing is left of the deferred list, the rest is the line.
LEMMA LineNoneLeft ==
  ASSUME NEW S, NEW h \in Seq(S), NEW q \in Seq(S)
  PROVE  LineOf(<<>>, h, q) = h \o q /\ LineOf(<<>>, <<>>, q) = q
<1>1. <<>> \in Seq(S)
  OBVIOUS
<1>2. <<>> \o h = h /\ <<>> \o q = q /\ <<>> \o <<>> = <<>>
  BY <1>1, ConcatEmptySeq
<1> QED
  BY <1>2 DEF LineOf

\* Where nothing overflowed, what was deferred is in front of the mailbox.
LEMMA LineNoneHeld ==
  ASSUME NEW S, NEW d \in Seq(S), NEW q \in Seq(S)
  PROVE  LineOf(d, <<>>, q) = d \o q
BY ConcatEmptySeq DEF LineOf

\* Taking the first of `q` from behind `d`.
LEMMA RemoveBehind ==
  ASSUME NEW S, NEW d \in Seq(S), NEW q \in Seq(S), q # <<>>
  PROVE  /\ Len(d) + 1 \in 1 .. Len(d \o q)
         /\ (d \o q)[Len(d) + 1] = Head(q)
         /\ \A i \in 1 .. Len(d) : (d \o q)[i] = d[i]
         /\ Line!RemoveAt(d \o q, Len(d) + 1) = d \o Tail(q)
<1>1. Len(d) \in Nat /\ Len(q) \in Nat \ {0} /\ Head(q) = q[1] /\ Tail(q) \in Seq(S)
  BY HeadThenTail, LenProperties
<1>2. /\ d \o q \in Seq(S) /\ Len(d \o q) = Len(d) + Len(q)
      /\ \A i \in 1..Len(d) + Len(q) :
            (d \o q)[i] = IF i <= Len(d) THEN d[i] ELSE q[i - Len(d)]
  BY ConcatProperties
<1>3. Len(d) + 1 \in 1 .. Len(d \o q) /\ (d \o q)[Len(d) + 1] = q[1]
  BY <1>1, <1>2
<1>4. \A i \in 1 .. Len(d) : (d \o q)[i] = d[i]
  BY <1>1, <1>2
<1> DEFINE front == SubSeq(d \o q, 1, Len(d))
           back == SubSeq(d \o q, Len(d) + 2, Len(d \o q))
<1>5. front = d
  <2>1. \A i \in 1 .. Len(d) : (d \o q)[i] \in S
    BY <1>4, ElementOfSeq
  <2>2. /\ front \in Seq(S) /\ Len(front) = IF 1 <= Len(d) THEN Len(d) - 1 + 1 ELSE 0
        /\ \A i \in 1 .. Len(d) - 1 + 1 : front[i] = (d \o q)[1 + i - 1]
    BY <1>1, <2>1, SubSeqProperties
  <2>3. Len(front) = Len(d) /\ \A i \in 1 .. Len(d) : front[i] = (d \o q)[i]
    BY <1>1, <2>2
  <2> QED
    BY <1>4, <2>2, <2>3, SeqEqual
<1>6. back = Tail(q)
  <2>1. \A i \in Len(d) + 2 .. Len(d \o q) : (d \o q)[i] \in S
    <3>1. \A i \in 1 .. Len(d \o q) : (d \o q)[i] \in S
      BY <1>2, ElementOfSeq
    <3> QED
      BY <1>1, <3>1
  <2>2. Len(d) + 2 \in Int /\ Len(d \o q) \in Int
    BY <1>1, <1>2
  <2>3. /\ back \in Seq(S)
        /\ Len(back) = IF Len(d) + 2 <= Len(d \o q) THEN Len(d \o q) - (Len(d) + 2) + 1 ELSE 0
        /\ \A i \in 1 .. Len(d \o q) - (Len(d) + 2) + 1 :
              back[i] = (d \o q)[(Len(d) + 2) + i - 1]
    BY <2>1, <2>2, SubSeqProperties
  <2>4. /\ Len(Tail(q)) = Len(q) - 1
        /\ \A i \in 1 .. Len(q) - 1 : Tail(q)[i] = q[i + 1]
    BY HeadTailProperties
  <2> HIDE DEF back
  <2>5. Len(back) = Len(q) - 1
    <3> DEFINE a == Len(d)
               b == Len(q)
               c == Len(d \o q)
    <3>1. a \in Nat /\ b \in Nat \ {0} /\ c = a + b
      BY <1>1, <1>2
    <3>2. Len(back) = IF a + 2 <= c THEN c - (a + 2) + 1 ELSE 0
      BY <2>3
    <3> HIDE DEF a, b, c
    <3>3. Len(back) = b - 1
      BY <3>1, <3>2
    <3> QED
      BY <3>3 DEF b
  <2>6. ASSUME NEW i \in 1 .. Len(q) - 1 PROVE back[i] = Tail(q)[i]
    <3> DEFINE j == Len(d) + i + 1
    <3>1. /\ i \in 1 .. Len(d \o q) - (Len(d) + 2) + 1
          /\ (Len(d) + 2) + i - 1 = j /\ j \in 1 .. Len(d) + Len(q)
          /\ ~(j <= Len(d)) /\ j - Len(d) = i + 1
      BY <1>1, <1>2
    <3> HIDE DEF j
    <3>2. back[i] = (d \o q)[j]
      BY <2>3, <3>1
    <3>3. (d \o q)[j] = q[i + 1]
      BY <1>2, <3>1
    <3> QED
      BY <2>4, <3>2, <3>3
  <2> QED
    BY <1>1, <2>3, <2>4, <2>5, <2>6, SeqEqual
<1>7. Line!RemoveAt(d \o q, Len(d) + 1) = front \o back
  <2>1. Len(d) + 1 - 1 = Len(d) /\ Len(d) + 1 + 1 = Len(d) + 2
    BY <1>1
  <2>2. ASSUME NEW k, k - 1 = Len(d), k + 1 = Len(d) + 2
        PROVE  Line!RemoveAt(d \o q, k) = front \o back
    BY <2>2 DEF Line!RemoveAt
  <2> HIDE DEF front, back
  <2> QED
    BY <2>2, <2>1
<1> QED
  BY <1>1, <1>3, <1>4, <1>5, <1>6, <1>7

\* Each of the ways in which the outer tick takes a message takes the first
\* of the line (ModalMailbox.next: the deferred list, the overflow, the
\* mailbox).
LEMMA OuterTakesFirst ==
  ASSUME TypeOK, NextDeferred \/ NextOverflow \/ NextQueued
  PROVE  Line!TakeFirst
<1> USE ModalAssumption
<1>1. /\ Left \in Seq(Messages) /\ Held \in Seq(Messages) /\ queue \in Seq(Messages)
      /\ Len(Left) = Len(deferred) - read /\ read <= Len(deferred)
      /\ \A i \in 1..Len(Left) : Left[i] = deferred[read + i]
  BY PartsOfLine
<1>2. /\ deferred \in Seq(Messages \ Safe) /\ read \in Nat /\ Len(deferred) \in Nat
      /\ overflow \in (Messages \ Safe) \cup {NoMessage}
  BY LenProperties DEF TypeOK
<1>3. Waiting = LineOf(Left, Held, queue) /\ Waiting' = LineOf(Left', Held', queue')
  BY DEF Waiting, Left, LineOf
<1>4. ASSUME NEW x \in Messages, NEW rest \in Seq(Messages),
             Waiting = <<x>> \o rest, Waiting' = rest, outer' = x,
             OuterNext, UNCHANGED <<sent, modal>>
      PROVE  Line!TakeFirst
  BY <1>4, TailOfCons DEF Line!TakeFirst, OuterNext
<1>5. CASE NextDeferred
  <2>1. /\ OuterNext /\ UNCHANGED <<sent, modal>> /\ queue' = queue /\ Held' = Held
        /\ read < Len(deferred) /\ outer' = deferred[read + 1]
    BY <1>5 DEF NextDeferred, Held
  <2>2. Left # <<>> /\ Left[1] = deferred[read + 1]
    <3>1. Len(Left) \in Nat \ {0} /\ 1 \in 1..Len(Left)
      BY <1>1, <1>2, <2>1
    <3> QED
      BY <1>1, <3>1, EmptySeq
  <2>3. /\ Head(Left) \in Messages /\ Tail(Left) \in Seq(Messages) /\ Head(Left) = outer'
    BY <1>1, <2>1, <2>2, HeadThenTail
  <2>4. Left' = Tail(Left)
    <3>1. CASE read + 1 = Len(deferred)
      <4>1. deferred' = <<>> /\ read' = 0
        BY <1>5, <3>1 DEF NextDeferred
      <4>2. Left' = SubSeq(<<>>, 1, 0)
        BY <4>1 DEF Left
      <4>3. Left' = <<>>
        BY <4>2, SubSeqEmpty
      <4>4. Len(Tail(Left)) = Len(Left) - 1
        BY <1>1, <2>2, HeadTailProperties
      <4>5. Len(Left) = 1
        BY <1>1, <1>2, <3>1
      <4>6. Len(Tail(Left)) = 0
        BY <4>4, <4>5
      <4> QED
        BY <2>3, <4>3, <4>6, EmptySeq
    <3>2. CASE read + 1 # Len(deferred)
      <4>1. deferred' = deferred /\ read' = read + 1
        BY <1>5, <3>2 DEF NextDeferred
      <4>2. read + 1 \in 1..Len(deferred) /\ Len(deferred) \in read + 1..Len(deferred)
        BY <1>2, <2>1
      <4>3. Tail(SubSeq(deferred, read + 1, Len(deferred)))
              = SubSeq(deferred, (read + 1) + 1, Len(deferred))
        BY <1>2, <4>2, HeadTailOfSubSeq
      <4> QED
        BY <4>1, <4>3 DEF Left
    <3> QED
      BY <3>1, <3>2
  <2>5. /\ Waiting = <<Head(Left)>> \o LineOf(Tail(Left), Held, queue)
        /\ Waiting' = LineOf(Tail(Left), Held, queue)
        /\ LineOf(Tail(Left), Held, queue) \in Seq(Messages)
    <3>1. LineOf(Left, Held, queue) = <<Head(Left)>> \o LineOf(Tail(Left), Held, queue)
      BY <1>1, <2>2, LineFirst
    <3>2. LineOf(Tail(Left), Held, queue) \in Seq(Messages)
      BY <1>1, <2>3, LineProperties
    <3> QED
      BY <1>3, <2>1, <2>4, <3>1, <3>2
  <2> QED
    BY <1>4, <2>1, <2>3, <2>5
<1>6. ASSUME read = Len(deferred) PROVE Left = <<>>
  BY <1>1, <1>2, <1>6, EmptySeq
<1>7. CASE NextOverflow
  <2>1. /\ OuterNext /\ UNCHANGED <<sent, modal>> /\ queue' = queue /\ Left' = Left
        /\ read = Len(deferred) /\ overflow # NoMessage /\ outer' = overflow
        /\ Held = <<overflow>> /\ Held' = <<>>
    BY <1>7 DEF NextOverflow, Held, Left
  <2>2. overflow \in Messages /\ <<overflow>> \in Seq(Messages)
    BY <1>2, <2>1
  <2>3. Waiting = <<overflow>> \o queue /\ Waiting' = queue
    <3>1. /\ LineOf(<<>>, <<overflow>>, queue) = <<overflow>> \o queue
          /\ LineOf(<<>>, <<>>, queue) = queue
      BY <1>1, <2>2, LineNoneLeft
    <3> QED
      BY <1>3, <1>6, <2>1, <3>1
  <2> QED
    BY <1>1, <1>4, <2>1, <2>2, <2>3
<1>8. CASE NextQueued
  <2>1. /\ OuterNext /\ UNCHANGED <<sent, modal>> /\ Left' = Left /\ Held' = Held
        /\ read = Len(deferred) /\ Held = <<>> /\ queue # <<>>
        /\ outer' = Head(queue) /\ queue' = Tail(queue)
    BY <1>8 DEF NextQueued, QueueIsNext, mailbox, Held, Left
  <2>2. Head(queue) \in Messages /\ Tail(queue) \in Seq(Messages) /\ queue = <<Head(queue)>> \o Tail(queue)
    BY <1>1, <2>1, HeadThenTail
  <2>3. Waiting = queue /\ Waiting' = Tail(queue)
    <3>1. /\ LineOf(<<>>, <<>>, queue) = queue
          /\ LineOf(<<>>, <<>>, Tail(queue)) = Tail(queue)
      BY <1>1, <2>2, LineNoneLeft
    <3> QED
      BY <1>3, <1>6, <2>1, <3>1
  <2> QED
    BY <1>4, <2>1, <2>2, <2>3
<1> QED
  BY <1>5, <1>7, <1>8

\* A message appended to the deferred list is the last of what is left of it.
LEMMA LeftGrows ==
  ASSUME TypeOK, NEW m \in Messages \ Safe, read' = read,
         deferred' = Append(deferred, m)
  PROVE  Left' = Append(Left, m)
<1>1. /\ deferred \in Seq(Messages \ Safe) /\ read \in Nat /\ Len(deferred) \in Nat
      /\ read <= Len(deferred)
  BY PartsOfLine, LenProperties DEF TypeOK
<1> DEFINE more == Append(deferred, m)
           left == SubSeq(more, read + 1, Len(deferred) + 1)
<1>2. /\ more \in Seq(Messages \ Safe) /\ Len(more) = Len(deferred) + 1
      /\ \A i \in 1..Len(deferred) : more[i] = deferred[i]
      /\ more[Len(deferred) + 1] = m
  BY <1>1, AppendProperties
<1>3. /\ Left \in Seq(Messages \ Safe) /\ Len(Left) = Len(deferred) - read
      /\ \A i \in 1..Len(Left) : Left[i] = deferred[read + i]
  BY PartsOfLine
<1>4. /\ Left' = left /\ left \in Seq(Messages \ Safe)
      /\ Len(left) = Len(deferred) + 1 - read
      /\ \A i \in 1 .. Len(deferred) + 1 - read : left[i] = more[read + i]
  <2>1. \A i \in (read + 1) .. Len(deferred) + 1 : more[i] \in Messages \ Safe
    <3>1. \A i \in 1 .. Len(more) : more[i] \in Messages \ Safe
      BY <1>2, ElementOfSeq
    <3> QED
      BY <1>1, <1>2, <3>1
  <2>2. read + 1 \in Int /\ Len(deferred) + 1 \in Int
    BY <1>1
  <2>3. Left' = left
    BY <1>2 DEF Left
  <2> HIDE DEF more
  <2>4. /\ left \in Seq(Messages \ Safe)
        /\ Len(left) = IF read + 1 <= Len(deferred) + 1
                       THEN (Len(deferred) + 1) - (read + 1) + 1 ELSE 0
        /\ \A i \in 1 .. (Len(deferred) + 1) - (read + 1) + 1 :
              left[i] = more[(read + 1) + i - 1]
    BY <2>1, <2>2, SubSeqProperties
  <2> HIDE DEF left
  <2> QED
    BY <1>1, <2>3, <2>4
<1>5. /\ Append(Left, m) \in Seq(Messages \ Safe) /\ Len(Append(Left, m)) = Len(Left) + 1
      /\ \A i \in 1..Len(Left) : Append(Left, m)[i] = Left[i]
      /\ Append(Left, m)[Len(Left) + 1] = m
  BY <1>3, AppendProperties
<1> HIDE DEF more, left
<1>6. Len(left) = Len(Left) + 1 /\ Len(Left) \in Nat
  BY <1>1, <1>3, <1>4
<1>7. \A i \in 1 .. Len(Left) + 1 : left[i] = more[read + i]
  BY <1>1, <1>3, <1>4
<1>8. ASSUME NEW i \in 1 .. Len(Left) + 1 PROVE left[i] = Append(Left, m)[i]
  <2>1. CASE i \in 1 .. Len(Left)
    <3>1. read + i \in 1 .. Len(deferred)
      BY <1>1, <1>3, <2>1
    <3> QED
      BY <1>2, <1>3, <1>5, <1>7, <2>1, <3>1
  <2>2. CASE i = Len(Left) + 1
    <3>1. read + i = Len(deferred) + 1
      BY <1>1, <1>3, <2>2
    <3> QED
      BY <1>2, <1>5, <1>7, <2>2, <3>1
  <2> QED
    BY <1>6, <2>1, <2>2
<1> QED
  BY <1>4, <1>5, <1>6, <1>8, SeqEqual

\* A modal tick takes the first safe message of the line, and what it defers,
\* or fails to, keeps its place (ModalMailbox.next).
LEMMA ModalTakesSafe ==
  ASSUME TypeOK, ModalPops
  PROVE  Line!Next
<1> USE ModalAssumption
<1>1. /\ Left \in Seq(Messages) /\ queue \in Seq(Messages) /\ Left \in Seq(Messages \ Safe)
      /\ read <= Len(deferred)
  BY PartsOfLine
<1>2. /\ deferred \in Seq(Messages \ Safe) /\ read \in Nat /\ Len(deferred) \in Nat
  BY LenProperties DEF TypeOK
<1>3. Waiting = LineOf(Left, Held, queue) /\ Waiting' = LineOf(Left', Held', queue')
  BY DEF Waiting, Left, LineOf
<1>4. /\ modal = "next" /\ overflow = NoMessage /\ Held = <<>>
      /\ queue # <<>> /\ queue' = Tail(queue) /\ UNCHANGED <<sent, outer, read>>
  BY DEF ModalPops, Held
<1>5. /\ Head(queue) \in Messages /\ Tail(queue) \in Seq(Messages) /\ queue = <<Head(queue)>> \o Tail(queue)
  BY <1>1, <1>4, HeadThenTail
<1>6. CASE Head(queue) \in Safe
  <2>1. modal' = Head(queue) /\ UNCHANGED <<deferred, overflow>>
    BY <1>6 DEF ModalPops, MessageSafeDuringModal
  <2>2. Waiting = Left \o queue /\ Waiting' = Left \o Tail(queue)
    <3>1. Left' = Left /\ Held' = <<>>
      BY <1>4, <2>1 DEF Left, Held
    <3>2. /\ LineOf(Left, <<>>, queue) = Left \o queue
          /\ LineOf(Left, <<>>, Tail(queue)) = Left \o Tail(queue)
      BY <1>1, <1>5, LineNoneHeld
    <3> QED
      BY <1>3, <1>4, <3>1, <3>2
  <2> DEFINE k == Len(Left) + 1
  <2>3. /\ k \in 1 .. Len(Waiting) /\ Waiting[k] = Head(queue)
        /\ \A i \in 1 .. Len(Left) : Waiting[i] = Left[i]
        /\ Line!RemoveAt(Waiting, k) = Waiting'
    BY <1>1, <1>4, <2>2, RemoveBehind
  <2>4. \A j \in 1 .. k - 1 : Waiting[j] \notin Safe
    <3>1. Len(Left) \in Nat /\ k - 1 = Len(Left)
      BY <1>1, LenProperties
    <3>2. \A j \in 1 .. Len(Left) : Left[j] \in Messages \ Safe
      BY <1>1, ElementOfSeq
    <3> QED
      BY <2>3, <3>1, <3>2
  <2> HIDE DEF k
  <2>5. Line!FirstSafe(k)
    BY <1>6, <2>3, <2>4 DEF Line!FirstSafe
  <2>6. Line!TakeSafe
    BY <1>4, <2>1, <2>3, <2>5 DEF Line!TakeSafe
  <2> QED
    BY <2>6 DEF Line!Next
<1>7. CASE Head(queue) \notin Safe
  <2>1. Defer(Head(queue)) /\ Head(queue) \in Messages \ Safe
    BY <1>5, <1>7 DEF ModalPops, MessageSafeDuringModal
  <2>2. Waiting = LineOf(Left, <<>>, <<Head(queue)>> \o Tail(queue))
    BY <1>3, <1>4, <1>5
  <2>0. ASSUME NEW m \in Messages, NEW q \in Seq(Messages)
        PROVE  /\ LineOf(Append(Left, m), <<>>, q) = LineOf(Left, <<m>>, q)
               /\ LineOf(Left, <<m>>, q) = LineOf(Left, <<>>, <<m>> \o q)
    BY <1>1, LineDefers
  <2>3. Waiting = LineOf(Left, <<Head(queue)>>, Tail(queue))
    BY <1>5, <2>0, <2>2
  <2>4. Waiting = LineOf(Append(Left, Head(queue)), <<>>, Tail(queue))
    BY <1>5, <2>0, <2>3
  <2>5. Waiting' = Waiting
    <3>1. CASE deferred' = Append(deferred, Head(queue)) /\ UNCHANGED overflow
      <4>1. Left' = Append(Left, Head(queue))
        BY <1>2, <1>4, <2>1, <3>1, LeftGrows
      <4>2. Held' = <<>>
        BY <1>4, <3>1 DEF Held
      <4> QED
        BY <1>3, <1>4, <2>4, <4>1, <4>2
    <3>2. CASE overflow' = Head(queue) /\ UNCHANGED deferred
      <4>1. Left' = Left /\ Held' = <<Head(queue)>>
        BY <1>4, <2>1, <3>2 DEF Left, Held
      <4> QED
        BY <1>3, <1>4, <2>3, <4>1
    <3> QED
      BY <2>1, <3>1, <3>2 DEF Defer
  <2>6. modal' \in {modal, "off"}
    BY <2>1 DEF Defer, NoStorage
  <2>7. Line!Tick
    BY <1>4, <2>5, <2>6 DEF Line!Tick
  <2> QED
    BY <2>7 DEF Line!Next
<1> QED
  BY <1>6, <1>7

\* Every step sends, handles the next message of the line, or leaves the
\* line alone.
LEMMA LineStep ==
  ASSUME TypeOK, [Next]_vars
  PROVE  [Line!Next]_(Line!vars)
<1> USE ModalAssumption
<1>1. ASSUME Waiting' = Waiting, sent' = sent, outer' \in {outer, "off", "next"},
             modal' \in {modal, "off", "next"}, modal # "off" => outer' = outer
      PROVE  Line!Next
  <2>1. Line!Tick
    BY <1>1 DEF Line!Tick
  <2> QED
    BY <2>1 DEF Line!Next
<1>2. ASSUME UNCHANGED <<deferred, read, overflow, queue>> PROVE Waiting' = Waiting
  BY <1>2 DEF Waiting, Held
<1>3. ASSUME NEW m \in Messages, Push(m) PROVE Line!Next
  <2>1. /\ Left \in Seq(Messages) /\ Held \in Seq(Messages) /\ queue \in Seq(Messages)
    BY PartsOfLine
  <2>2. LineOf(Left, Held, Append(queue, m)) = Append(LineOf(Left, Held, queue), m)
    BY <2>1, LineAppend
  <2>3. /\ m \notin sent /\ sent' = sent \cup {m} /\ UNCHANGED <<outer, modal>>
        /\ queue' = Append(queue, m) /\ Held' = Held /\ Left' = Left
    BY <1>3 DEF Push, mailbox, Held, Left
  <2>4. Waiting = LineOf(Left, Held, queue) /\ Waiting' = LineOf(Left', Held', queue')
    BY DEF Waiting, Left, LineOf
  <2>5. Waiting' = Append(Waiting, m)
    BY <2>2, <2>3, <2>4
  <2>6. Line!Send(m)
    BY <2>3, <2>5 DEF Line!Send
  <2> QED
    BY <1>3, <2>6 DEF Line!Next
<1>4. CASE Post
  BY <1>1, <1>2, <1>4 DEF Post, mailbox
<1>5. CASE OtherDelivery
  BY <1>1, <1>2, <1>5 DEF OtherDelivery, TickModal
<1>6. CASE ModalRefused
  BY <1>1, <1>2, <1>6 DEF ModalRefused, mailbox
<1>7. CASE Dispatch
  BY <1>1, <1>2, <1>7 DEF Dispatch, mailbox
<1>8. CASE HandlerOpens
  BY <1>1, <1>2, <1>8 DEF HandlerOpens, mailbox
<1>9. CASE NativeEnds
  BY <1>1, <1>2, <1>9 DEF NativeEnds, mailbox
<1>10. CASE OuterBegins
  BY <1>1, <1>2, <1>10 DEF OuterBegins, mailbox
<1>11. CASE NextDeferred \/ NextOverflow \/ NextQueued
  BY <1>11, OuterTakesFirst DEF Line!Next
<1>12. CASE OuterDrained
  BY <1>1, <1>2, <1>12 DEF OuterDrained, QueueIsNext, OuterNext, mailbox
<1>13. CASE OuterHandled
  BY <1>1, <1>2, <1>13 DEF OuterHandled, mailbox
<1>14. CASE ModalBegins
  BY <1>1, <1>2, <1>14 DEF ModalBegins, TickModal
<1>15. CASE ModalFlushes
  <2>1. modal = "next" /\ UNCHANGED <<queue, sent, read, outer>> /\ modal' \in {modal, "off"}
    BY <1>15 DEF ModalFlushes, NoStorage
  <2>2. CASE deferred' = Append(deferred, overflow) /\ overflow' = NoMessage
    <3>1. overflow \in Messages \ Safe /\ Held = <<overflow>> /\ Held' = <<>>
      BY <1>15, <2>2 DEF ModalFlushes, TypeOK, Held
    <3>2. Left' = Append(Left, overflow)
      BY <2>1, <2>2, <3>1, LeftGrows
    <3>3. Left \in Seq(Messages) /\ queue \in Seq(Messages) /\ overflow \in Messages
      BY <3>1, PartsOfLine
    <3>4. LineOf(Append(Left, overflow), <<>>, queue) = LineOf(Left, <<overflow>>, queue)
      BY <3>3, LineDefers
    <3>5. Waiting = LineOf(Left, Held, queue) /\ Waiting' = LineOf(Left', Held', queue')
      BY DEF Waiting, Left, LineOf
    <3>6. Waiting' = Waiting
      BY <2>1, <3>1, <3>2, <3>4, <3>5
    <3> QED
      BY <1>1, <2>1, <3>6
  <2>3. CASE UNCHANGED <<deferred, overflow>>
    BY <1>1, <1>2, <2>1, <2>3
  <2> QED
    BY <1>15, <2>2, <2>3 DEF ModalFlushes
<1>16. CASE ModalPops
  BY <1>16, ModalTakesSafe
<1>17. CASE ModalHandled
  BY <1>1, <1>2, <1>17 DEF ModalHandled, mailbox
<1>18. CASE ModalEnds
  BY <1>1, <1>2, <1>18 DEF ModalEnds, mailbox
<1>19. CASE UNCHANGED vars
  <2>1. Waiting' = Waiting /\ UNCHANGED <<sent, outer, modal>>
    BY <1>2, <1>19 DEF vars, mailbox
  <2> QED
    BY <2>1 DEF Line!vars
<1> QED
  BY <1>3, <1>4, <1>5, <1>6, <1>7, <1>8, <1>9, <1>10, <1>11, <1>12, <1>13,
     <1>14, <1>15, <1>16, <1>17, <1>18, <1>19
     DEF Next, OuterSteps, ModalSteps

\* The mailbox with its deferred list implements one line in the order of
\* sending: the outer tick handles its first message and a modal tick its first
\* safe one, whatever is deferred, cannot be deferred or nests (App.zig's
\* "unsafe messages retain their original FIFO order").
THEOREM MailboxIsOneLine == Spec => ImplementsLine
<1>1. Init => Line!Init
  <2> SUFFICES ASSUME Init PROVE Line!Init
    OBVIOUS
  <2>1. /\ queue = <<>> /\ deferred = <<>> /\ read = 0 /\ overflow = NoMessage
        /\ sent = {} /\ outer = "off" /\ modal = "off"
    BY DEF Init
  <2>2. SubSeq(deferred, read + 1, Len(deferred)) = <<>>
    <3>1. SubSeq(<<>>, 1, 0) = <<>> /\ Len(<<>>) = 0
      BY SubSeqEmpty
    <3> QED
      BY <2>1, <3>1
  <2>3. Waiting = <<>>
    BY <2>1, <2>2, ConcatEmptySeq DEF Waiting, Held
  <2> QED
    BY <2>1, <2>3 DEF Line!Init
<1>2. TypeOK /\ [Next]_vars => [Line!Next]_(Line!vars)
  BY LineStep
<1> QED
  BY <1>1, <1>2, TypeCorrect, PTL DEF Spec, ImplementsLine, Line!Spec
=============================================================================
