------------------------ MODULE OutputTransportProofs ------------------------
(* TLAPS proofs about OutputTransport, for any ring, captures and bounds.     *)
EXTENDS OutputTransport, TLAPS

-----------------------------------------------------------------------------
(* The inductive invariant.                                                   *)

ReaderPcs == {"idle", "check", "pending", "current", "remove", "try", "fill",
              "mark", "claim", "unlock", "done"}
UiPcs     == {"idle", "lock", "lock_on", "unmark", "unmark_on", "begin",
              "drain", "swap", "unlock", "tell"}
Chunk   == [at : Nat, reset : BOOLEAN]
Part    == [first : Nat, count : Nat, cut : BOOLEAN, reset : BOOLEAN]
Item    == [kind : {"data", "reset", "cut"}, epoch : Nat]
ReaderType == [pc : ReaderPcs, at : {"entry", "locked", "marking"},
               epoch : Nat, seen : Nat, parts : Seq(Part)]
Telling == [kind : {"data", "reset", "omitted"}, at : Nat, epoch : Nat]
TypeOK ==
    /\ interest \in Nat /\ pending \in Nat
    /\ mutex \in {"free", "reader", "ui"}
    /\ ring \in Seq(Chunk)
    /\ trailing \in BOOLEAN
    /\ reader \in ReaderType
    /\ ui \in [pc : UiPcs, chunks : Seq(Chunk), reset : BOOLEAN, omitted : BOOLEAN]
    /\ made \in Seq(Item)
    /\ told \in Seq(Telling)

\* Who holds the mutex is where it takes it.
MutexInv ==
    /\ mutex = "ui" <=> ui.pc \in {"unmark", "unmark_on", "begin", "swap", "unlock"}
    /\ reader.at = "entry" => mutex # "reader"
    /\ reader.at = "locked" => mutex = "reader"
    /\ reader.pc = "unlock" => mutex = "reader"
    /\ reader.pc \in {"idle", "done"} => mutex # "reader"
    /\ reader.pc = "try" => reader.at = "entry"
    /\ reader.pc = "fill" => reader.at = "locked"
    /\ reader.pc = "claim" => reader.at = "marking"

\* The reader has seen its epoch under the mutex: the UI thread may have ended
\* it since, but has not begun another. Between two epochs nobody listens.
Between == ui.pc \in {"lock", "lock_on", "unmark", "unmark_on", "begin"}
Checked == reader.at = "locked" /\ reader.pc \in {"pending", "current", "remove", "fill"}
EpochInv ==
    /\ Checked => \/ interest = reader.epoch
                  \/ interest = reader.epoch + 1 /\ ui.pc = "lock"
    /\ reader.pc \notin {"idle", "done"} => reader.epoch # 0
    /\ reader.epoch <= interest
    /\ Between => interest % 2 = 0
    /\ ui.pc \in {"drain", "swap"} => interest # 0

\* Only the reader makes marks, each of its own epoch, and it removes older ones.
MarkInv ==
    /\ pending <= interest
    /\ reader.pc \notin {"idle", "done"} => pending <= reader.epoch
    /\ reader.pc \in {"current", "remove"} => reader.seen < reader.epoch
    /\ reader.pc \in {"current", "remove", "try", "fill", "claim"} => pending # reader.epoch

\* What a drain holds, and the ring that is empty while the UI thread works.
UiInv ==
    /\ ui.pc \notin {"swap", "unlock", "tell"} => ui.chunks = <<>> /\ ~ui.omitted
    /\ ui.pc = "swap" => ~ui.omitted
    /\ ui.pc \in {"unmark", "unmark_on", "begin", "swap"} => ring = <<>>

\* Where the reader is and what it has still to push.
Marking == reader.pc \in {"mark", "claim"} \/ reader.at = "marking"
AtInv ==
    /\ reader.pc \in {"check", "pending", "current", "remove", "try", "fill"}
         => Marking \/ reader.parts # <<>>
    /\ reader.pc \in {"idle", "done"} => reader.parts = <<>>
    /\ reader.pc = "unlock" /\ reader.at = "marking" => reader.parts = <<>>
    /\ reader.at = "marking" => reader.pc \in {"pending", "current", "remove", "mark",
                                               "claim", "unlock", "done"}

Control == MutexInv /\ EpochInv /\ MarkInv /\ UiInv /\ AtInv

\* What was captured is for an epoch of somebody who listened.
EpochOf(n) == made[n].epoch
MadeInv == /\ \A n \in DOMAIN made : EpochOf(n) <= interest /\ EpochOf(n) % 2 = 1
           /\ \A i \in DOMAIN told : told[i].epoch <= interest

\* The captures are decided in the order they are made: what the reader has
\* still to push is the end of made.
Decided == IF Marking \/ reader.parts = <<>> THEN Len(made) ELSE reader.parts[1].first
End(p) == reader.parts[p].first + reader.parts[p].count
\* One part is left, up to the end: its last item is its last chunk, a reset
\* behind it, or says that the capture was cut short.
LastPart(p) ==
    \/ /\ ~reader.parts[p].cut /\ End(p) = Len(made)
       /\ reader.parts[p].count = 0 => made[Len(made)].kind = "reset"
    \/ reader.parts[p].cut /\ End(p) < Len(made) /\ made[Len(made)].kind = "cut"
PartsInv ==
    /\ \A p \in DOMAIN reader.parts :
         /\ End(p) <= Len(made)
         /\ \A n \in (reader.parts[p].first + 1)..End(p) : made[n].kind = "data"
    /\ \/ Len(reader.parts) = 0
       \/ Len(reader.parts) = 1 /\ LastPart(1)
       \/ /\ Len(reader.parts) = 2 /\ LastPart(2)
          /\ ~reader.parts[1].cut
          /\ End(1) <= reader.parts[2].first
          /\ \A n \in (End(1) + 1)..reader.parts[2].first : made[n].kind = "reset"
    /\ reader.parts # <<>> =>
         /\ Len(made) > 0 /\ EpochOf(Len(made)) = reader.epoch
         /\ \A n \in DOMAIN made : n > reader.parts[1].first => EpochOf(n) = reader.epoch

\* Where what was captured is.
Taken    == {ui.chunks[i].at : i \in DOMAIN ui.chunks}
HeardNow == {told[i].at : i \in {i \in DOMAIN told : IsData(i) /\ told[i].epoch = interest}}
Kept     == TextTold \cup Taken \cup Retained
PlaceInv ==
    /\ Kept \subseteq DOMAIN made
    /\ \A n \in Taken : EpochOf(n) = interest
    /\ \A n \in Retained : \/ EpochOf(n) = interest
                           \/ ui.pc = "lock" /\ EpochOf(n) + 1 = interest
    /\ \A j \in DOMAIN told : IsData(j) => EpochOf(told[j].at) = told[j].epoch
\* All of it in the order it was captured.
OrderInv ==
    /\ \A i, k \in DOMAIN ring : i < k => ring[i].at < ring[k].at
    /\ \A i, k \in DOMAIN ui.chunks : i < k => ui.chunks[i].at < ui.chunks[k].at
    /\ \A a \in HeardNow, b \in Taken \cup Retained : a < b
    /\ \A a \in Taken, b \in Retained : a < b
    /\ \A a \in Kept : a <= Decided

\* Something captured for epoch e can no longer be told.
LostAt(n, e) == /\ n \in DOMAIN made /\ n <= Decided /\ EpochOf(n) = e
                /\ made[n].kind = "data" => n \notin Kept
Lost(e) == \E n \in DOMAIN made : LostAt(n, e)
Dropping == Marking /\ reader.pc \notin {"unlock", "done"}
LossInv ==
    /\ Dropping => Lost(reader.epoch)
    /\ pending # 0 => Lost(pending)
    /\ ui.omitted => Lost(interest)
    /\ \A j \in DOMAIN told : told[j].kind = "omitted" => Lost(told[j].epoch)

\* What is missing of the present epoch has been told, or is going to be told
\* before anything newer is.
Missing(n) == /\ n \in DOMAIN made /\ n <= Decided
              /\ EpochOf(n) = interest /\ made[n].kind # "reset"
              /\ n \notin Kept
ToldOf(n) ==
    /\ \E i \in DOMAIN told :
         /\ told[i].kind = "omitted" /\ told[i].epoch = interest
         /\ \A k \in DOMAIN told :
              k > i /\ IsData(k) /\ told[k].epoch = interest => n < told[k].at
    /\ \A b \in Taken \cup Retained : n < b
ToTell(n) ==
    /\ ui.omitted
    /\ \A a \in HeardNow \cup Taken : a < n
    /\ \A b \in Retained : n < b
Marked(n) ==
    /\ pending = interest \/ (Dropping /\ reader.epoch = interest)
    /\ \A a \in HeardNow \cup Taken \cup Retained : a < n
GapInv == \A n \in DOMAIN made : Missing(n) => ToldOf(n) \/ ToTell(n) \/ Marked(n)

IInv == /\ TypeOK /\ Control /\ MadeInv /\ PartsInv /\ PlaceInv /\ OrderInv
        /\ LossInv /\ GapInv /\ NoSilentGap

-----------------------------------------------------------------------------
(* Data: sequences, chunks and what is said.                                *)

\* Nothing is the empty sequence, of parts or of chunks.
LEMMA NothingIsParts == Nothing \in Seq(Part) /\ Nothing = <<>> /\ <<>> \in Seq(Chunk)
  BY DEF Nothing

\* The lengths of the histories.
LEMMA Lengths ==
  ASSUME TypeOK
  PROVE  /\ Len(made) \in Nat /\ DOMAIN made = 1..Len(made)
         /\ Len(told) \in Nat /\ DOMAIN told = 1..Len(told)
<1>1. made \in Seq(Item) /\ told \in Seq(Telling)
  BY DEF TypeOK, ReaderType
<1>. QED  BY <1>1

\* The same of the next state.
LEMMA LengthsNext ==
  ASSUME TypeOK'
  PROVE  /\ Len(made') \in Nat /\ DOMAIN made' = 1..Len(made')
         /\ Len(told') \in Nat /\ DOMAIN told' = 1..Len(told')
<1>1. made' \in Seq(Item) /\ told' \in Seq(Telling)
  BY DEF TypeOK, ReaderType
<1>. QED  BY <1>1

\* The interest state is even or odd, and the next one the other.
LEMMA Parity == \A n \in Nat : /\ n % 2 \in {0, 1}
                               /\ n % 2 = 1 => n # 0 /\ (n + 1) % 2 = 0
                               /\ n % 2 = 0 => (n + 1) % 2 = 1
  OBVIOUS

\* A capture is pushed in one part or two.
LEMMA PartsThere ==
  ASSUME NEW c \in Captures
  PROVE  Parts(c) # <<>> /\ Len(Parts(c)) \in {1, 2}
  BY DEF Parts

\* The chunks a part adds are as many as fit, numbered from its first item on.
LEMMA AddedChunks ==
  ASSUME TypeOK, NEW part \in Part
  PROVE  /\ Fits(part) \in Int /\ Fits(part) <= part.count
         /\ Added(part) \in Seq(Chunk)
         /\ Len(Added(part)) = IF Fits(part) > 0 THEN Fits(part) ELSE 0
         /\ \A i \in 1..Fits(part) : Added(part)[i].at = part.first + i
<1>1. Fits(part) \in Int /\ Fits(part) <= part.count
  BY TransportAssumption DEF TypeOK, ReaderType, Part, Fits
<1>2. part.first \in Nat /\ ResetPending(part) \in BOOLEAN
  BY DEF TypeOK, ReaderType, Part, ResetPending
<1>3. \A i \in 1..Fits(part) : /\ Added(part)[i] \in Chunk
                               /\ Added(part)[i].at = part.first + i
  BY <1>1, <1>2 DEF Added, Chunk
<1>4. Added(part) \in [1..Fits(part) -> Chunk]
  BY <1>3 DEF Added
<1>. DEFINE f == Fits(part)
            s == Added(part)
<1>5. CASE f > 0
  <2>. HIDE DEF f, s
  <2>1. f \in Nat /\ s \in [1..f -> Chunk]
    BY <1>1, <1>4, <1>5 DEF f, s
  <2>2. s \in Seq(Chunk) /\ Len(s) = f
    BY <2>1
  <2>. QED  BY <1>1, <1>3, <1>5, <2>2 DEF f, s
<1>6. CASE ~(f > 0)
  <2>. HIDE DEF f, s
  <2>1. 1..f = 1..0
    BY <1>1, <1>6 DEF f
  <2>2. s \in [1..0 -> Chunk]
    BY <1>4, <2>1 DEF f, s
  <2>3. s \in Seq(Chunk) /\ Len(s) = 0
    BY <2>2
  <2>. QED  BY <1>1, <1>3, <1>6, <2>3 DEF f, s
<1>. QED  BY <1>5, <1>6

\* What is said is appended, or nothing is.
LEMMA SayAdds ==
  ASSUME interest \in Nat, NEW log \in Seq(Telling), NEW b \in BOOLEAN, NEW at \in Nat,
         NEW kind \in {"data", "reset", "omitted"}
  PROVE  /\ Say(log, b, kind, at) \in Seq(Telling)
         /\ b => /\ Len(Say(log, b, kind, at)) = Len(log) + 1
                 /\ Say(log, b, kind, at)[Len(log) + 1]
                      = [kind |-> kind, at |-> at, epoch |-> interest]
         /\ ~b => Say(log, b, kind, at) = log
         /\ \A i \in 1..Len(log) : Say(log, b, kind, at)[i] = log[i]
<1>. DEFINE x == [kind |-> kind, at |-> at, epoch |-> interest]
<1>1. x \in Telling
  BY DEF Telling
<1>. HIDE DEF x
<1>2. /\ Append(log, x) \in Seq(Telling)
      /\ Len(Append(log, x)) = Len(log) + 1
      /\ Append(log, x)[Len(log) + 1] = x
      /\ \A i \in 1..Len(log) : Append(log, x)[i] = log[i]
  BY <1>1
<1>3. Say(log, b, kind, at) = IF b THEN Append(log, x) ELSE log
  BY DEF Say, x
<1>4. x = [kind |-> kind, at |-> at, epoch |-> interest]
  BY DEF x
<1>. QED  BY <1>2, <1>3, <1>4

\* A step of the reader, by what it makes of the reader.
Becomes(pc, at, parts) ==
    /\ reader' \in ReaderType
    /\ reader'.pc = pc /\ reader'.at = at /\ reader'.parts = parts
    /\ reader'.epoch = reader.epoch

\* What each way to move the reader makes of it.
LEMMA Moves ==
  ASSUME TypeOK
  PROVE  /\ \A pc \in ReaderPcs : ReaderTo(pc) =>
              Becomes(pc, reader.at, reader.parts) /\ reader'.seen = reader.seen
         /\ GivesUp => Becomes(Finished, reader.at, <<>>)
         /\ \A pc \in ReaderPcs, at \in {"entry", "locked", "marking"} :
              reader' = [reader EXCEPT !.pc = pc, !.at = at] =>
                Becomes(pc, at, reader.parts) /\ reader'.seen = reader.seen
         /\ reader' = [reader EXCEPT !.pc = "current", !.seen = pending] =>
              Becomes("current", reader.at, reader.parts) /\ reader'.seen = pending
<1>0. reader \in ReaderType /\ pending \in Nat
  BY DEF TypeOK, ReaderType
<1>1. ASSUME NEW pc \in ReaderPcs, ReaderTo(pc)
      PROVE  Becomes(pc, reader.at, reader.parts) /\ reader'.seen = reader.seen
  BY <1>0, <1>1 DEF ReaderTo, Becomes, ReaderType
<1>2. ASSUME GivesUp PROVE Becomes(Finished, reader.at, <<>>)
  <2>1. Finished \in ReaderPcs
    BY DEF Finished, ReaderPcs
  <2>2. reader' = [reader EXCEPT !.pc = Finished, !.parts = Nothing]
    BY <1>2 DEF GivesUp
  <2>. QED  BY <1>0, <2>1, <2>2, NothingIsParts DEF Becomes, ReaderType
<1>3. ASSUME NEW pc \in ReaderPcs, NEW at \in {"entry", "locked", "marking"},
             reader' = [reader EXCEPT !.pc = pc, !.at = at]
      PROVE  Becomes(pc, at, reader.parts) /\ reader'.seen = reader.seen
  BY <1>0, <1>3 DEF Becomes, ReaderType
<1>4. ASSUME reader' = [reader EXCEPT !.pc = "current", !.seen = pending]
      PROVE  Becomes("current", reader.at, reader.parts) /\ reader'.seen = pending
  BY <1>0, <1>4 DEF Becomes, ReaderType, ReaderPcs
<1>. QED  BY <1>1, <1>2, <1>3, <1>4

\* What the types say of the reader.
LEMMA ReaderTypes ==
  ASSUME TypeOK
  PROVE  /\ reader.pc \in ReaderPcs /\ reader.at \in {"entry", "locked", "marking"}
         /\ reader.epoch \in Nat /\ reader.seen \in Nat /\ reader.parts \in Seq(Part)
         /\ interest \in Nat /\ pending \in Nat /\ mutex \in {"free", "reader", "ui"}
  BY DEF TypeOK, ReaderType, ReaderType

\* Where omissionPendingForEpoch goes on to when there is no mark.
Onward ==
    \/ reader.at = "entry"   /\ Becomes("try", reader.at, reader.parts)
    \/ reader.at = "locked"  /\ Becomes("fill", reader.at, reader.parts)
    \/ reader.at = "marking" /\ Becomes("claim", reader.at, reader.parts)

\* With no mark of its epoch the reader goes on.
LEMMA NotPendingEffect ==
  ASSUME TypeOK, NotPending
  PROVE  Onward
<1>1. {"try", "fill", "claim"} \subseteq ReaderPcs
  BY DEF ReaderPcs
<1>. QED  BY <1>1, Moves DEF NotPending, Onward

\* The epoch is looked at.
LEMMA CheckEpochEffect ==
  ASSUME IInv, CheckEpoch
  PROVE  /\ interest' = interest /\ pending' = pending /\ mutex' = mutex /\ ring' = ring
         /\ trailing' = trailing /\ ui' = ui /\ made' = made
         /\ told' = told
         /\ reader.pc = "check"
         /\ \/ interest = reader.epoch /\ Becomes("pending", reader.at, reader.parts)
            \/ interest # reader.epoch /\ Becomes(Finished, reader.at, <<>>)
<1>1. TypeOK
  BY DEF IInv
<1>. QED  BY <1>1, Moves DEF CheckEpoch, shared, ReaderPcs

\* The mark is read.
LEMMA ReadPendingEffect ==
  ASSUME IInv, ReadPending
  PROVE  /\ interest' = interest /\ pending' = pending /\ mutex' = mutex /\ ring' = ring
         /\ trailing' = trailing /\ ui' = ui /\ made' = made
         /\ told' = told
         /\ reader.pc = "pending"
         /\ \/ pending = 0 /\ Onward
            \/ pending # 0 /\ pending = reader.epoch /\ Becomes(Finished, reader.at, <<>>)
            \/ /\ pending # 0 /\ pending # reader.epoch
               /\ Becomes("current", reader.at, reader.parts) /\ reader'.seen = pending
<1>1. TypeOK
  BY DEF IInv
<1>. QED  BY <1>1, Moves, NotPendingEffect DEF ReadPending, shared, ReaderPcs

\* The interest is compared with the mark.
LEMMA ReadCurrentEffect ==
  ASSUME IInv, ReadCurrent
  PROVE  /\ interest' = interest /\ pending' = pending /\ mutex' = mutex /\ ring' = ring
         /\ trailing' = trailing /\ ui' = ui /\ made' = made
         /\ told' = told
         /\ reader.pc = "current"
         /\ \/ (interest # reader.epoch \/ reader.seen = interest) /\ Onward
            \/ /\ interest = reader.epoch /\ reader.seen # interest
               /\ Becomes("remove", reader.at, reader.parts) /\ reader'.seen = reader.seen
<1>1. TypeOK
  BY DEF IInv
<1>. QED  BY <1>1, Moves, NotPendingEffect DEF ReadCurrent, shared, ReaderPcs

\* An older mark is removed.
LEMMA RemoveMarkEffect ==
  ASSUME IInv, RemoveMark
  PROVE  /\ interest' = interest /\ mutex' = mutex /\ ring' = ring /\ trailing' = trailing
         /\ ui' = ui /\ made' = made /\ told' = told
         /\ reader.pc = "remove"
         /\ Becomes("pending", reader.at, reader.parts)
         /\ \/ pending = reader.seen /\ pending' = 0
            \/ pending # reader.seen /\ pending' = pending
<1>1. TypeOK
  BY DEF IInv
<1>. QED  BY <1>1, Moves DEF RemoveMark, ReaderPcs

\* The mutex is tried.
LEMMA TryLockEffect ==
  ASSUME IInv, TryLock
  PROVE  /\ interest' = interest /\ pending' = pending /\ ring' = ring
         /\ trailing' = trailing /\ ui' = ui /\ made' = made
         /\ told' = told
         /\ reader.pc = "try"
         /\ \/ /\ mutex = "free" /\ mutex' = "reader"
               /\ Becomes("check", "locked", reader.parts)
            \/ /\ mutex # "free" /\ mutex' = mutex
               /\ Becomes("mark", reader.at, reader.parts)
<1>1. TypeOK
  BY DEF IInv
<1>. QED  BY <1>1, Moves DEF TryLock, ReaderPcs

\* A mark is to be made.
LEMMA MarkEffect ==
  ASSUME IInv, Mark
  PROVE  /\ interest' = interest /\ pending' = pending /\ mutex' = mutex /\ ring' = ring
         /\ trailing' = trailing /\ ui' = ui /\ made' = made
         /\ told' = told
         /\ reader.pc = "mark"
         /\ \/ interest = reader.epoch /\ Becomes("pending", "marking", reader.parts)
            \/ interest # reader.epoch /\ Becomes(Finished, reader.at, <<>>)
<1>1. TypeOK
  BY DEF IInv
<1>. QED  BY <1>1, Moves DEF Mark, shared, ReaderPcs

\* The mark is made, unless there is one.
LEMMA ClaimEffect ==
  ASSUME IInv, Claim
  PROVE  /\ interest' = interest /\ mutex' = mutex /\ ring' = ring /\ trailing' = trailing
         /\ ui' = ui /\ made' = made /\ told' = told
         /\ reader.pc = "claim"
         /\ \/ pending = 0 /\ pending' = reader.epoch /\ Becomes(Finished, reader.at, <<>>)
            \/ pending # 0 /\ pending' = pending /\ Becomes("mark", reader.at, reader.parts)
<1>1. TypeOK
  BY DEF IInv
<1>. QED  BY <1>1, Moves DEF Claim, ReaderPcs

-----------------------------------------------------------------------------
(* Types and control.                                                       *)

\* Every action keeps the types.
LEMMA TypesKept ==
  ASSUME IInv, Next
  PROVE  TypeOK'
<1>1. ASSUME NEW c \in Captures, Capture(c) PROVE TypeOK'
  <2>1. /\ c.head \in Nat /\ c.tail \in Nat /\ c.cut \in BOOLEAN /\ c.reset \in BOOLEAN
        /\ Resets(c) \in Nat /\ Cuts(c) \in Nat
    BY <1>1, TransportAssumption DEF Resets, Cuts, CaptureType
  <2>2. Items(c, interest) \in Seq(Item)
    <3>. DEFINE size == c.head + Resets(c) + c.tail + Cuts(c)
    <3>1. interest \in Nat
      BY DEF IInv, TypeOK, ReaderType
    <3>2. size \in Nat
      BY <2>1
    <3>3. \A i \in 1..size : Items(c, interest)[i] \in Item
      BY <3>1 DEF Items, Item
    <3>4. Items(c, interest) \in [1..size -> Item]
      BY <3>3 DEF Items
    <3>. HIDE DEF size
    <3>. QED  BY <3>2, <3>4
  <2>3. Parts(c) \in Seq(Part)
    <3>1. \A first, count \in Nat, cut, reset \in BOOLEAN : Push(first, count, cut, reset) \in Part
      BY DEF Push, Part
    <3>2. /\ Len(made) \in Nat /\ Len(made) + Resets(c) \in Nat
          /\ Len(made) + c.head + Resets(c) \in Nat
      <4>1. Len(made) \in Nat
        BY Lengths DEF IInv
      <4>. QED  BY <2>1, <4>1
    <3>. DEFINE a == Push(Len(made), c.head, FALSE, FALSE)
                b == Push(Len(made) + c.head + Resets(c), c.tail, c.cut, c.reset)
                d == Push(Len(made) + Resets(c), c.tail, c.cut, c.reset)
    <3>3. a \in Part /\ b \in Part /\ d \in Part
      BY <2>1, <3>1, <3>2
    <3>4. Parts(c) = IF c.head > 0 THEN <<a, b>> ELSE <<d>>
      BY DEF Parts
    <3>. HIDE DEF a, b, d
    <3>. QED  BY <3>3, <3>4
  <2>4. made' \in Seq(Item) /\ interest \in Nat
    BY <1>1, <2>2 DEF IInv, TypeOK, ReaderType, Capture
  <2>. QED  BY <1>1, <2>3, <2>4 DEF IInv, TypeOK, ReaderType, Capture, Idle, shared,
               ReaderPcs
<1>2. CASE CheckEpoch
  BY <1>2, CheckEpochEffect, ReaderTypes, NothingIsParts DEF IInv, TypeOK, ReaderType,
     ReaderPcs, UiPcs, Becomes, Finished
<1>3. CASE ReadPending
  BY <1>3, ReadPendingEffect, ReaderTypes, NothingIsParts DEF IInv, TypeOK, ReaderType,
     ReaderPcs, UiPcs, Becomes, Finished, Onward
<1>4. CASE ReadCurrent
  BY <1>4, ReadCurrentEffect, ReaderTypes, NothingIsParts DEF IInv, TypeOK, ReaderType,
     ReaderPcs, UiPcs, Becomes, Finished, Onward
<1>5. CASE RemoveMark
  BY <1>5, RemoveMarkEffect, ReaderTypes, NothingIsParts DEF IInv, TypeOK, ReaderType,
     ReaderPcs, UiPcs, Becomes, Finished
<1>6. CASE TryLock
  BY <1>6, TryLockEffect, ReaderTypes, NothingIsParts DEF IInv, TypeOK, ReaderType,
     ReaderPcs, UiPcs, Becomes, Finished
<1>7. CASE Fill
  <2>1. reader.parts \in Seq(Part) /\ reader.parts # <<>>
    BY <1>7 DEF IInv, TypeOK, ReaderType, Control, AtInv, Marking, Fill, MutexInv
  <2>2. Head(reader.parts) \in Part /\ Tail(reader.parts) \in Seq(Part)
    BY <2>1
  <2>3. ring' \in Seq(Chunk)
    <3>1. ring' = ring \o Added(Head(reader.parts))
      BY <1>7 DEF Fill
    <3>2. Added(Head(reader.parts)) \in Seq(Chunk)
      BY <2>2, AddedChunks DEF IInv
    <3>. QED  BY <3>1, <3>2 DEF IInv, TypeOK, ReaderType
  <2>4. trailing' \in BOOLEAN
    BY <1>7, <2>2 DEF IInv, TypeOK, ReaderType, Fill, Part, ResetPending
  <2>. QED  BY <1>7, <2>2, <2>3, <2>4 DEF IInv, TypeOK, ReaderType, ReaderPcs, Fill,
               ReaderTo
<1>8. CASE Mark
  BY <1>8, MarkEffect, ReaderTypes, NothingIsParts DEF IInv, TypeOK, ReaderType, ReaderPcs,
     UiPcs, Becomes, Finished
<1>9. CASE Claim
  BY <1>9, ClaimEffect, ReaderTypes, NothingIsParts DEF IInv, TypeOK, ReaderType,
     ReaderPcs, UiPcs, Becomes, Finished
<1>10. CASE ReaderUnlocks
  BY <1>10, NothingIsParts DEF IInv, TypeOK, ReaderType, ReaderPcs, UiPcs, ReaderUnlocks
<1>11. CASE ReaderReturns
  BY <1>11, NothingIsParts DEF IInv, TypeOK, ReaderType, ReaderPcs, UiPcs, ReaderReturns,
     Idle, shared
<1>12. CASE LoseInterest
  <2>1. interest' \in Nat
    BY <1>12 DEF IInv, TypeOK, ReaderType, LoseInterest
  <2>. QED  BY <1>12, <2>1 DEF IInv, TypeOK, ReaderType, UiPcs, LoseInterest, UiTo
<1>13. CASE TakeInterest
  BY <1>13, NothingIsParts DEF IInv, TypeOK, ReaderType, ReaderPcs, UiPcs, TakeInterest,
     UiTo, shared
<1>14. CASE Empty
  BY <1>14, NothingIsParts DEF IInv, TypeOK, ReaderType, ReaderPcs, UiPcs, Empty, UiTo
<1>15. CASE Unmark
  BY <1>15, NothingIsParts DEF IInv, TypeOK, ReaderType, ReaderPcs, UiPcs, Unmark, UiTo
<1>16. CASE BeginEpoch
  <2>1. interest' \in Nat
    BY <1>16 DEF IInv, TypeOK, ReaderType, BeginEpoch
  <2>. QED  BY <1>16, <2>1 DEF IInv, TypeOK, ReaderType, UiPcs, BeginEpoch, UiTo
<1>17. CASE Drain
  BY <1>17, NothingIsParts DEF IInv, TypeOK, ReaderType, ReaderPcs, UiPcs, Drain, UiTo,
     shared
<1>18. CASE Take
  BY <1>18, NothingIsParts DEF IInv, TypeOK, ReaderType, ReaderPcs, UiPcs, Take
<1>19. CASE Swap
  BY <1>19, NothingIsParts DEF IInv, TypeOK, ReaderType, ReaderPcs, UiPcs, Swap
<1>20. CASE UiUnlocks
  BY <1>20, NothingIsParts DEF IInv, TypeOK, ReaderType, ReaderPcs, UiPcs, UiUnlocks,
     Resting
<1>21. CASE TellChunk
  <2>1. ui.chunks \in Seq(Chunk) /\ ui.chunks # <<>>
    BY <1>21 DEF IInv, TypeOK, ReaderType, TellChunk
  <2>2. Head(ui.chunks) \in Chunk /\ Tail(ui.chunks) \in Seq(Chunk)
    BY <2>1
  <2>3. told' \in Seq(Telling)
    BY <1>21, <2>2, SayAdds DEF IInv, TypeOK, ReaderType, TellChunk, Chunk
  <2>. QED  BY <1>21, <2>2, <2>3 DEF IInv, TypeOK, ReaderType, TellChunk, shared
<1>22. CASE TellEnd
  <2>3. told' \in Seq(Telling)
    BY <1>22, SayAdds DEF IInv, TypeOK, ReaderType, TellEnd
  <2>. QED  BY <1>22, <2>3, NothingIsParts DEF IInv, TypeOK, ReaderType, TellEnd, Resting,
               UiPcs, shared
<1>. QED  BY <1>1, <1>2, <1>3, <1>4, <1>5, <1>6, <1>7, <1>8, <1>9, <1>10, <1>11, <1>12,
             <1>13, <1>14, <1>15, <1>16, <1>17, <1>18, <1>19, <1>20, <1>21, <1>22 DEF Next,
             Reader, Ui

\* Every action keeps the mutex with the thread that took it.
LEMMA MutexKept ==
  ASSUME IInv, Next, TypeOK'
  PROVE  MutexInv'
<1>1. ASSUME NEW c \in Captures, Capture(c) PROVE MutexInv'
  BY <1>1 DEF IInv, TypeOK, ReaderType, Control, MutexInv, AtInv, Marking, Capture, Idle,
     shared
<1>2. CASE CheckEpoch
  BY <1>2, CheckEpochEffect, ReaderTypes DEF IInv, Control, MutexInv, AtInv, Marking,
     Becomes, Finished
<1>3. CASE ReadPending
  BY <1>3, ReadPendingEffect, ReaderTypes DEF IInv, Control, MutexInv, AtInv, Marking,
     Becomes, Finished, Onward
<1>4. CASE ReadCurrent
  BY <1>4, ReadCurrentEffect, ReaderTypes DEF IInv, Control, MutexInv, AtInv, Marking,
     Becomes, Finished, Onward
<1>5. CASE RemoveMark
  BY <1>5, RemoveMarkEffect, ReaderTypes DEF IInv, Control, MutexInv, AtInv, Marking,
     Becomes, Finished
<1>6. CASE TryLock
  BY <1>6, TryLockEffect, ReaderTypes DEF IInv, Control, MutexInv, AtInv, Marking, Becomes,
     Finished
<1>7. CASE Fill
  BY <1>7 DEF IInv, TypeOK, ReaderType, Control, MutexInv, AtInv, Marking, Fill, ReaderTo
<1>8. CASE Mark
  BY <1>8, MarkEffect, ReaderTypes DEF IInv, Control, MutexInv, AtInv, Marking, Becomes,
     Finished
<1>9. CASE Claim
  BY <1>9, ClaimEffect, ReaderTypes DEF IInv, Control, MutexInv, AtInv, Marking, Becomes,
     Finished
<1>10. CASE ReaderUnlocks
  BY <1>10 DEF IInv, TypeOK, ReaderType, Control, MutexInv, AtInv, Marking, ReaderUnlocks
<1>11. CASE ReaderReturns
  BY <1>11 DEF IInv, TypeOK, ReaderType, Control, MutexInv, AtInv, Marking, ReaderReturns,
     Idle, shared
<1>12. CASE LoseInterest
  BY <1>12 DEF IInv, TypeOK, ReaderType, Control, MutexInv, AtInv, Marking, LoseInterest,
     UiTo
<1>13. CASE TakeInterest
  BY <1>13 DEF IInv, TypeOK, ReaderType, Control, MutexInv, AtInv, Marking, TakeInterest,
     UiTo, shared
<1>14. CASE Empty
  BY <1>14 DEF IInv, TypeOK, ReaderType, Control, MutexInv, AtInv, Marking, Empty, UiTo
<1>15. CASE Unmark
  BY <1>15 DEF IInv, TypeOK, ReaderType, Control, MutexInv, AtInv, Marking, Unmark, UiTo
<1>16. CASE BeginEpoch
  BY <1>16 DEF IInv, TypeOK, ReaderType, Control, MutexInv, AtInv, Marking, BeginEpoch, UiTo
<1>17. CASE Drain
  BY <1>17 DEF IInv, TypeOK, ReaderType, Control, MutexInv, AtInv, Marking, Drain, UiTo,
     shared
<1>18. CASE Take
  BY <1>18 DEF IInv, TypeOK, ReaderType, Control, MutexInv, AtInv, Marking, Take
<1>19. CASE Swap
  BY <1>19 DEF IInv, TypeOK, ReaderType, Control, MutexInv, AtInv, Marking, Swap
<1>20. CASE UiUnlocks
  BY <1>20 DEF IInv, TypeOK, ReaderType, Control, MutexInv, AtInv, Marking, UiUnlocks,
     Resting
<1>21. CASE TellChunk
  BY <1>21 DEF IInv, TypeOK, ReaderType, Control, MutexInv, AtInv, Marking, TellChunk,
     shared
<1>22. CASE TellEnd
  BY <1>22 DEF IInv, TypeOK, ReaderType, Control, MutexInv, AtInv, Marking, TellEnd,
     Resting, shared
<1>. QED  BY <1>1, <1>2, <1>3, <1>4, <1>5, <1>6, <1>7, <1>8, <1>9, <1>10, <1>11, <1>12,
             <1>13, <1>14, <1>15, <1>16, <1>17, <1>18, <1>19, <1>20, <1>21, <1>22 DEF Next,
             Reader, Ui

\* Every action keeps the reader's epoch behind the interest, and at it where it looked.
LEMMA EpochKept ==
  ASSUME IInv, Next, TypeOK'
  PROVE  EpochInv'
<1>1. ASSUME NEW c \in Captures, Capture(c) PROVE EpochInv'
  BY <1>1, Parity DEF IInv, TypeOK, ReaderType, Control, EpochInv, MutexInv, Checked,
     Between, Listening, Capture, Idle, shared
<1>2. CASE CheckEpoch
  BY <1>2, CheckEpochEffect, ReaderTypes, Parity DEF IInv, Control, EpochInv, MutexInv,
     Checked, Between, Listening, Becomes, Finished
<1>3. CASE ReadPending
  BY <1>3, ReadPendingEffect, ReaderTypes, Parity DEF IInv, Control, EpochInv, MutexInv,
     Checked, Between, Listening, Becomes, Finished, Onward
<1>4. CASE ReadCurrent
  BY <1>4, ReadCurrentEffect, ReaderTypes, Parity DEF IInv, Control, EpochInv, MutexInv,
     Checked, Between, Listening, Becomes, Finished, Onward
<1>5. CASE RemoveMark
  BY <1>5, RemoveMarkEffect, ReaderTypes, Parity DEF IInv, Control, EpochInv, MutexInv,
     Checked, Between, Listening, Becomes, Finished
<1>6. CASE TryLock
  BY <1>6, TryLockEffect, ReaderTypes, Parity DEF IInv, Control, EpochInv, MutexInv,
     Checked, Between, Listening, Becomes, Finished
<1>7. CASE Fill
  BY <1>7, Parity DEF IInv, TypeOK, ReaderType, Control, EpochInv, MutexInv, Checked,
     Between, Listening, Fill, ReaderTo
<1>8. CASE Mark
  BY <1>8, MarkEffect, ReaderTypes, Parity DEF IInv, Control, EpochInv, MutexInv, Checked,
     Between, Listening, Becomes, Finished
<1>9. CASE Claim
  BY <1>9, ClaimEffect, ReaderTypes, Parity DEF IInv, Control, EpochInv, MutexInv, Checked,
     Between, Listening, Becomes, Finished
<1>10. CASE ReaderUnlocks
  BY <1>10, Parity DEF IInv, TypeOK, ReaderType, Control, EpochInv, MutexInv, Checked,
     Between, Listening, ReaderUnlocks
<1>11. CASE ReaderReturns
  BY <1>11, Parity DEF IInv, TypeOK, ReaderType, Control, EpochInv, MutexInv, Checked,
     Between, Listening, ReaderReturns, Idle, shared
<1>12. CASE LoseInterest
  <2>1. interest' = interest + 1 /\ interest' % 2 = 0
    BY <1>12, Parity DEF IInv, TypeOK, ReaderType, LoseInterest, Listening
  <2>2. (interest + 1) % 2 = 0 => interest' % 2 = 0
    BY <2>1
  <2>3. Between => interest % 2 = 0
    BY DEF IInv, Control, EpochInv
  <2>. HIDE DEF IInv
  <2>4. /\ (Checked => (interest = reader.epoch \/ (interest = reader.epoch + 1 /\ ui.pc = "lock")))'
        /\ (reader.pc \notin {"idle", "done"} => reader.epoch # 0)'
        /\ (reader.epoch <= interest)'
        /\ (ui.pc \in {"drain", "swap"} => interest # 0)'
    BY <1>12 DEF IInv, TypeOK, ReaderType, Control, EpochInv, Checked, LoseInterest, UiTo
  <2>. QED  BY <2>1, <2>4 DEF EpochInv
<1>13. CASE TakeInterest
  BY <1>13, Parity DEF IInv, TypeOK, ReaderType, Control, EpochInv, MutexInv, Checked,
     Between, Listening, TakeInterest, UiTo, shared
<1>14. CASE Empty
  BY <1>14, Parity DEF IInv, TypeOK, ReaderType, Control, EpochInv, MutexInv, Checked,
     Between, Listening, Empty, UiTo
<1>15. CASE Unmark
  BY <1>15, Parity DEF IInv, TypeOK, ReaderType, Control, EpochInv, MutexInv, Checked,
     Between, Listening, Unmark, UiTo
<1>16. CASE BeginEpoch
  BY <1>16, Parity DEF IInv, TypeOK, ReaderType, Control, EpochInv, MutexInv, Checked,
     Between, Listening, BeginEpoch, UiTo
<1>17. CASE Drain
  BY <1>17, Parity DEF IInv, TypeOK, ReaderType, Control, EpochInv, MutexInv, Checked,
     Between, Listening, Drain, UiTo, shared
<1>18. CASE Take
  BY <1>18, Parity DEF IInv, TypeOK, ReaderType, Control, EpochInv, MutexInv, Checked,
     Between, Listening, Take
<1>19. CASE Swap
  BY <1>19, Parity DEF IInv, TypeOK, ReaderType, Control, EpochInv, MutexInv, Checked,
     Between, Listening, Swap
<1>20. CASE UiUnlocks
  BY <1>20, Parity DEF IInv, TypeOK, ReaderType, Control, EpochInv, MutexInv, Checked,
     Between, Listening, UiUnlocks, Resting
<1>21. CASE TellChunk
  BY <1>21, Parity DEF IInv, TypeOK, ReaderType, Control, EpochInv, MutexInv, Checked,
     Between, Listening, TellChunk, shared
<1>22. CASE TellEnd
  BY <1>22, Parity DEF IInv, TypeOK, ReaderType, Control, EpochInv, MutexInv, Checked,
     Between, Listening, TellEnd, Resting, shared
<1>. QED  BY <1>1, <1>2, <1>3, <1>4, <1>5, <1>6, <1>7, <1>8, <1>9, <1>10, <1>11, <1>12,
             <1>13, <1>14, <1>15, <1>16, <1>17, <1>18, <1>19, <1>20, <1>21, <1>22 DEF Next,
             Reader, Ui

\* Every action keeps the mark no younger than what the reader pushes.
LEMMA MarkKept ==
  ASSUME IInv, Next, TypeOK'
  PROVE  MarkInv'
<1>1. ASSUME NEW c \in Captures, Capture(c) PROVE MarkInv'
  BY <1>1 DEF IInv, TypeOK, ReaderType, Control, MarkInv, EpochInv, AtInv, Capture, Idle,
     shared
<1>2. CASE CheckEpoch
  BY <1>2, CheckEpochEffect, ReaderTypes DEF IInv, Control, MarkInv, EpochInv, AtInv,
     Becomes, Finished
<1>3. CASE ReadPending
  BY <1>3, ReadPendingEffect, ReaderTypes DEF IInv, Control, MarkInv, EpochInv, AtInv,
     Becomes, Finished, Onward
<1>4. CASE ReadCurrent
  BY <1>4, ReadCurrentEffect, ReaderTypes DEF IInv, Control, MarkInv, EpochInv, AtInv,
     Becomes, Finished, Onward
<1>5. CASE RemoveMark
  BY <1>5, RemoveMarkEffect, ReaderTypes DEF IInv, Control, MarkInv, EpochInv, AtInv,
     Becomes, Finished
<1>6. CASE TryLock
  BY <1>6, TryLockEffect, ReaderTypes DEF IInv, Control, MarkInv, EpochInv, AtInv, Becomes,
     Finished
<1>7. CASE Fill
  BY <1>7 DEF IInv, TypeOK, ReaderType, Control, MarkInv, EpochInv, AtInv, Fill, ReaderTo
<1>8. CASE Mark
  BY <1>8, MarkEffect, ReaderTypes DEF IInv, Control, MarkInv, EpochInv, AtInv, Becomes,
     Finished
<1>9. CASE Claim
  BY <1>9, ClaimEffect, ReaderTypes DEF IInv, Control, MarkInv, EpochInv, AtInv, Becomes,
     Finished
<1>10. CASE ReaderUnlocks
  BY <1>10 DEF IInv, TypeOK, ReaderType, Control, MarkInv, EpochInv, AtInv, ReaderUnlocks
<1>11. CASE ReaderReturns
  BY <1>11 DEF IInv, TypeOK, ReaderType, Control, MarkInv, EpochInv, AtInv, ReaderReturns,
     Idle, shared
<1>12. CASE LoseInterest
  BY <1>12 DEF IInv, TypeOK, ReaderType, Control, MarkInv, EpochInv, AtInv, LoseInterest,
     UiTo
<1>13. CASE TakeInterest
  BY <1>13 DEF IInv, TypeOK, ReaderType, Control, MarkInv, EpochInv, AtInv, TakeInterest,
     UiTo, shared
<1>14. CASE Empty
  BY <1>14 DEF IInv, TypeOK, ReaderType, Control, MarkInv, EpochInv, AtInv, Empty, UiTo
<1>15. CASE Unmark
  BY <1>15 DEF IInv, TypeOK, ReaderType, Control, MarkInv, EpochInv, AtInv, Unmark, UiTo
<1>16. CASE BeginEpoch
  BY <1>16 DEF IInv, TypeOK, ReaderType, Control, MarkInv, EpochInv, AtInv, BeginEpoch, UiTo
<1>17. CASE Drain
  BY <1>17 DEF IInv, TypeOK, ReaderType, Control, MarkInv, EpochInv, AtInv, Drain, UiTo,
     shared
<1>18. CASE Take
  BY <1>18 DEF IInv, TypeOK, ReaderType, Control, MarkInv, EpochInv, AtInv, Take
<1>19. CASE Swap
  BY <1>19 DEF IInv, TypeOK, ReaderType, Control, MarkInv, EpochInv, AtInv, Swap
<1>20. CASE UiUnlocks
  BY <1>20 DEF IInv, TypeOK, ReaderType, Control, MarkInv, EpochInv, AtInv, UiUnlocks,
     Resting
<1>21. CASE TellChunk
  BY <1>21 DEF IInv, TypeOK, ReaderType, Control, MarkInv, EpochInv, AtInv, TellChunk,
     shared
<1>22. CASE TellEnd
  BY <1>22 DEF IInv, TypeOK, ReaderType, Control, MarkInv, EpochInv, AtInv, TellEnd,
     Resting, shared
<1>. QED  BY <1>1, <1>2, <1>3, <1>4, <1>5, <1>6, <1>7, <1>8, <1>9, <1>10, <1>11, <1>12,
             <1>13, <1>14, <1>15, <1>16, <1>17, <1>18, <1>19, <1>20, <1>21, <1>22 DEF Next,
             Reader, Ui

\* Every action keeps what a drain holds to the drain.
LEMMA UiKept ==
  ASSUME IInv, Next, TypeOK'
  PROVE  UiInv'
<1>1. ASSUME NEW c \in Captures, Capture(c) PROVE UiInv'
  BY <1>1 DEF IInv, TypeOK, ReaderType, Control, UiInv, MutexInv, Capture, Idle, shared
<1>2. CASE CheckEpoch
  BY <1>2, CheckEpochEffect, ReaderTypes DEF IInv, Control, UiInv, MutexInv, Becomes,
     Finished
<1>3. CASE ReadPending
  BY <1>3, ReadPendingEffect, ReaderTypes DEF IInv, Control, UiInv, MutexInv, Becomes,
     Finished, Onward
<1>4. CASE ReadCurrent
  BY <1>4, ReadCurrentEffect, ReaderTypes DEF IInv, Control, UiInv, MutexInv, Becomes,
     Finished, Onward
<1>5. CASE RemoveMark
  BY <1>5, RemoveMarkEffect, ReaderTypes DEF IInv, Control, UiInv, MutexInv, Becomes,
     Finished
<1>6. CASE TryLock
  BY <1>6, TryLockEffect, ReaderTypes DEF IInv, Control, UiInv, MutexInv, Becomes, Finished
<1>7. CASE Fill
  BY <1>7 DEF IInv, TypeOK, ReaderType, Control, UiInv, MutexInv, Fill, ReaderTo
<1>8. CASE Mark
  BY <1>8, MarkEffect, ReaderTypes DEF IInv, Control, UiInv, MutexInv, Becomes, Finished
<1>9. CASE Claim
  BY <1>9, ClaimEffect, ReaderTypes DEF IInv, Control, UiInv, MutexInv, Becomes, Finished
<1>10. CASE ReaderUnlocks
  BY <1>10 DEF IInv, TypeOK, ReaderType, Control, UiInv, MutexInv, ReaderUnlocks
<1>11. CASE ReaderReturns
  BY <1>11 DEF IInv, TypeOK, ReaderType, Control, UiInv, MutexInv, ReaderReturns, Idle,
     shared
<1>12. CASE LoseInterest
  BY <1>12 DEF IInv, TypeOK, ReaderType, Control, UiInv, MutexInv, LoseInterest, UiTo
<1>13. CASE TakeInterest
  BY <1>13 DEF IInv, TypeOK, ReaderType, Control, UiInv, MutexInv, TakeInterest, UiTo,
     shared
<1>14. CASE Empty
  BY <1>14 DEF IInv, TypeOK, ReaderType, Control, UiInv, MutexInv, Empty, UiTo
<1>15. CASE Unmark
  BY <1>15 DEF IInv, TypeOK, ReaderType, Control, UiInv, MutexInv, Unmark, UiTo
<1>16. CASE BeginEpoch
  BY <1>16 DEF IInv, TypeOK, ReaderType, Control, UiInv, MutexInv, BeginEpoch, UiTo
<1>17. CASE Drain
  BY <1>17 DEF IInv, TypeOK, ReaderType, Control, UiInv, MutexInv, Drain, UiTo, shared
<1>18. CASE Take
  BY <1>18 DEF IInv, TypeOK, ReaderType, Control, UiInv, MutexInv, Take
<1>19. CASE Swap
  BY <1>19 DEF IInv, TypeOK, ReaderType, Control, UiInv, MutexInv, Swap
<1>20. CASE UiUnlocks
  BY <1>20 DEF IInv, TypeOK, ReaderType, Control, UiInv, MutexInv, UiUnlocks, Resting
<1>21. CASE TellChunk
  BY <1>21 DEF IInv, TypeOK, ReaderType, Control, UiInv, MutexInv, TellChunk, shared
<1>22. CASE TellEnd
  BY <1>22 DEF IInv, TypeOK, ReaderType, Control, UiInv, MutexInv, TellEnd, Resting, shared
<1>. QED  BY <1>1, <1>2, <1>3, <1>4, <1>5, <1>6, <1>7, <1>8, <1>9, <1>10, <1>11, <1>12,
             <1>13, <1>14, <1>15, <1>16, <1>17, <1>18, <1>19, <1>20, <1>21, <1>22 DEF Next,
             Reader, Ui

\* Every action keeps the reader's place and what it has left to push together.
LEMMA AtKept ==
  ASSUME IInv, Next, TypeOK'
  PROVE  AtInv'
<1>1. ASSUME NEW c \in Captures, Capture(c) PROVE AtInv'
  BY <1>1, NothingIsParts, PartsThere DEF IInv, TypeOK, ReaderType, Control, AtInv,
     MutexInv, Marking, Capture, Idle, shared
<1>2. CASE CheckEpoch
  BY <1>2, CheckEpochEffect, ReaderTypes, NothingIsParts DEF IInv, Control, AtInv,
     MutexInv, Marking, Becomes, Finished
<1>3. CASE ReadPending
  BY <1>3, ReadPendingEffect, ReaderTypes, NothingIsParts DEF IInv, Control, AtInv,
     MutexInv, Marking, Becomes, Finished, Onward
<1>4. CASE ReadCurrent
  BY <1>4, ReadCurrentEffect, ReaderTypes, NothingIsParts DEF IInv, Control, AtInv,
     MutexInv, Marking, Becomes, Finished, Onward
<1>5. CASE RemoveMark
  BY <1>5, RemoveMarkEffect, ReaderTypes, NothingIsParts DEF IInv, Control, AtInv,
     MutexInv, Marking, Becomes, Finished
<1>6. CASE TryLock
  BY <1>6, TryLockEffect, ReaderTypes, NothingIsParts DEF IInv, Control, AtInv, MutexInv,
     Marking, Becomes, Finished
<1>7. CASE Fill
  BY <1>7, NothingIsParts DEF IInv, TypeOK, ReaderType, Control, AtInv, MutexInv, Marking,
     Fill, ReaderTo
<1>8. CASE Mark
  BY <1>8, MarkEffect, ReaderTypes, NothingIsParts DEF IInv, Control, AtInv, MutexInv,
     Marking, Becomes, Finished
<1>9. CASE Claim
  BY <1>9, ClaimEffect, ReaderTypes, NothingIsParts DEF IInv, Control, AtInv, MutexInv,
     Marking, Becomes, Finished
<1>10. CASE ReaderUnlocks
  BY <1>10, NothingIsParts DEF IInv, TypeOK, ReaderType, Control, AtInv, MutexInv, Marking,
     ReaderUnlocks
<1>11. CASE ReaderReturns
  BY <1>11, NothingIsParts DEF IInv, TypeOK, ReaderType, Control, AtInv, MutexInv, Marking,
     ReaderReturns, Idle, shared
<1>12. CASE LoseInterest
  BY <1>12, NothingIsParts DEF IInv, TypeOK, ReaderType, Control, AtInv, MutexInv, Marking,
     LoseInterest, UiTo
<1>13. CASE TakeInterest
  BY <1>13, NothingIsParts DEF IInv, TypeOK, ReaderType, Control, AtInv, MutexInv, Marking,
     TakeInterest, UiTo, shared
<1>14. CASE Empty
  BY <1>14, NothingIsParts DEF IInv, TypeOK, ReaderType, Control, AtInv, MutexInv, Marking,
     Empty, UiTo
<1>15. CASE Unmark
  BY <1>15, NothingIsParts DEF IInv, TypeOK, ReaderType, Control, AtInv, MutexInv, Marking,
     Unmark, UiTo
<1>16. CASE BeginEpoch
  BY <1>16, NothingIsParts DEF IInv, TypeOK, ReaderType, Control, AtInv, MutexInv, Marking,
     BeginEpoch, UiTo
<1>17. CASE Drain
  BY <1>17, NothingIsParts DEF IInv, TypeOK, ReaderType, Control, AtInv, MutexInv, Marking,
     Drain, UiTo, shared
<1>18. CASE Take
  BY <1>18, NothingIsParts DEF IInv, TypeOK, ReaderType, Control, AtInv, MutexInv, Marking,
     Take
<1>19. CASE Swap
  BY <1>19, NothingIsParts DEF IInv, TypeOK, ReaderType, Control, AtInv, MutexInv, Marking,
     Swap
<1>20. CASE UiUnlocks
  BY <1>20, NothingIsParts DEF IInv, TypeOK, ReaderType, Control, AtInv, MutexInv, Marking,
     UiUnlocks, Resting
<1>21. CASE TellChunk
  BY <1>21, NothingIsParts DEF IInv, TypeOK, ReaderType, Control, AtInv, MutexInv, Marking,
     TellChunk, shared
<1>22. CASE TellEnd
  BY <1>22, NothingIsParts DEF IInv, TypeOK, ReaderType, Control, AtInv, MutexInv, Marking,
     TellEnd, Resting, shared
<1>. QED  BY <1>1, <1>2, <1>3, <1>4, <1>5, <1>6, <1>7, <1>8, <1>9, <1>10, <1>11, <1>12,
             <1>13, <1>14, <1>15, <1>16, <1>17, <1>18, <1>19, <1>20, <1>21, <1>22 DEF Next,
             Reader, Ui

-----------------------------------------------------------------------------
(* What was made, and what is left to push of it.                           *)

\* A capture appends its chunks, its reset between them, and its cut, for
\* the epoch of the interest.
LEMMA CaptureItems ==
  ASSUME TypeOK, TypeOK', NEW c \in Captures, Capture(c)
  PROVE  /\ c.head \in Nat /\ c.tail \in Nat /\ c.cut \in BOOLEAN /\ c.reset \in BOOLEAN
         /\ Resets(c) \in Nat /\ Cuts(c) \in Nat
         /\ Len(made') = Len(made) + c.head + Resets(c) + c.tail + Cuts(c)
         /\ \A n \in 1..Len(made) : made'[n] = made[n]
         /\ \A n \in (Len(made) + 1)..Len(made') :
              /\ made'[n].epoch = interest
              /\ made'[n].kind = IF c.reset /\ n = Len(made) + c.head + 1 THEN "reset"
                                 ELSE IF n <= Len(made) + c.head + Resets(c) + c.tail THEN "data"
                                 ELSE "cut"
<1>1. /\ c.head \in Nat /\ c.tail \in Nat /\ c.cut \in BOOLEAN /\ c.reset \in BOOLEAN
      /\ Resets(c) \in Nat /\ Cuts(c) \in Nat
  BY TransportAssumption DEF Resets, Cuts, CaptureType
<1>12. c.head \in Nat /\ c.tail \in Nat /\ Resets(c) \in Nat
  BY <1>1
<1>. DEFINE size == c.head + Resets(c) + c.tail + Cuts(c)
            new  == Items(c, interest)
<1>2. size \in Nat
  BY <1>1
<1>3. interest \in Nat
  BY DEF TypeOK, ReaderType
<1>4. \A i \in 1..size :
         /\ new[i] \in Item
         /\ new[i].epoch = interest
         /\ new[i].kind = IF c.reset /\ i = c.head + 1 THEN "reset"
                          ELSE IF i <= c.head + Resets(c) + c.tail THEN "data" ELSE "cut"
  BY <1>3 DEF Items, Item
<1>5. new \in [1..size -> Item]
  BY <1>4 DEF Items
<1>6. made' = made \o new /\ made \in Seq(Item)
  BY DEF TypeOK, ReaderType, Capture
<1>7. new \in Seq(Item) /\ Len(new) = size
  <2>. HIDE DEF size, new
  <2>. QED  BY <1>2, <1>5
<1>8. /\ Len(made') = Len(made) + size
      /\ \A n \in 1..Len(made) : made'[n] = made[n]
      /\ \A n \in (Len(made) + 1)..Len(made') : made'[n] = new[n - Len(made)]
  <2>. HIDE DEF size, new
  <2>. QED  BY <1>6, <1>7, <1>2
<1>9. \A n \in (Len(made) + 1)..Len(made') : n - Len(made) \in 1..size
  <2>. HIDE DEF size
  <2>1. Len(made) \in Nat
    BY <1>6
  <2>. QED  BY <1>8, <1>2, <2>1
<1>10. ASSUME NEW n \in (Len(made) + 1)..Len(made')
       PROVE  /\ made'[n].epoch = interest
              /\ made'[n].kind = IF c.reset /\ n = Len(made) + c.head + 1 THEN "reset"
                                 ELSE IF n <= Len(made) + c.head + Resets(c) + c.tail THEN "data"
                                 ELSE "cut"
  <2>1. made'[n] = new[n - Len(made)] /\ n - Len(made) \in 1..size
    BY <1>8, <1>9
  <2>2. /\ made'[n].epoch = interest
        /\ made'[n].kind = IF c.reset /\ n - Len(made) = c.head + 1 THEN "reset"
                           ELSE IF n - Len(made) <= c.head + Resets(c) + c.tail THEN "data" ELSE "cut"
    <3>. HIDE DEF new, size
    <3>. QED  BY <1>4, <2>1
  <2>3. Len(made) \in Nat /\ n \in Nat
    BY <1>6
  <2>4. /\ n - Len(made) = c.head + 1 <=> n = Len(made) + c.head + 1
        /\ n - Len(made) <= c.head + Resets(c) + c.tail
             <=> n <= Len(made) + c.head + Resets(c) + c.tail
    <3>. DEFINE m == Len(made)
                h == c.head
                r == Resets(c)
                t == c.tail
    <3>1. m \in Nat /\ n \in Nat /\ h \in Nat /\ r \in Nat /\ t \in Nat
      BY <1>12, <2>3
    <3>. HIDE DEF m, h, r, t
    <3>2. /\ n - m = h + 1 <=> n = m + h + 1
          /\ n - m <= h + r + t <=> n <= m + h + r + t
      BY <3>1
    <3>. QED  BY <3>2 DEF m, h, r, t
  <2>. QED  BY <2>2, <2>4
<1>11. Len(made) + size = Len(made) + c.head + Resets(c) + c.tail + Cuts(c)
  BY <1>1, <1>6
<1>. QED  BY <1>1, <1>8, <1>10, <1>11

\* The interest never goes back.
LEMMA EpochStep ==
  ASSUME IInv, Next
  PROVE  interest <= interest'
<1>. HIDE DEF IInv
<1>1. interest \in Nat
  BY DEF IInv, TypeOK, ReaderType
<1>2. CASE CheckEpoch
  BY <1>1, <1>2, CheckEpochEffect
<1>3. CASE ReadPending
  BY <1>1, <1>3, ReadPendingEffect
<1>4. CASE ReadCurrent
  BY <1>1, <1>4, ReadCurrentEffect
<1>5. CASE RemoveMark
  BY <1>1, <1>5, RemoveMarkEffect
<1>6. CASE TryLock
  BY <1>1, <1>6, TryLockEffect
<1>7. CASE Fill
  BY <1>1, <1>7 DEF Fill
<1>8. CASE Mark
  BY <1>1, <1>8, MarkEffect
<1>9. CASE Claim
  BY <1>1, <1>9, ClaimEffect
<1>10. CASE ReaderUnlocks
  BY <1>1, <1>10 DEF ReaderUnlocks
<1>11. CASE ReaderReturns
  BY <1>1, <1>11 DEF ReaderReturns, shared
<1>12. CASE LoseInterest
  BY <1>1, <1>12 DEF LoseInterest
<1>13. CASE TakeInterest
  BY <1>1, <1>13 DEF TakeInterest, shared
<1>14. CASE Empty
  BY <1>1, <1>14 DEF Empty
<1>15. CASE Unmark
  BY <1>1, <1>15 DEF Unmark
<1>16. CASE BeginEpoch
  BY <1>1, <1>16 DEF BeginEpoch
<1>17. CASE Drain
  BY <1>1, <1>17 DEF Drain, shared
<1>18. CASE Take
  BY <1>1, <1>18 DEF Take
<1>19. CASE Swap
  BY <1>1, <1>19 DEF Swap
<1>20. CASE UiUnlocks
  BY <1>1, <1>20 DEF UiUnlocks
<1>21. CASE TellChunk
  BY <1>1, <1>21 DEF TellChunk, shared
<1>22. CASE TellEnd
  BY <1>1, <1>22 DEF TellEnd, shared
<1>23. ASSUME NEW c \in Captures, Capture(c) PROVE interest <= interest'
  BY <1>1, <1>23 DEF Capture, shared
<1>. QED  BY <1>2, <1>3, <1>4, <1>5, <1>6, <1>7, <1>8, <1>9, <1>10, <1>11, <1>12, <1>13,
             <1>14, <1>15, <1>16, <1>17, <1>18, <1>19, <1>20, <1>21, <1>22, <1>23 DEF Next,
             Reader, Ui

\* What is said is of the present epoch.
LEMMA SayEpochs ==
  ASSUME interest \in Nat, NEW log \in Seq(Telling), NEW b \in BOOLEAN, NEW at \in Nat,
         NEW kind \in {"data", "reset", "omitted"},
         \A i \in DOMAIN log : log[i].epoch <= interest
  PROVE  /\ Say(log, b, kind, at) \in Seq(Telling)
         /\ \A i \in DOMAIN Say(log, b, kind, at) : Say(log, b, kind, at)[i].epoch <= interest
<1>. DEFINE x == [kind |-> kind, at |-> at, epoch |-> interest]
<1>1. x \in Telling /\ x.epoch = interest
  BY DEF Telling
<1>2. Say(log, b, kind, at) = IF b THEN Append(log, x) ELSE log
  BY DEF Say
<1>. HIDE DEF x
<1>3. /\ Append(log, x) \in Seq(Telling)
      /\ \A i \in DOMAIN Append(log, x) : i \in DOMAIN log \/ i = Len(log) + 1
      /\ \A i \in DOMAIN log : Append(log, x)[i] = log[i]
      /\ Append(log, x)[Len(log) + 1] = x
  BY <1>1
<1>4. \A i \in DOMAIN Append(log, x) : Append(log, x)[i].epoch <= interest
  BY <1>1, <1>3
<1>. QED  BY <1>2, <1>3, <1>4

\* A step that captures and tells nothing keeps the epochs of both.
LEMMA MadeStays ==
  ASSUME TypeOK, TypeOK', MadeInv, UNCHANGED <<made, told>>, interest <= interest'
  PROVE  MadeInv'
<1>1. interest \in Nat /\ interest' \in Nat /\ made' = made /\ told' = told
  BY DEF TypeOK, ReaderType
<1>2. \A n \in DOMAIN made : made[n].epoch \in Nat /\ made[n].epoch <= interest /\ made[n].epoch % 2 = 1
  <2>1. made \in Seq(Item)
    BY DEF TypeOK, ReaderType
  <2>2. \A n \in DOMAIN made : made[n] \in Item
    BY <2>1
  <2>. QED  BY <2>2 DEF MadeInv, EpochOf, Item
<1>3. \A i \in DOMAIN told : told[i].epoch \in Nat /\ told[i].epoch <= interest
  <2>1. told \in Seq(Telling)
    BY DEF TypeOK, ReaderType
  <2>2. \A i \in DOMAIN told : told[i] \in Telling
    BY <2>1
  <2>. QED  BY <2>2 DEF MadeInv, Telling
<1>4. \A n \in DOMAIN made : made[n].epoch <= interest'
  BY <1>1, <1>2
<1>5. \A i \in DOMAIN told : told[i].epoch <= interest'
  BY <1>1, <1>3
<1>. QED  BY <1>1, <1>2, <1>4, <1>5 DEF MadeInv, EpochOf

\* Every action keeps what was made and told within the epochs that have begun.
LEMMA MadeKept ==
  ASSUME IInv, Next, TypeOK'
  PROVE  MadeInv'
<1>1. ASSUME NEW c \in Captures, Capture(c) PROVE MadeInv'
  <2>1. interest' = interest /\ interest \in Nat /\ told' = told /\ interest % 2 = 1
    BY <1>1 DEF IInv, TypeOK, ReaderType, Capture, shared, Listening
  <2>2. \A n \in DOMAIN made' : EpochOf(n)' <= interest /\ EpochOf(n)' % 2 = 1
    <3>. TAKE n \in DOMAIN made'
    <3>0. n \in 1..Len(made') /\ Len(made) \in Nat
      BY Lengths, LengthsNext DEF IInv
    <3>1. CASE n \in 1..Len(made)
      <4>1. made'[n] = made[n]
        BY <1>1, <3>1, CaptureItems DEF IInv
      <4>2. EpochOf(n)' = EpochOf(n) /\ n \in DOMAIN made
        BY <3>1, <4>1 DEF EpochOf, IInv, TypeOK, ReaderType
      <4>. QED  BY <4>2 DEF IInv, MadeInv
    <3>2. CASE n \in (Len(made) + 1)..Len(made')
      <4>1. made'[n].epoch = interest
        BY <1>1, <3>2, CaptureItems DEF IInv
      <4>. QED  BY <2>1, <4>1 DEF EpochOf
    <3>. QED  BY <3>0, <3>1, <3>2
  <2>. QED  BY <2>1, <2>2 DEF IInv, MadeInv
<1>2. CASE CheckEpoch
  BY <1>2, CheckEpochEffect, ReaderTypes, EpochStep, MadeStays DEF IInv, CheckEpoch
<1>3. CASE ReadPending
  BY <1>3, ReadPendingEffect, ReaderTypes, EpochStep, MadeStays DEF IInv, ReadPending
<1>4. CASE ReadCurrent
  BY <1>4, ReadCurrentEffect, ReaderTypes, EpochStep, MadeStays DEF IInv, ReadCurrent
<1>5. CASE RemoveMark
  BY <1>5, RemoveMarkEffect, ReaderTypes, EpochStep, MadeStays DEF IInv, RemoveMark
<1>6. CASE TryLock
  BY <1>6, TryLockEffect, ReaderTypes, EpochStep, MadeStays DEF IInv, TryLock
<1>7. CASE Fill
  BY <1>7, EpochStep, MadeStays DEF IInv, Fill
<1>8. CASE Mark
  BY <1>8, MarkEffect, ReaderTypes, EpochStep, MadeStays DEF IInv, Mark
<1>9. CASE Claim
  BY <1>9, ClaimEffect, ReaderTypes, EpochStep, MadeStays DEF IInv, Claim
<1>10. CASE ReaderUnlocks
  BY <1>10, EpochStep, MadeStays DEF IInv, ReaderUnlocks
<1>11. CASE ReaderReturns
  BY <1>11, EpochStep, MadeStays DEF IInv, ReaderReturns, shared
<1>12. CASE LoseInterest
  BY <1>12, EpochStep, MadeStays DEF IInv, LoseInterest
<1>13. CASE TakeInterest
  BY <1>13, EpochStep, MadeStays DEF IInv, TakeInterest, shared
<1>14. CASE Empty
  BY <1>14, EpochStep, MadeStays DEF IInv, Empty
<1>15. CASE Unmark
  BY <1>15, EpochStep, MadeStays DEF IInv, Unmark
<1>16. CASE BeginEpoch
  BY <1>16, EpochStep, MadeStays DEF IInv, BeginEpoch
<1>17. CASE Drain
  BY <1>17, EpochStep, MadeStays DEF IInv, Drain, shared
<1>18. CASE Take
  BY <1>18, EpochStep, MadeStays DEF IInv, Take
<1>19. CASE Swap
  BY <1>19, EpochStep, MadeStays DEF IInv, Swap
<1>20. CASE UiUnlocks
  BY <1>20, EpochStep, MadeStays DEF IInv, UiUnlocks
<1>21. CASE TellChunk
  <2>1. /\ interest' = interest /\ made' = made /\ told \in Seq(Telling) /\ interest \in Nat
        /\ told' \in Seq(Telling)
    BY <1>21 DEF IInv, TypeOK, ReaderType, TellChunk, shared
  <2>2. \A i \in DOMAIN told' : told'[i].epoch <= interest
    <3>. DEFINE chunk == Head(ui.chunks)
                mid   == Say(told, chunk.reset, "reset", 0)
    <3>1. chunk \in Chunk
      BY <1>21 DEF IInv, TypeOK, ReaderType, TellChunk
    <3>2. /\ mid \in Seq(Telling) /\ \A i \in DOMAIN mid : mid[i].epoch <= interest
      <4>. HIDE DEF chunk
      <4>. QED  BY <3>1, <2>1, SayEpochs DEF Chunk, IInv, MadeInv
    <3>3. told' = Say(mid, TRUE, "data", chunk.at)
      BY <1>21 DEF TellChunk
    <3>. HIDE DEF mid, chunk
    <3>. QED  BY <3>1, <3>2, <3>3, <2>1, SayEpochs DEF Chunk
  <2>. QED  BY <2>1, <2>2 DEF IInv, MadeInv, EpochOf
<1>22. CASE TellEnd
  <2>1. /\ interest' = interest /\ made' = made /\ told \in Seq(Telling) /\ interest \in Nat
        /\ told' \in Seq(Telling)
    BY <1>22 DEF IInv, TypeOK, ReaderType, TellEnd, shared
  <2>2. \A i \in DOMAIN told' : told'[i].epoch <= interest
    <3>. DEFINE mid == Say(told, ui.reset, "reset", 0)
    <3>1. ui.reset \in BOOLEAN /\ ui.omitted \in BOOLEAN
      BY <1>22 DEF IInv, TypeOK, ReaderType
    <3>2. /\ mid \in Seq(Telling) /\ \A i \in DOMAIN mid : mid[i].epoch <= interest
      BY <3>1, <2>1, SayEpochs DEF IInv, MadeInv
    <3>3. told' = Say(mid, ui.omitted, "omitted", 0)
      BY <1>22 DEF TellEnd
    <3>. HIDE DEF mid
    <3>. QED  BY <3>1, <3>2, <3>3, <2>1, SayEpochs
  <2>. QED  BY <2>1, <2>2 DEF IInv, MadeInv, EpochOf
<1>. QED  BY <1>1, <1>2, <1>3, <1>4, <1>5, <1>6, <1>7, <1>8, <1>9, <1>10, <1>11, <1>12,
             <1>13, <1>14, <1>15, <1>16, <1>17, <1>18, <1>19, <1>20, <1>21, <1>22 DEF Next,
             Reader, Ui

\* The head and the tail of a sequence.
LEMMA TailOf ==
  ASSUME NEW S, NEW s \in Seq(S), s # <<>>
  PROVE  /\ Head(s) = s[1] /\ Head(s) \in S /\ Len(s) > 0
         /\ Tail(s) \in Seq(S) /\ Len(Tail(s)) = Len(s) - 1
         /\ \A i \in 1..(Len(s) - 1) : Tail(s)[i] = s[i + 1]
  OBVIOUS

\* The domain of a sequence.
LEMMA SeqDomain ==
  ASSUME NEW S, NEW s \in Seq(S)
  PROVE  DOMAIN s = 1..Len(s)
  OBVIOUS

\* A sequence of length zero.
LEMMA EmptySeq ==
  ASSUME NEW S, NEW s \in Seq(S), Len(s) = 0
  PROVE  s = <<>>
  OBVIOUS

\* Every step but a capture and a fill keeps what is to be pushed, or gives it up.
PartsSame == made' = made /\ reader'.parts = reader.parts /\ reader'.epoch = reader.epoch
PartsGone == made' = made /\ reader'.parts = <<>>

\* Parts that stay are still the end of what was made.
LEMMA PartsStay ==
  ASSUME PartsInv, PartsSame
  PROVE  PartsInv'
  BY DEF PartsInv, PartsSame, LastPart, End, EpochOf

\* With no parts left there is nothing to show.
LEMMA PartsGo ==
  ASSUME PartsGone
  PROVE  PartsInv'
<1>1. reader'.parts = <<>> /\ DOMAIN <<>> = {} /\ Len(<<>>) = 0
  BY DEF PartsGone
<1>. QED  BY <1>1 DEF PartsInv

\* Only a capture and a fill change what there is to push: every other step leaves
\* it, or gives it up.
LEMMA PartsMove ==
  ASSUME IInv, Next, ~Fill, \A c \in Captures : ~Capture(c)
  PROVE  PartsSame \/ PartsGone
<1>1. CASE CheckEpoch
  BY <1>1, CheckEpochEffect, ReaderTypes, NothingIsParts DEF IInv, Control, AtInv,
     PartsSame, PartsGone, Becomes, Finished
<1>2. CASE ReadPending
  BY <1>2, ReadPendingEffect, ReaderTypes, NothingIsParts DEF IInv, Control, AtInv,
     PartsSame, PartsGone, Becomes, Finished, Onward
<1>3. CASE ReadCurrent
  BY <1>3, ReadCurrentEffect, ReaderTypes, NothingIsParts DEF IInv, Control, AtInv,
     PartsSame, PartsGone, Becomes, Finished, Onward
<1>4. CASE RemoveMark
  BY <1>4, RemoveMarkEffect, ReaderTypes, NothingIsParts DEF IInv, Control, AtInv,
     PartsSame, PartsGone, Becomes, Finished
<1>5. CASE TryLock
  BY <1>5, TryLockEffect, ReaderTypes, NothingIsParts DEF IInv, Control, AtInv,
     PartsSame, PartsGone, Becomes, Finished
<1>6. CASE Mark
  BY <1>6, MarkEffect, ReaderTypes, NothingIsParts DEF IInv, Control, AtInv, PartsSame,
     PartsGone, Becomes, Finished
<1>7. CASE Claim
  BY <1>7, ClaimEffect, ReaderTypes, NothingIsParts DEF IInv, Control, AtInv, PartsSame,
     PartsGone, Becomes, Finished
<1>8. CASE ReaderUnlocks
  BY <1>8, NothingIsParts DEF IInv, TypeOK, ReaderType, Control, AtInv, PartsSame,
     PartsGone, ReaderUnlocks
<1>9. CASE ReaderReturns
  BY <1>9, NothingIsParts DEF IInv, TypeOK, ReaderType, Control, AtInv, PartsSame,
     PartsGone, ReaderReturns, Idle, shared
<1>10. CASE LoseInterest
  BY <1>10, NothingIsParts DEF IInv, TypeOK, ReaderType, Control, AtInv, PartsSame,
     PartsGone, LoseInterest, UiTo
<1>11. CASE TakeInterest
  BY <1>11, NothingIsParts DEF IInv, TypeOK, ReaderType, Control, AtInv, PartsSame,
     PartsGone, TakeInterest, UiTo, shared
<1>12. CASE Empty
  BY <1>12, NothingIsParts DEF IInv, TypeOK, ReaderType, Control, AtInv, PartsSame,
     PartsGone, Empty, UiTo
<1>13. CASE Unmark
  BY <1>13, NothingIsParts DEF IInv, TypeOK, ReaderType, Control, AtInv, PartsSame,
     PartsGone, Unmark, UiTo
<1>14. CASE BeginEpoch
  BY <1>14, NothingIsParts DEF IInv, TypeOK, ReaderType, Control, AtInv, PartsSame,
     PartsGone, BeginEpoch, UiTo
<1>15. CASE Drain
  BY <1>15, NothingIsParts DEF IInv, TypeOK, ReaderType, Control, AtInv, PartsSame,
     PartsGone, Drain, UiTo, shared
<1>16. CASE Take
  BY <1>16, NothingIsParts DEF IInv, TypeOK, ReaderType, Control, AtInv, PartsSame,
     PartsGone, Take
<1>17. CASE Swap
  BY <1>17, NothingIsParts DEF IInv, TypeOK, ReaderType, Control, AtInv, PartsSame,
     PartsGone, Swap
<1>18. CASE UiUnlocks
  BY <1>18, NothingIsParts DEF IInv, TypeOK, ReaderType, Control, AtInv, PartsSame,
     PartsGone, UiUnlocks, Resting
<1>19. CASE TellChunk
  BY <1>19, NothingIsParts DEF IInv, TypeOK, ReaderType, Control, AtInv, PartsSame,
     PartsGone, TellChunk, shared
<1>20. CASE TellEnd
  BY <1>20, NothingIsParts DEF IInv, TypeOK, ReaderType, Control, AtInv, PartsSame,
     PartsGone, TellEnd, Resting, shared
<1>. QED  BY <1>1, <1>2, <1>3, <1>4, <1>5, <1>6, <1>7, <1>8, <1>9, <1>10, <1>11, <1>12, <1>13, <1>14, <1>15, <1>16, <1>17, <1>18, <1>19, <1>20
          DEF Next, Reader, Ui

\* Every action keeps the parts the end of what was made.
LEMMA PartsKept ==
  ASSUME IInv, Next, TypeOK'
  PROVE  PartsInv'
<1>1. ASSUME NEW c \in Captures, Capture(c) PROVE PartsInv'
  <2>. DEFINE m == Len(made)
              h == c.head
              r == Resets(c)
              t == c.tail
              u == Cuts(c)
  <2>0. m \in Nat /\ made \in Seq(Item) /\ made' \in Seq(Item)
    BY DEF IInv, TypeOK, ReaderType
  <2>. HIDE DEF m, h, r, t, u
  <2>1. /\ h \in Nat /\ t \in Nat /\ r \in Nat /\ u \in Nat
        /\ Len(made') = m + h + r + t + u
        /\ \A n \in (m + 1)..Len(made') : made'[n].epoch = interest
    BY <1>1, CaptureItems DEF IInv, m, h, r, t, u
  <2>2. \A n \in (m + 1)..Len(made') :
          /\ c.reset /\ n = m + h + 1 => made'[n].kind = "reset"
          /\ ~(c.reset /\ n = m + h + 1) /\ n <= m + h + r + t => made'[n].kind = "data"
          /\ n > m + h + r + t => made'[n].kind = "cut"
    <3>. TAKE n \in (m + 1)..Len(made')
    <3>1. made'[n].kind = IF c.reset /\ n = m + h + 1 THEN "reset"
                          ELSE IF n <= m + h + r + t THEN "data" ELSE "cut"
      BY <1>1, CaptureItems DEF IInv, m, h, r, t, u
    <3>2. c.reset => r = 1
      BY DEF Resets, r
    <3>. QED  BY <2>0, <2>1, <3>1, <3>2
  <2>3. /\ c.reset => r = 1
        /\ ~c.reset => r = 0 /\ h = 0
        /\ c.cut => u = 1
        /\ ~c.cut => u = 0
        /\ c.reset \/ c.cut \/ t > 0
    BY <2>1, TransportAssumption DEF Resets, Cuts, h, r, t, u
  <2>4. reader'.parts = Parts(c) /\ reader'.epoch = interest
    BY <1>1 DEF Capture, Idle
  <2>5. CASE h > 0
    <3>1. /\ reader'.parts = << Push(m, h, FALSE, FALSE),
                                Push(m + h + r, t, c.cut, c.reset) >>
      BY <2>4, <2>5 DEF Parts, m, h, r, t
    <3>11. c.reset /\ r = 1
      BY <2>1, <2>3, <2>5
    <3>2. /\ Len(reader'.parts) = 2 /\ DOMAIN reader'.parts = {1, 2} /\ reader'.parts # <<>>
          /\ reader'.parts[1].first = m /\ reader'.parts[1].count = h /\ ~reader'.parts[1].cut
          /\ reader'.parts[2].first = m + h + 1 /\ reader'.parts[2].count = t
          /\ reader'.parts[2].cut = c.cut
      BY <3>11, <3>1 DEF Push
    <3>3. End(1)' = m + h /\ End(2)' = m + h + 1 + t
      BY <3>2 DEF End
    <3>4. /\ \A n \in (m + 1)..(m + h) : made'[n].kind = "data"
          /\ \A n \in (m + h + 2)..(m + h + 1 + t) : made'[n].kind = "data"
          /\ made'[m + h + 1].kind = "reset"
      <4>1. /\ m + h <= Len(made') /\ m + h + 1 + t <= Len(made')
            /\ m + h + 1 \in (m + 1)..Len(made')
        BY <2>0, <2>1, <3>11
      <4>2. ASSUME NEW n \in (m + 1)..(m + h)
            PROVE  made'[n].kind = "data"
        <5>1. /\ n \in (m + 1)..Len(made') /\ n # m + h + 1
              /\ n <= m + h + r + t
          BY <2>0, <2>1, <3>11, <4>1
        <5>. QED  BY <2>2, <5>1
      <4>3. ASSUME NEW n \in (m + h + 2)..(m + h + 1 + t)
            PROVE  made'[n].kind = "data"
        <5>1. /\ n \in (m + 1)..Len(made') /\ n # m + h + 1
              /\ n <= m + h + r + t
          BY <2>0, <2>1, <3>11, <4>1
        <5>. QED  BY <2>2, <5>1
      <4>. QED  BY <2>2, <3>11, <4>1, <4>2, <4>3
    <3>12. c.cut => made'[Len(made')].kind = "cut"
      <4>1. c.cut => /\ Len(made') = m + h + r + t + 1
                     /\ Len(made') \in (m + 1)..Len(made')
        BY <2>0, <2>1, <2>3
      <4>. QED  BY <2>0, <2>1, <2>2, <4>1
    <3>5. /\ m + h <= Len(made') /\ m + h + 1 + t <= Len(made')
          /\ c.cut => m + h + 1 + t < Len(made')
          /\ ~c.cut => m + h + 1 + t = Len(made')
          /\ ~c.cut /\ t = 0 => Len(made') = m + h + 1
          /\ Len(made') > m
      BY <2>0, <2>1, <2>3, <3>11
    <3>6. LastPart(2)'
      <4>1. CASE c.cut
        BY <3>2, <3>3, <3>4, <3>5, <3>12, <4>1 DEF LastPart
      <4>2. CASE ~c.cut
        BY <3>2, <3>3, <3>4, <3>5, <4>2 DEF LastPart
      <4>. QED  BY <4>1, <4>2
    <3>7. \A p \in {1, 2} : /\ End(p)' <= Len(made')
                            /\ \A n \in (reader'.parts[p].first + 1)..End(p)' : made'[n].kind = "data"
      BY <2>0, <2>1, <3>2, <3>3, <3>4, <3>5
    <3>8. \A n \in (End(1)' + 1)..reader'.parts[2].first : made'[n].kind = "reset"
      <4>1. \A n \in (m + h + 1)..(m + h + 1) : n = m + h + 1
        BY <2>0, <2>1
      <4>. QED  BY <3>2, <3>3, <3>4, <4>1
    <3>9. /\ Len(made') > 0 /\ EpochOf(Len(made))' = interest
          /\ \A n \in DOMAIN made' : n > reader'.parts[1].first => EpochOf(n)' = interest
      BY <2>0, <2>1, <3>2, <3>5 DEF EpochOf
    <3>10. End(1)' <= reader'.parts[2].first
      BY <2>0, <2>1, <3>2, <3>3
    <3>. QED  BY <2>4, <3>2, <3>6, <3>7, <3>8, <3>9, <3>10 DEF PartsInv
  <2>6. CASE h = 0
    <3>1. reader'.parts = << Push(m + r, t, c.cut, c.reset) >>
      BY <2>4, <2>6 DEF Parts, m, h, r, t
    <3>2. /\ Len(reader'.parts) = 1 /\ DOMAIN reader'.parts = {1} /\ reader'.parts # <<>>
          /\ reader'.parts[1].first = m + r /\ reader'.parts[1].count = t
          /\ reader'.parts[1].cut = c.cut
      BY <3>1 DEF Push
    <3>3. End(1)' = m + r + t
      BY <3>2 DEF End
    <3>4. /\ \A n \in (m + r + 1)..(m + r + t) : made'[n].kind = "data"
          /\ c.reset => made'[m + 1].kind = "reset"
      BY <2>0, <2>1, <2>2, <2>3, <2>6
    <3>12. c.cut => made'[Len(made')].kind = "cut"
      <4>1. c.cut => /\ Len(made') = m + h + r + t + 1
                     /\ Len(made') \in (m + 1)..Len(made')
        BY <2>0, <2>1, <2>3
      <4>. QED  BY <2>0, <2>1, <2>2, <4>1
    <3>5. /\ m + r + t <= Len(made')
          /\ c.cut => m + r + t < Len(made')
          /\ ~c.cut => m + r + t = Len(made')
          /\ ~c.cut /\ t = 0 => c.reset /\ Len(made') = m + 1
          /\ Len(made') > m
      BY <2>0, <2>1, <2>3, <2>6
    <3>6. LastPart(1)'
      <4>1. CASE c.cut
        BY <3>2, <3>3, <3>4, <3>5, <3>12, <4>1 DEF LastPart
      <4>2. CASE ~c.cut
        BY <3>2, <3>3, <3>4, <3>5, <4>2 DEF LastPart
      <4>. QED  BY <4>1, <4>2
    <3>7. /\ Len(made') > 0 /\ EpochOf(Len(made))' = interest
          /\ \A n \in DOMAIN made' : n > reader'.parts[1].first => EpochOf(n)' = interest
      BY <2>0, <2>1, <3>2, <3>5 DEF EpochOf
    <3>8. \A p \in {1} : /\ End(p)' <= Len(made')
                         /\ \A n \in (reader'.parts[p].first + 1)..End(p)' : made'[n].kind = "data"
      BY <2>0, <2>1, <3>2, <3>3, <3>4, <3>5
    <3>. QED  BY <2>4, <3>2, <3>6, <3>7, <3>8 DEF PartsInv
  <2>. QED  BY <2>1, <2>5, <2>6
<1>2. CASE Fill
  <2>0. /\ reader.parts \in Seq(Part) /\ made' = made /\ made \in Seq(Item) /\ PartsInv
        /\ reader.parts # <<>> /\ reader'.epoch = reader.epoch
    BY <1>2 DEF IInv, TypeOK, ReaderType, Control, AtInv, MutexInv, Marking, Fill, ReaderTo
  <2>1. CASE reader'.parts = reader.parts
    BY <2>0, <2>1, PartsStay DEF PartsSame
  <2>2. CASE reader'.parts = Tail(reader.parts)
    <3>1. CASE Len(reader.parts) = 1
      <4>1. reader'.parts = <<>>
        <5>1. Tail(reader.parts) \in Seq(Part) /\ Len(Tail(reader.parts)) = 0
          BY <2>0, <3>1, TailOf
        <5>2. Tail(reader.parts) = <<>>
          BY <5>1, EmptySeq
        <5>. QED  BY <2>2, <5>2
      <4>. QED  BY <2>0, <4>1, PartsGo DEF PartsGone
    <3>2. CASE Len(reader.parts) = 2
      <4>1. /\ Len(reader'.parts) = 1 /\ DOMAIN reader'.parts = {1} /\ reader'.parts # <<>>
            /\ reader'.parts[1] = reader.parts[2]
            /\ reader.parts[1] \in Part /\ reader.parts[2] \in Part
        <5>1. /\ Tail(reader.parts) \in Seq(Part) /\ Len(Tail(reader.parts)) = 1
              /\ Tail(reader.parts)[1] = reader.parts[2]
          BY <2>0, <3>2, TailOf
        <5>2. reader.parts[1] \in Part /\ reader.parts[2] \in Part
          BY <2>0, <3>2
        <5>3. DOMAIN Tail(reader.parts) = {1} /\ Tail(reader.parts) # <<>>
          <6>1. DOMAIN Tail(reader.parts) = 1..1
            BY <5>1, SeqDomain
          <6>. QED  BY <5>1, <6>1
        <5>. QED  BY <2>2, <5>1, <5>2, <5>3
      <4>2. End(1)' = End(2)
        BY <4>1 DEF End
      <4>3. LastPart(1)'
        BY <2>0, <3>2, <4>1, <4>2 DEF PartsInv, LastPart
      <4>4. 2 \in DOMAIN reader.parts
        BY <2>0, <3>2
      <4>5. \A p \in {1} : /\ End(p)' <= Len(made')
                           /\ \A n \in (reader'.parts[p].first + 1)..End(p)' : made'[n].kind = "data"
        BY <2>0, <4>1, <4>2, <4>4 DEF PartsInv
      <4>6. reader.parts[1].first <= reader.parts[2].first
        BY <2>0, <3>2, <4>1 DEF PartsInv, End, Part
      <4>7. /\ Len(made') > 0 /\ EpochOf(Len(made))' = reader.epoch
            /\ \A n \in DOMAIN made' : n > reader'.parts[1].first => EpochOf(n)' = reader.epoch
        <5>1. \A n \in DOMAIN made : n > reader.parts[2].first => n > reader.parts[1].first
          BY <2>0, <4>1, <4>6 DEF Part
        <5>. QED  BY <2>0, <4>1, <5>1 DEF PartsInv, EpochOf
      <4>. QED  BY <2>0, <4>1, <4>3, <4>5, <4>7 DEF PartsInv
    <3>. QED  BY <2>0, <3>1, <3>2 DEF PartsInv
  <2>. QED  BY <1>2, <2>1, <2>2 DEF Fill, ReaderTo, IInv, TypeOK, ReaderType
<1>3. CASE PartsSame \/ PartsGone
  BY <1>3, PartsStay, PartsGo DEF IInv
<1>. QED  BY <1>1, <1>2, <1>3, PartsMove

-----------------------------------------------------------------------------
(* What the steps do to what is kept.                                       *)

\* A step that leaves the ring, the drain and the telling alone leaves all in its place.
LEMMA SetsSame ==
  ASSUME UNCHANGED <<ring, told, interest>>, ui'.chunks = ui.chunks
  PROVE  /\ Taken' = Taken /\ Retained' = Retained /\ Kept' = Kept
         /\ TextTold' = TextTold /\ HeardNow' = HeardNow
  BY DEF Taken, Retained, TextTold, HeardNow, Kept, IsData

\* What is decided is a part of what was made.
LEMMA DecidedTypes ==
  ASSUME TypeOK, PartsInv
  PROVE  Decided \in Nat /\ Decided <= Len(made)
<1>1. Len(made) \in Nat /\ reader.parts \in Seq(Part)
  BY DEF TypeOK, ReaderType
<1>2. CASE Marking \/ reader.parts = <<>>
  BY <1>1, <1>2 DEF Decided
<1>3. CASE ~Marking /\ reader.parts # <<>>
  <2>1. 1 \in DOMAIN reader.parts /\ reader.parts[1] \in Part
    BY <1>1, <1>3
  <2>2. End(1) <= Len(made)
    BY <2>1 DEF PartsInv
  <2>. QED  BY <1>1, <1>3, <2>1, <2>2 DEF Decided, End, Part
<1>. QED  BY <1>2, <1>3

\* The indices of what is kept are numbers.
LEMMA KeptTypes ==
  ASSUME TypeOK
  PROVE  Taken \subseteq Nat /\ Retained \subseteq Nat /\ TextTold \subseteq Nat /\ HeardNow \subseteq TextTold
<1>1. /\ \A i \in DOMAIN ui.chunks : ui.chunks[i] \in Chunk
      /\ \A i \in DOMAIN ring : ring[i] \in Chunk
      /\ \A i \in DOMAIN told : told[i] \in Telling
  BY DEF TypeOK, ReaderType
<1>. QED  BY <1>1 DEF Taken, Retained, TextTold, HeardNow, Chunk, Telling

\* What a fill puts in comes behind everything that is kept.
LEMMA FillEffect ==
  ASSUME IInv, TypeOK', Fill
  PROVE  /\ reader.parts # <<>> /\ reader.parts[1] \in Part /\ ~Marking
         /\ Decided = reader.parts[1].first
         /\ Fits(reader.parts[1]) \in Int /\ Fits(reader.parts[1]) <= reader.parts[1].count
         /\ Taken' = Taken /\ TextTold' = TextTold /\ HeardNow' = HeardNow
         /\ Retained' = Retained \cup
              (reader.parts[1].first + 1)..(reader.parts[1].first + Fits(reader.parts[1]))
         /\ \A i, k \in DOMAIN ring' : i < k => ring'[i].at < ring'[k].at
<1>1. reader.parts \in Seq(Part) /\ reader.parts # <<>> /\ ~Marking
  BY DEF IInv, TypeOK, ReaderType, Control, AtInv, MutexInv, Marking, Fill
<1>. DEFINE p == reader.parts[1]
            f == Fits(p)
            new == Added(p)
<1>2. p \in Part /\ Head(reader.parts) = p
  BY <1>1
<1>3. Decided = p.first
  BY <1>1 DEF Decided
<1>4. /\ f \in Int /\ f <= p.count /\ new \in Seq(Chunk)
      /\ Len(new) = (IF f > 0 THEN f ELSE 0)
      /\ \A i \in 1..f : new[i].at = p.first + i
  <2>. HIDE DEF p
  <2>. QED  BY <1>2, AddedChunks DEF IInv, f, new
<1>5. ring' = ring \o new /\ ring \in Seq(Chunk)
  BY <1>2 DEF Fill, IInv, TypeOK, ReaderType
<1>6. Taken' = Taken /\ TextTold' = TextTold /\ HeardNow' = HeardNow
  BY DEF Fill, Taken, TextTold, HeardNow, IsData
<1>. DEFINE g == IF f > 0 THEN f ELSE 0
            b == p.first
<1>7. g \in Nat /\ b \in Nat /\ b = Decided
  <2>. HIDE DEF p, f
  <2>. QED  BY <1>2, <1>3, <1>4 DEF Part
<1>. HIDE DEF new, b
<1>8. Len(new) = g /\ \A i \in 1..g : new[i].at = b + i
  <2>. HIDE DEF f, p
  <2>. QED  BY <1>4 DEF b
<1>. HIDE DEF g
<1>9. /\ Len(ring') = Len(ring) + g /\ ring' \in Seq(Chunk)
      /\ \A i \in 1..Len(ring) : ring'[i] = ring[i]
      /\ \A i \in 1..g : ring'[Len(ring) + i].at = b + i
  <2>1. /\ ring \o new \in Seq(Chunk) /\ Len(ring \o new) = Len(ring) + Len(new)
        /\ \A i \in 1..Len(ring) : (ring \o new)[i] = ring[i]
        /\ \A i \in 1..Len(new) : (ring \o new)[Len(ring) + i] = new[i]
    <3>1. ring \in Seq(Chunk) /\ new \in Seq(Chunk)
      BY <1>4, <1>5
    <3>. QED  BY <3>1
  <2>2. \A i \in 1..g : (ring \o new)[Len(ring) + i].at = b + i
    BY <1>8, <2>1
  <2>. QED  BY <1>5, <1>8, <2>1, <2>2
<1>10. \A i \in DOMAIN ring : ring[i].at <= b /\ ring[i].at \in Nat
  <2>1. \A i \in DOMAIN ring : ring[i].at \in Retained
    BY DEF Retained
  <2>. QED  BY <2>1, <1>7, KeptTypes DEF IInv, OrderInv, Kept
<1>11. \A i \in DOMAIN ring' : \/ i \in DOMAIN ring /\ ring'[i] = ring[i]
                               \/ i - Len(ring) \in 1..g /\ i > Len(ring) /\ ring'[i].at = b + (i - Len(ring))
  <2>. TAKE i \in DOMAIN ring'
  <2>1. i \in 1..(Len(ring) + g) /\ Len(ring) \in Nat
    BY <1>5, <1>9
  <2>2. CASE i <= Len(ring)
    BY <1>5, <1>9, <2>1, <2>2
  <2>3. CASE i > Len(ring)
    <3>1. i - Len(ring) \in 1..g /\ Len(ring) + (i - Len(ring)) = i
      BY <1>7, <2>1, <2>3
    <3>. QED  BY <1>9, <2>3, <3>1
  <2>. QED  BY <2>1, <2>2, <2>3
<1>12. ASSUME NEW i \in DOMAIN ring', NEW k \in DOMAIN ring', i < k
       PROVE  ring'[i].at < ring'[k].at
  <2>0. i \in Nat /\ k \in Nat /\ Len(ring) \in Nat /\ DOMAIN ring = 1..Len(ring)
    BY <1>5, <1>9
  <2>1. CASE k \in DOMAIN ring
    <3>1. i \in DOMAIN ring /\ ring'[i] = ring[i] /\ ring'[k] = ring[k]
      BY <1>11, <1>12, <2>0, <2>1
    <3>. QED  BY <1>12, <2>1, <3>1 DEF IInv, OrderInv
  <2>2. CASE k \notin DOMAIN ring
    <3>1. k - Len(ring) \in 1..g /\ ring'[k].at = b + (k - Len(ring))
      BY <1>11, <2>2
    <3>2. CASE i \in DOMAIN ring
      <4>1. ring'[i].at <= b /\ ring'[i].at \in Nat
        BY <1>9, <1>10, <2>0, <3>2
      <4>. QED  BY <1>7, <2>0, <3>1, <4>1
    <3>3. CASE i \notin DOMAIN ring
      <4>1. i - Len(ring) \in 1..g /\ ring'[i].at = b + (i - Len(ring))
        BY <1>11, <3>3
      <4>. QED  BY <1>7, <1>12, <2>0, <3>1, <4>1
    <3>. QED  BY <3>2, <3>3
  <2>. QED  BY <2>1, <2>2
<1>13. Retained' = Retained \cup (b + 1)..(b + g)
  <2>0. DOMAIN ring = 1..Len(ring) /\ DOMAIN ring' = 1..(Len(ring) + g) /\ Len(ring) \in Nat
    BY <1>5, <1>9
  <2>1. ASSUME NEW n \in Retained' PROVE n \in Retained \cup (b + 1)..(b + g)
    <3>1. PICK i \in DOMAIN ring' : ring'[i].at = n
      BY <2>1 DEF Retained
    <3>2. CASE i \in DOMAIN ring /\ ring'[i] = ring[i]
      BY <3>1, <3>2 DEF Retained
    <3>3. CASE i - Len(ring) \in 1..g /\ ring'[i].at = b + (i - Len(ring))
      BY <1>7, <3>1, <3>3
    <3>. QED  BY <1>11, <3>2, <3>3
  <2>2. ASSUME NEW n \in Retained PROVE n \in Retained'
    <3>1. PICK i \in DOMAIN ring : ring[i].at = n
      BY <2>2 DEF Retained
    <3>2. i \in DOMAIN ring' /\ ring'[i].at = n
      BY <1>7, <1>9, <2>0, <3>1
    <3>. QED  BY <3>2 DEF Retained
  <2>3. ASSUME NEW n \in (b + 1)..(b + g) PROVE n \in Retained'
    <3>1. n - b \in 1..g /\ b + (n - b) = n
      BY <1>7
    <3>2. Len(ring) + (n - b) \in DOMAIN ring'
      BY <1>7, <2>0, <3>1
    <3>3. ring'[Len(ring) + (n - b)].at = n
      BY <1>9, <3>1
    <3>. QED  BY <3>2, <3>3 DEF Retained
  <2>. QED  BY <2>1, <2>2, <2>3
<1>14. (b + 1)..(b + g) = (b + 1)..(b + f)
  <2>. HIDE DEF f, p
  <2>. QED  BY <1>4, <1>7 DEF g
<1>. QED  BY <1>1, <1>2, <1>3, <1>4, <1>6, <1>12, <1>13, <1>14 DEF b

\* What is said comes behind what was said before.
LEMMA SayGrows ==
  ASSUME interest \in Nat, NEW log \in Seq(Telling), NEW b \in BOOLEAN, NEW at \in Nat,
         NEW kind \in {"data", "reset", "omitted"}
  PROVE  /\ Say(log, b, kind, at) \in Seq(Telling)
         /\ Len(Say(log, b, kind, at)) = IF b THEN Len(log) + 1 ELSE Len(log)
         /\ \A i \in 1..Len(log) : Say(log, b, kind, at)[i] = log[i]
         /\ b => /\ Say(log, b, kind, at)[Len(log) + 1].kind = kind
                 /\ Say(log, b, kind, at)[Len(log) + 1].at = at
                 /\ Say(log, b, kind, at)[Len(log) + 1].epoch = interest
<1>. DEFINE x == [kind |-> kind, at |-> at, epoch |-> interest]
<1>1. x \in Telling /\ x.epoch = interest /\ x.kind = kind /\ x.at = at
  BY DEF Telling
<1>2. Say(log, b, kind, at) = IF b THEN Append(log, x) ELSE log
  BY DEF Say
<1>. HIDE DEF x
<1>3. /\ Append(log, x) \in Seq(Telling)
      /\ Len(Append(log, x)) = Len(log) + 1
      /\ \A i \in 1..Len(log) : Append(log, x)[i] = log[i]
      /\ Append(log, x)[Len(log) + 1] = x
  BY <1>1
<1>. QED  BY <1>1, <1>2, <1>3

\* The text that is said.
LEMMA SayText ==
  ASSUME interest \in Nat, NEW log \in Seq(Telling), NEW at \in Nat
  PROVE  /\ Len(Say(log, TRUE, "data", at)) = Len(log) + 1
         /\ \A i \in 1..Len(log) : Say(log, TRUE, "data", at)[i] = log[i]
         /\ Say(log, TRUE, "data", at)[Len(log) + 1].kind = "data"
         /\ Say(log, TRUE, "data", at)[Len(log) + 1].at = at
         /\ Say(log, TRUE, "data", at)[Len(log) + 1].epoch = interest
<1>. DEFINE x == [kind |-> "data", at |-> at, epoch |-> interest]
<1>1. x \in Telling /\ x.epoch = interest /\ x.kind = "data" /\ x.at = at
  BY DEF Telling
<1>2. Say(log, TRUE, "data", at) = Append(log, x)
  BY DEF Say
<1>. HIDE DEF x
<1>3. /\ Append(log, x) \in Seq(Telling)
      /\ Len(Append(log, x)) = Len(log) + 1
      /\ \A i \in 1..Len(log) : Append(log, x)[i] = log[i]
      /\ Append(log, x)[Len(log) + 1] = x
  BY <1>1
<1>. QED  BY <1>1, <1>2, <1>3

\* The first chunk is told, behind its reset.
LEMMA TellEffect ==
  ASSUME IInv, TypeOK', TellChunk
  PROVE  /\ ui.chunks # <<>> /\ ui.chunks[1] \in Chunk /\ ui.chunks[1].at \in Taken
         /\ Taken' \subseteq Taken /\ Taken \subseteq Taken' \cup {ui.chunks[1].at}
         /\ \A n \in Taken' : ui.chunks[1].at < n
         /\ \A i, k \in DOMAIN ui'.chunks : i < k => ui'.chunks[i].at < ui'.chunks[k].at
         /\ Len(told') \in Nat /\ Len(told') > Len(told)
         /\ \A i \in 1..Len(told) : told'[i] = told[i]
         /\ \A i \in DOMAIN told' : i \in 1..Len(told) \/ i = Len(told') \/ told'[i].kind = "reset"
         /\ told'[Len(told')].kind = "data"
         /\ told'[Len(told')].at = ui.chunks[1].at
         /\ told'[Len(told')].epoch = interest
<1>1. /\ ui.chunks \in Seq(Chunk) /\ ui.chunks # <<>> /\ ui'.chunks = Tail(ui.chunks)
      /\ interest \in Nat /\ told \in Seq(Telling) /\ told' \in Seq(Telling)
  BY DEF TellChunk, IInv, TypeOK, ReaderType
<1>. DEFINE s == ui.chunks
            c == s[1]
            mid == Say(told, c.reset, "reset", 0)
<1>2. /\ s \in Seq(Chunk) /\ Len(s) > 0 /\ DOMAIN s = 1..Len(s) /\ c \in Chunk /\ c = Head(s)
      /\ Tail(s) \in Seq(Chunk) /\ Len(Tail(s)) = Len(s) - 1 /\ DOMAIN Tail(s) = 1..(Len(s) - 1)
      /\ \A i \in 1..(Len(s) - 1) : Tail(s)[i] = s[i + 1]
  BY <1>1
<1>3. \A i, k \in 1..Len(s) : i < k => s[i].at < s[k].at
  BY <1>2 DEF IInv, OrderInv
<1>4. Taken = {s[i].at : i \in 1..Len(s)} /\ Taken' = {Tail(s)[i].at : i \in 1..(Len(s) - 1)}
  BY <1>1, <1>2 DEF Taken
<1>5. /\ mid \in Seq(Telling)
      /\ Len(mid) = (IF c.reset THEN Len(told) + 1 ELSE Len(told))
      /\ \A i \in 1..Len(told) : mid[i] = told[i]
      /\ c.reset => mid[Len(told) + 1].kind = "reset"
  <2>1. c.reset \in BOOLEAN
    BY <1>2 DEF Chunk
  <2>. HIDE DEF c
  <2>. QED  BY <1>1, <2>1, SayGrows
<1>6. told' = Say(mid, TRUE, "data", c.at) /\ c.at \in Nat
  BY <1>2 DEF TellChunk, Chunk
<1>. HIDE DEF mid
<1>7. /\ Len(told') = Len(mid) + 1
      /\ \A i \in 1..Len(mid) : told'[i] = mid[i]
      /\ told'[Len(mid) + 1].kind = "data"
      /\ told'[Len(mid) + 1].at = c.at
      /\ told'[Len(mid) + 1].epoch = interest
  <2>. HIDE DEF c
  <2>. DEFINE new == Say(mid, TRUE, "data", c.at)
  <2>1. /\ Len(new) = Len(mid) + 1
        /\ \A i \in 1..Len(mid) : new[i] = mid[i]
        /\ new[Len(mid) + 1].kind = "data"
        /\ new[Len(mid) + 1].at = c.at
        /\ new[Len(mid) + 1].epoch = interest
    BY <1>1, <1>5, <1>6, SayText
  <2>2. told' = new
    BY <1>6
  <2>. HIDE DEF new
  <2>. QED  BY <2>1, <2>2
<1>8. /\ Len(told) \in Nat /\ Len(mid) \in Nat /\ Len(mid) >= Len(told)
      /\ DOMAIN told' = 1..(Len(mid) + 1)
  BY <1>1, <1>5, <1>7
<1>9. \A i \in 1..Len(mid) : i \in 1..Len(told) \/ mid[i].kind = "reset"
  BY <1>5, <1>8
<1>10. \A i \in DOMAIN told' : i \in 1..Len(told) \/ i = Len(told') \/ told'[i].kind = "reset"
  <2>. TAKE i \in DOMAIN told'
  <2>1. i \in 1..Len(mid) \/ i = Len(told')
    BY <1>7, <1>8
  <2>. QED  BY <1>7, <1>9, <2>1
<1>11. \A i \in 1..Len(told) : told'[i] = told[i]
  BY <1>5, <1>7, <1>8
<1>12. \A i \in 1..(Len(s) - 1) : i + 1 \in 1..Len(s) /\ i \in 1..Len(s)
  <2>1. Len(s) \in Nat
    BY <1>2
  <2>. HIDE DEF s
  <2>. QED  BY <2>1
<1>13. Taken' \subseteq Taken
  BY <1>2, <1>4, <1>12
<1>14. \A n \in Taken' : c.at < n
  <2>1. \A i \in 1..(Len(s) - 1) : 1 < i + 1 /\ 1 \in 1..Len(s)
    <3>. HIDE DEF s
    <3>. QED  BY <1>2
  <2>. QED  BY <1>2, <1>3, <1>4, <1>12, <2>1
<1>15. Taken \subseteq Taken' \cup {c.at}
  <2>1. ASSUME NEW i \in 1..Len(s) PROVE s[i].at \in Taken' \cup {c.at}
    <3>1. CASE i = 1
      BY <3>1
    <3>2. CASE i # 1
      <4>1. i - 1 \in 1..(Len(s) - 1) /\ (i - 1) + 1 = i
        <5>1. Len(s) \in Nat
          BY <1>2
        <5>. HIDE DEF s
        <5>. QED  BY <3>2, <5>1
      <4>2. Tail(s)[i - 1] = s[i]
        BY <1>2, <4>1
      <4>. QED  BY <1>4, <4>1, <4>2
    <3>. QED  BY <3>1, <3>2
  <2>. QED  BY <1>4, <2>1
<1>16. \A i, k \in 1..(Len(s) - 1) : i < k => Tail(s)[i].at < Tail(s)[k].at
  <2>1. \A i, k \in 1..(Len(s) - 1) : i < k => i + 1 < k + 1
    OBVIOUS
  <2>. QED  BY <1>2, <1>3, <1>12, <2>1
<1>17. c.at \in Taken
  BY <1>2, <1>4
<1>18. \A i, k \in DOMAIN ui'.chunks : i < k => ui'.chunks[i].at < ui'.chunks[k].at
  BY <1>1, <1>2, <1>16
<1>19. /\ Len(told') \in Nat /\ Len(told') > Len(told)
       /\ told'[Len(told')].kind = "data" /\ told'[Len(told')].at = c.at
       /\ told'[Len(told')].epoch = interest
  <2>. HIDE DEF c
  <2>. QED  BY <1>7, <1>8
<1>20. s # <<>> /\ c \in Chunk
  BY <1>1, <1>2
<1>. QED  BY <1>10, <1>11, <1>13, <1>14, <1>15, <1>17, <1>18, <1>19, <1>20

\* And what follows for what was heard.
LEMMA TellSets ==
  ASSUME IInv, TypeOK', TellChunk
  PROVE  /\ TextTold' = TextTold \cup {ui.chunks[1].at}
         /\ HeardNow' = HeardNow \cup {ui.chunks[1].at}
         /\ Retained' = Retained /\ Kept' = Kept
<1>. DEFINE h == ui.chunks[1].at
<1>1. /\ h \in Taken /\ Taken' \subseteq Taken /\ Taken \subseteq Taken' \cup {h}
      /\ Len(told') \in Nat /\ Len(told') > Len(told)
      /\ \A i \in 1..Len(told) : told'[i] = told[i]
      /\ \A i \in DOMAIN told' : i \in 1..Len(told) \/ i = Len(told') \/ told'[i].kind = "reset"
      /\ told'[Len(told')].kind = "data"
      /\ told'[Len(told')].at = h
      /\ told'[Len(told')].epoch = interest
  BY TellEffect
<1>2. /\ interest' = interest /\ Retained' = Retained /\ Len(told) \in Nat
      /\ DOMAIN told = 1..Len(told) /\ DOMAIN told' = 1..Len(told')
  <2>1. interest' = interest /\ ring' = ring /\ told \in Seq(Telling) /\ told' \in Seq(Telling)
    BY DEF TellChunk, shared, IInv, TypeOK, ReaderType
  <2>2. Len(told) \in Nat /\ DOMAIN told = 1..Len(told) /\ DOMAIN told' = 1..Len(told')
    BY <2>1
  <2>. QED  BY <2>1, <2>2 DEF Retained
<1>. HIDE DEF h
<1>3. DOMAIN told \subseteq DOMAIN told' /\ Len(told') \in DOMAIN told' /\ Len(told') \notin DOMAIN told
  BY <1>1, <1>2
<1>4. \A i \in DOMAIN told' : IsData(i)' <=> (i \in DOMAIN told /\ IsData(i)) \/ i = Len(told')
  BY <1>1, <1>2, <1>3 DEF IsData
<1>5. TextTold' = TextTold \cup {h}
  BY <1>1, <1>2, <1>3, <1>4 DEF TextTold
<1>6. HeardNow' = HeardNow \cup {h}
  BY <1>1, <1>2, <1>3, <1>4 DEF HeardNow
<1>. QED  BY <1>1, <1>2, <1>5, <1>6 DEF Kept, h

\* The end of what is told is no text.
LEMMA EndEffect ==
  ASSUME IInv, TypeOK', TellEnd
  PROVE  /\ Len(told) <= Len(told') /\ Len(told) \in Nat /\ Len(told') \in Nat
         /\ \A i \in 1..Len(told) : told'[i] = told[i]
         /\ \A i \in DOMAIN told' : \/ i \in 1..Len(told) \/ told'[i].kind = "reset"
                                    \/ ui.omitted /\ told'[i].kind = "omitted" /\ told'[i].epoch = interest
         /\ ui.omitted => /\ Len(told') > Len(told) /\ told'[Len(told')].kind = "omitted"
                          /\ told'[Len(told')].epoch = interest
         /\ Taken = {} /\ Taken' = {} /\ Retained' = Retained
         /\ TextTold' = TextTold /\ HeardNow' = HeardNow /\ Kept' = Kept
<1>1. /\ interest \in Nat /\ told \in Seq(Telling) /\ told' \in Seq(Telling)
      /\ ui.reset \in BOOLEAN /\ ui.omitted \in BOOLEAN
      /\ ui.chunks = <<>> /\ ui'.chunks = <<>> /\ Retained' = Retained /\ interest' = interest
  BY DEF TellEnd, IInv, TypeOK, ReaderType, Resting, shared, Retained
<1>. DEFINE mid == Say(told, ui.reset, "reset", 0)
<1>2. /\ mid \in Seq(Telling)
      /\ Len(mid) = (IF ui.reset THEN Len(told) + 1 ELSE Len(told))
      /\ \A i \in 1..Len(told) : mid[i] = told[i]
      /\ ui.reset => mid[Len(told) + 1].kind = "reset"
  BY ONLY <1>1, SayGrows
<1>3. told' = Say(mid, ui.omitted, "omitted", 0)
  BY DEF TellEnd
<1>. HIDE DEF mid
<1>4. /\ Len(told') = (IF ui.omitted THEN Len(mid) + 1 ELSE Len(mid))
      /\ \A i \in 1..Len(mid) : told'[i] = mid[i]
      /\ ui.omitted => told'[Len(mid) + 1].kind = "omitted" /\ told'[Len(mid) + 1].epoch = interest
  BY <1>1, <1>2, <1>3, SayGrows
<1>5. /\ Len(told) \in Nat /\ Len(mid) \in Nat /\ Len(mid) >= Len(told) /\ Len(told') >= Len(mid)
      /\ DOMAIN told' = 1..Len(told') /\ DOMAIN told = 1..Len(told) /\ Len(told') \in Nat
  BY <1>1, <1>2, <1>4
<1>6. \A i \in 1..Len(mid) : i \in 1..Len(told) \/ mid[i].kind = "reset"
  BY <1>2, <1>5
<1>7. \A i \in DOMAIN told' : \/ i \in 1..Len(told) \/ told'[i].kind = "reset"
                              \/ ui.omitted /\ told'[i].kind = "omitted" /\ told'[i].epoch = interest
  <2>. TAKE i \in DOMAIN told'
  <2>1. i \in 1..Len(mid) \/ (ui.omitted /\ i = Len(mid) + 1)
    BY <1>4, <1>5
  <2>. QED  BY <1>4, <1>6, <2>1
<1>8. \A i \in 1..Len(told) : told'[i] = told[i]
  BY <1>2, <1>4, <1>5
<1>9. DOMAIN told \subseteq DOMAIN told'
  BY <1>5
<1>10. \A i \in DOMAIN told' : IsData(i)' <=> i \in DOMAIN told /\ IsData(i)
  BY <1>5, <1>7, <1>8, <1>9 DEF IsData
<1>11. TextTold' = TextTold /\ HeardNow' = HeardNow
  BY <1>1, <1>5, <1>8, <1>9, <1>10 DEF TextTold, HeardNow
<1>12. Taken = {} /\ Taken' = {}
  BY <1>1 DEF Taken
<1>. QED  BY <1>1, <1>4, <1>5, <1>7, <1>8, <1>11, <1>12 DEF Kept

\* What was made stays as it was made.
LEMMA MadeGrows ==
  ASSUME IInv, Next, TypeOK'
  PROVE  /\ Len(made) \in Nat /\ Len(made') \in Nat /\ Len(made) <= Len(made')
         /\ DOMAIN made = 1..Len(made) /\ DOMAIN made' = 1..Len(made')
         /\ \A n \in DOMAIN made : n \in DOMAIN made' /\ made'[n] = made[n] /\ EpochOf(n)' = EpochOf(n)
<1>1. made \in Seq(Item) /\ made' \in Seq(Item)
  BY DEF IInv, TypeOK, ReaderType
<1>2. /\ Len(made) \in Nat /\ Len(made') \in Nat
      /\ DOMAIN made = 1..Len(made) /\ DOMAIN made' = 1..Len(made')
  BY <1>1
<1>3. CASE made' = made
  BY <1>2, <1>3 DEF EpochOf
<1>4. ASSUME NEW c \in Captures, Capture(c)
      PROVE  Len(made) <= Len(made') /\ \A n \in 1..Len(made) : made'[n] = made[n]
  <2>. DEFINE h == c.head
              r == Resets(c)
              t == c.tail
              u == Cuts(c)
  <2>1. /\ h \in Nat /\ r \in Nat /\ t \in Nat /\ u \in Nat
        /\ Len(made') = Len(made) + h + r + t + u
        /\ \A n \in 1..Len(made) : made'[n] = made[n]
    BY <1>4, CaptureItems DEF IInv
  <2>. HIDE DEF h, r, t, u
  <2>. QED  BY <1>2, <2>1
<1>5. made' = made \/ \E c \in Captures : Capture(c)
  BY DEF Next, Reader, Ui, CheckEpoch, ReadPending, ReadCurrent, RemoveMark, TryLock, Fill,
         Mark, Claim, ReaderUnlocks, ReaderReturns, LoseInterest, TakeInterest, Empty, Unmark,
         BeginEpoch, Drain, Take, Swap, UiUnlocks, TellChunk, TellEnd
<1>6. CASE \E c \in Captures : Capture(c)
  <2>1. Len(made) <= Len(made') /\ \A n \in 1..Len(made) : made'[n] = made[n]
    BY <1>4, <1>6
  <2>. QED  BY <1>2, <2>1 DEF EpochOf
<1>. QED  BY <1>3, <1>5, <1>6

\* A fill decides its part, or, if it does not fit, all that is left of the capture.
LEMMA FillDecides ==
  ASSUME IInv, TypeOK', Fill
  PROVE  \/ /\ reader'.pc = "mark" /\ Decided' = Len(made) /\ reader'.parts = reader.parts
            /\ Fits(reader.parts[1]) < reader.parts[1].count \/ reader.parts[1].cut
         \/ /\ reader'.pc = "unlock" /\ reader'.at = "locked"
            /\ Fits(reader.parts[1]) = reader.parts[1].count
            /\ Decided' \in Nat /\ End(1) <= Decided'
            /\ \A n \in (End(1) + 1)..Decided' : made[n].kind = "reset"
<1>1. /\ reader.parts \in Seq(Part) /\ reader.parts # <<>> /\ reader.parts[1] \in Part
      /\ Fits(reader.parts[1]) \in Int /\ Fits(reader.parts[1]) <= reader.parts[1].count
  BY FillEffect DEF IInv, TypeOK, ReaderType
<1>2. /\ made' = made /\ made \in Seq(Item) /\ reader.at = "locked" /\ Len(made) \in Nat
      /\ reader.parts[1] = Head(reader.parts)
  BY <1>1 DEF Fill, IInv, TypeOK, ReaderType, Control, MutexInv
<1>. DEFINE p == reader.parts[1]
<1>3. CASE Fits(p) < p.count \/ p.cut
  <2>1. reader' = [reader EXCEPT !.pc = "mark"]
    BY <1>2, <1>3 DEF Fill, ReaderTo
  <2>2. reader'.pc = "mark" /\ reader'.parts = reader.parts
    BY <2>1 DEF IInv, TypeOK, ReaderType
  <2>. QED  BY <1>2, <1>3, <2>2 DEF Decided, Marking
<1>4. CASE ~(Fits(p) < p.count \/ p.cut)
  <2>1. reader' = [reader EXCEPT !.pc = "unlock", !.parts = Tail(reader.parts)]
    BY <1>2, <1>4 DEF Fill
  <2>2. reader'.pc = "unlock" /\ reader'.parts = Tail(reader.parts) /\ reader'.at = "locked"
    BY <1>2, <2>1 DEF IInv, TypeOK, ReaderType
  <2>3. Fits(p) = p.count /\ p.first \in Nat /\ p.count \in Nat /\ End(1) = p.first + p.count
    BY <1>1, <1>4 DEF Part, End
  <2>4. CASE Len(reader.parts) = 1
    <3>1. Tail(reader.parts) \in Seq(Part) /\ Len(Tail(reader.parts)) = 0
      BY <1>1, <2>4, TailOf
    <3>2. Tail(reader.parts) = <<>>
      BY <3>1, EmptySeq
    <3>3. Decided' = Len(made)
      BY <1>2, <2>2, <3>2 DEF Decided
    <3>4. LastPart(1)
      BY <1>1, <2>4 DEF IInv, PartsInv
    <3>5. End(1) = Len(made)
      BY <1>4, <3>4 DEF LastPart
    <3>6. \A n \in (Len(made) + 1)..Len(made) : FALSE
      BY <1>2
    <3>. QED  BY <1>2, <2>2, <2>3, <3>3, <3>5, <3>6
  <2>5. CASE Len(reader.parts) = 2
    <3>1. /\ Tail(reader.parts) \in Seq(Part) /\ Len(Tail(reader.parts)) = 1
          /\ Tail(reader.parts)[1] = reader.parts[2]
      BY <1>1, <2>5, TailOf
    <3>2. Tail(reader.parts) # <<>> /\ reader.parts[2] \in Part
      <4>1. Tail(reader.parts) # <<>>
        <5>. DEFINE s == Tail(reader.parts)
        <5>1. Len(s) = 1
          BY <3>1
        <5>. HIDE DEF s
        <5>2. s # <<>>
          BY <5>1
        <5>. QED  BY <5>2 DEF s
      <4>2. reader.parts[2] \in Part
        BY <1>1, <2>5
      <4>. QED  BY <4>1, <4>2
    <3>3. Decided' = reader.parts[2].first
      BY <2>2, <3>1, <3>2 DEF Decided, Marking
    <3>4. End(1) <= reader.parts[2].first /\ \A n \in (End(1) + 1)..reader.parts[2].first : made[n].kind = "reset"
      BY <1>1, <2>5 DEF IInv, PartsInv
    <3>5. reader.parts[2].first \in Nat
      BY <3>2 DEF Part
    <3>. QED  BY <2>2, <2>3, <3>3, <3>4, <3>5
  <2>6. Len(reader.parts) \in {1, 2}
    <3>1. Len(reader.parts) # 0
      BY <1>1
    <3>. QED  BY <3>1 DEF IInv, PartsInv
  <2>. QED  BY <2>4, <2>5, <2>6
<1>. QED  BY <1>3, <1>4

\* What is decided stays so.
LEMMA DecidedGrows ==
  ASSUME IInv, Next, TypeOK'
  PROVE  Decided <= Decided'
<1>0. Decided \in Nat /\ Decided <= Len(made)
  BY DecidedTypes DEF IInv
<1>1. ASSUME NEW c \in Captures, Capture(c) PROVE Decided <= Decided'
  <2>1. Decided = Len(made) /\ Len(made) \in Nat
    BY <1>1 DEF Capture, IInv, TypeOK, ReaderType, Control, AtInv, Decided, Marking
  <2>2. /\ reader'.parts = Parts(c) /\ reader'.pc = "check" /\ reader'.at = "entry"
        /\ Parts(c) # <<>>
    BY <1>1, PartsThere DEF Capture, Idle
  <2>3. Decided' = Parts(c)[1].first
    BY <2>2 DEF Decided, Marking
  <2>4. Parts(c)[1].first = Len(made) \/ Parts(c)[1].first = Len(made) + Resets(c)
    BY DEF Parts, Push
  <2>5. Resets(c) \in Nat
    BY DEF Resets
  <2>. QED  BY <2>1, <2>3, <2>4, <2>5
<1>2. CASE CheckEpoch
  <2>1. Decided' = Decided \/ Decided' = Len(made)
    BY <1>2, CheckEpochEffect, ReaderTypes, NothingIsParts DEF IInv, Control, AtInv,
       Marking, Decided, Becomes, Finished
  <2>. QED  BY <2>1, <1>0
<1>3. CASE ReadPending
  <2>1. Decided' = Decided \/ Decided' = Len(made)
    BY <1>3, ReadPendingEffect, ReaderTypes, NothingIsParts DEF IInv, Control, AtInv,
       Marking, Decided, Becomes, Finished, Onward
  <2>. QED  BY <2>1, <1>0
<1>4. CASE ReadCurrent
  <2>1. Decided' = Decided \/ Decided' = Len(made)
    BY <1>4, ReadCurrentEffect, ReaderTypes, NothingIsParts DEF IInv, Control, AtInv,
       Marking, Decided, Becomes, Finished, Onward
  <2>. QED  BY <2>1, <1>0
<1>5. CASE RemoveMark
  <2>1. Decided' = Decided \/ Decided' = Len(made)
    BY <1>5, RemoveMarkEffect, ReaderTypes, NothingIsParts DEF IInv, Control, AtInv,
       Marking, Decided, Becomes, Finished
  <2>. QED  BY <2>1, <1>0
<1>6. CASE TryLock
  <2>1. Decided' = Decided \/ Decided' = Len(made)
    BY <1>6, TryLockEffect, ReaderTypes, NothingIsParts DEF IInv, Control, AtInv, Marking,
       Decided, Becomes, Finished
  <2>. QED  BY <2>1, <1>0
<1>7. CASE Fill
  <2>1. /\ Decided = reader.parts[1].first /\ reader.parts[1] \in Part
    BY <1>7, FillEffect
  <2>2. Decided <= Len(made) /\ Decided \in Nat
    BY DecidedTypes DEF IInv
  <2>3. Decided <= End(1)
    BY <2>1 DEF End, Part
  <2>4. End(1) \in Nat
    BY <2>1 DEF End, Part
  <2>. QED  BY <1>7, <2>1, <2>2, <2>3, <2>4, FillDecides
<1>8. CASE Mark
  <2>1. Decided' = Decided \/ Decided' = Len(made)
    BY <1>8, MarkEffect, ReaderTypes, NothingIsParts DEF IInv, Control, AtInv, Marking,
       Decided, Becomes, Finished
  <2>. QED  BY <2>1, <1>0
<1>9. CASE Claim
  <2>1. Decided' = Decided \/ Decided' = Len(made)
    BY <1>9, ClaimEffect, ReaderTypes, NothingIsParts DEF IInv, Control, AtInv, Marking,
       Decided, Becomes, Finished
  <2>. QED  BY <2>1, <1>0
<1>10. CASE ReaderUnlocks
  <2>1. Decided' = Decided \/ Decided' = Len(made)
    BY <1>10, NothingIsParts DEF IInv, TypeOK, ReaderType, Control, AtInv, Marking,
       Decided, ReaderUnlocks
  <2>. QED  BY <2>1, <1>0
<1>11. CASE ReaderReturns
  <2>1. Decided' = Decided \/ Decided' = Len(made)
    BY <1>11, NothingIsParts DEF IInv, TypeOK, ReaderType, Control, AtInv, Marking,
       Decided, ReaderReturns, Idle, shared
  <2>. QED  BY <2>1, <1>0
<1>12. CASE LoseInterest
  <2>1. Decided' = Decided \/ Decided' = Len(made)
    BY <1>12, NothingIsParts DEF IInv, TypeOK, ReaderType, Control, AtInv, Marking,
       Decided, LoseInterest, UiTo
  <2>. QED  BY <2>1, <1>0
<1>13. CASE TakeInterest
  <2>1. Decided' = Decided \/ Decided' = Len(made)
    BY <1>13, NothingIsParts DEF IInv, TypeOK, ReaderType, Control, AtInv, Marking,
       Decided, TakeInterest, UiTo, shared
  <2>. QED  BY <2>1, <1>0
<1>14. CASE Empty
  <2>1. Decided' = Decided \/ Decided' = Len(made)
    BY <1>14, NothingIsParts DEF IInv, TypeOK, ReaderType, Control, AtInv, Marking,
       Decided, Empty, UiTo
  <2>. QED  BY <2>1, <1>0
<1>15. CASE Unmark
  <2>1. Decided' = Decided \/ Decided' = Len(made)
    BY <1>15, NothingIsParts DEF IInv, TypeOK, ReaderType, Control, AtInv, Marking,
       Decided, Unmark, UiTo
  <2>. QED  BY <2>1, <1>0
<1>16. CASE BeginEpoch
  <2>1. Decided' = Decided \/ Decided' = Len(made)
    BY <1>16, NothingIsParts DEF IInv, TypeOK, ReaderType, Control, AtInv, Marking,
       Decided, BeginEpoch, UiTo
  <2>. QED  BY <2>1, <1>0
<1>17. CASE Drain
  <2>1. Decided' = Decided \/ Decided' = Len(made)
    BY <1>17, NothingIsParts DEF IInv, TypeOK, ReaderType, Control, AtInv, Marking,
       Decided, Drain, UiTo, shared
  <2>. QED  BY <2>1, <1>0
<1>18. CASE Take
  <2>1. Decided' = Decided \/ Decided' = Len(made)
    BY <1>18, NothingIsParts DEF IInv, TypeOK, ReaderType, Control, AtInv, Marking,
       Decided, Take
  <2>. QED  BY <2>1, <1>0
<1>19. CASE Swap
  <2>1. Decided' = Decided \/ Decided' = Len(made)
    BY <1>19, NothingIsParts DEF IInv, TypeOK, ReaderType, Control, AtInv, Marking,
       Decided, Swap
  <2>. QED  BY <2>1, <1>0
<1>20. CASE UiUnlocks
  <2>1. Decided' = Decided \/ Decided' = Len(made)
    BY <1>20, NothingIsParts DEF IInv, TypeOK, ReaderType, Control, AtInv, Marking,
       Decided, UiUnlocks, Resting
  <2>. QED  BY <2>1, <1>0
<1>21. CASE TellChunk
  <2>1. Decided' = Decided \/ Decided' = Len(made)
    BY <1>21, NothingIsParts DEF IInv, TypeOK, ReaderType, Control, AtInv, Marking,
       Decided, TellChunk, shared
  <2>. QED  BY <2>1, <1>0
<1>22. CASE TellEnd
  <2>1. Decided' = Decided \/ Decided' = Len(made)
    BY <1>22, NothingIsParts DEF IInv, TypeOK, ReaderType, Control, AtInv, Marking,
       Decided, TellEnd, Resting, shared
  <2>. QED  BY <2>1, <1>0
<1>. QED  BY <1>1, <1>2, <1>3, <1>4, <1>5, <1>6, <1>7, <1>8, <1>9, <1>10, <1>11, <1>12,
             <1>13, <1>14, <1>15, <1>16, <1>17, <1>18, <1>19, <1>20, <1>21, <1>22 DEF Next,
             Reader, Ui

\* The same of the next state.
LEMMA DecidedTypesNext ==
  ASSUME TypeOK', PartsInv'
  PROVE  Decided' \in Nat /\ Decided' <= Len(made')
<1>1. Len(made') \in Nat /\ reader'.parts \in Seq(Part)
  BY DEF TypeOK, ReaderType
<1>2. CASE Marking' \/ reader'.parts = <<>>
  BY <1>1, <1>2 DEF Decided
<1>3. CASE ~Marking' /\ reader'.parts # <<>>
  <2>1. 1 \in DOMAIN reader'.parts /\ reader'.parts[1] \in Part
    BY <1>1, <1>3
  <2>2. End(1)' <= Len(made')
    BY <2>1 DEF PartsInv
  <2>. QED  BY <1>1, <1>3, <2>1, <2>2 DEF Decided, End, Part
<1>. QED  BY <1>2, <1>3

-----------------------------------------------------------------------------
(* Place and order.                                                         *)

\* What a step leaves where it is keeps its place and its order.
LEMMA PlaceStays ==
  ASSUME IInv, Next, TypeOK', UNCHANGED <<ring, told, interest>>, ui'.chunks = ui.chunks,
         ui'.pc = ui.pc \/ ui.pc # "lock"
  PROVE  PlaceInv' /\ OrderInv'
<1>1. /\ Taken' = Taken /\ Retained' = Retained /\ Kept' = Kept
      /\ TextTold' = TextTold /\ HeardNow' = HeardNow
  BY SetsSame
<1>2. \A n \in DOMAIN made : n \in DOMAIN made' /\ made'[n] = made[n] /\ EpochOf(n)' = EpochOf(n)
  BY MadeGrows
<1>3. Decided <= Decided' /\ Decided \in Nat /\ Decided' \in Nat
  BY DecidedGrows, DecidedTypes, DecidedTypesNext, PartsKept DEF IInv
<1>4. Kept \subseteq DOMAIN made /\ Taken \subseteq Kept /\ Retained \subseteq Kept /\ TextTold \subseteq Kept
  BY DEF IInv, PlaceInv, Kept
<1>5. PlaceInv'
  <2>1. Kept' \subseteq DOMAIN made'
    BY <1>1, <1>2, <1>4
  <2>2. \A n \in Taken' : EpochOf(n)' = interest'
    BY <1>1, <1>2, <1>4 DEF IInv, PlaceInv
  <2>3. \A n \in Retained' : \/ EpochOf(n)' = interest'
                             \/ ui'.pc = "lock" /\ EpochOf(n)' + 1 = interest'
    BY <1>1, <1>2, <1>4 DEF IInv, PlaceInv
  <2>4. \A j \in DOMAIN told' : IsData(j)' => EpochOf(told[j].at)' = told'[j].epoch
    <3>1. \A j \in DOMAIN told : IsData(j) => told[j].at \in DOMAIN made
      BY <1>4 DEF TextTold
    <3>2. \A j \in DOMAIN told : IsData(j)' <=> IsData(j)
      BY DEF IsData
    <3>3. ASSUME NEW j \in DOMAIN told, IsData(j)
          PROVE  made'[told[j].at].epoch = told[j].epoch
      <4>1. made[told[j].at].epoch = told[j].epoch
        BY <3>3 DEF IInv, PlaceInv, EpochOf
      <4>2. made'[told[j].at] = made[told[j].at]
        BY <1>2, <3>1, <3>3
      <4>. QED  BY <4>1, <4>2
    <3>4. told' = told
      OBVIOUS
    <3>. HIDE DEF IsData
    <3>5. ASSUME NEW j \in DOMAIN told', IsData(j)'
          PROVE  EpochOf(told[j].at)' = told'[j].epoch
      <4>1. j \in DOMAIN told /\ IsData(j)
        BY <3>2, <3>4, <3>5
      <4>. QED  BY <3>3, <3>4, <4>1 DEF EpochOf
    <3>. QED  BY <3>5
  <2>. QED  BY <2>1, <2>2, <2>3, <2>4 DEF PlaceInv
<1>6. OrderInv'
  <2>1. \A a \in Kept : a <= Decided /\ a \in Nat
    BY KeptTypes DEF IInv, OrderInv, Kept
  <2>2. \A a \in Kept' : a <= Decided'
    BY <1>1, <1>3, <2>1
  <2>. QED  BY <1>1, <2>2 DEF IInv, OrderInv
<1>. QED  BY <1>5, <1>6

\* What is kept no more than before stays within what was made and decided.
LEMMA KeptBound ==
  ASSUME IInv, Next, TypeOK', Kept' \subseteq Kept
  PROVE  /\ Kept' \subseteq DOMAIN made'
         /\ \A a \in Kept' : a \in Nat /\ a <= Decided' /\ EpochOf(a)' = EpochOf(a)
<1>1. \A n \in DOMAIN made : n \in DOMAIN made' /\ EpochOf(n)' = EpochOf(n)
  BY MadeGrows
<1>2. Decided <= Decided' /\ Decided \in Nat /\ Decided' \in Nat
  BY DecidedGrows, DecidedTypes, DecidedTypesNext, PartsKept DEF IInv
<1>3. Kept \subseteq DOMAIN made
  BY DEF IInv, PlaceInv
<1>4. \A a \in Kept : a \in Nat /\ a <= Decided
  BY KeptTypes DEF IInv, OrderInv, Kept
<1>. QED  BY <1>1, <1>2, <1>3, <1>4

\* What was told is of its epoch for ever.
LEMMA ToldPlace ==
  ASSUME IInv, Next, TypeOK'
  PROVE  \A j \in DOMAIN told : IsData(j) => /\ told[j].at \in TextTold /\ told[j].at \in DOMAIN made
                                             /\ made'[told[j].at].epoch = told[j].epoch
<1>. TAKE j \in DOMAIN told
<1>. HAVE IsData(j)
<1>1. told[j].at \in TextTold
  BY DEF TextTold
<1>2. told[j].at \in DOMAIN made
  BY <1>1 DEF IInv, PlaceInv, Kept
<1>3. made[told[j].at].epoch = told[j].epoch
  BY DEF IInv, PlaceInv, EpochOf
<1>4. made'[told[j].at] = made[told[j].at]
  BY <1>2, MadeGrows
<1>. QED  BY <1>1, <1>2, <1>3, <1>4

\* A step that tells nothing keeps what was told in its epoch.
LEMMA ToldStays ==
  ASSUME IInv, Next, TypeOK', told' = told
  PROVE  /\ \A j \in DOMAIN told' : IsData(j)' => EpochOf(told[j].at)' = told'[j].epoch
         /\ TextTold' = TextTold
<1>1. \A j \in DOMAIN told : IsData(j)' <=> IsData(j)
  BY DEF IsData
<1>2. ASSUME NEW j \in DOMAIN told', IsData(j)'
      PROVE  EpochOf(told[j].at)' = told'[j].epoch
  <2>1. made'[told[j].at].epoch = told[j].epoch
    BY <1>1, <1>2, ToldPlace
  <2>. QED  BY <2>1 DEF EpochOf
<1>3. TextTold' = TextTold
  BY DEF TextTold, IsData
<1>. QED  BY <1>2, <1>3

\* In an epoch that is new, nothing was heard.
LEMMA NewEpoch ==
  ASSUME IInv, told' = told, interest' = interest + 1
  PROVE  HeardNow' = {}
<1>1. \A i \in DOMAIN told : told[i].epoch <= interest
  BY DEF IInv, MadeInv
<1>2. \A i \in DOMAIN told : told[i].epoch \in Nat
  <2>1. \A i \in DOMAIN told : told[i] \in Telling
    BY DEF IInv, TypeOK, ReaderType
  <2>. QED  BY <2>1 DEF Telling
<1>3. \A i \in DOMAIN told : told[i].epoch # interest + 1
  BY <1>1, <1>2 DEF IInv, TypeOK, ReaderType
<1>. QED  BY <1>3 DEF HeardNow, IsData

\* A drain without chunks has taken nothing.
LEMMA NothingTaken ==
  ASSUME ui.chunks = <<>> PROVE Taken = {}
  BY DEF Taken

\* The same of the next state.
LEMMA NothingTakenNext ==
  ASSUME ui'.chunks = <<>> PROVE Taken' = {}
  BY DEF Taken

\* An empty ring retains nothing.
LEMMA NothingRetainedNext ==
  ASSUME ring' = <<>> PROVE Retained' = {}
  BY DEF Retained

\* What is kept stays in its place and in order.
LEMMA PlaceKept ==
  ASSUME IInv, Next, TypeOK'
  PROVE  PlaceInv' /\ OrderInv'
<1>. HIDE DEF IInv, TypeOK, ReaderType, Next
<1>1. ASSUME NEW c \in Captures, Capture(c) PROVE PlaceInv' /\ OrderInv'
  <2>1. /\ UNCHANGED <<ring, told, interest>> /\ ui'.chunks = ui.chunks
        /\ ui'.pc = ui.pc \/ ui.pc # "lock"
    BY <1>1 DEF IInv, TypeOK, ReaderType, Control, UiInv, Capture, Idle, shared
  <2>. QED  BY <2>1, PlaceStays
<1>2. CASE CheckEpoch
  <2>1. /\ UNCHANGED <<ring, told, interest>> /\ ui'.chunks = ui.chunks
        /\ ui'.pc = ui.pc \/ ui.pc # "lock"
    BY <1>2, CheckEpochEffect, ReaderTypes DEF IInv, Control, UiInv, Becomes, Finished
  <2>. QED  BY <2>1, PlaceStays
<1>3. CASE ReadPending
  <2>1. /\ UNCHANGED <<ring, told, interest>> /\ ui'.chunks = ui.chunks
        /\ ui'.pc = ui.pc \/ ui.pc # "lock"
    BY <1>3, ReadPendingEffect, ReaderTypes DEF IInv, Control, UiInv, Becomes, Finished,
       Onward
  <2>. QED  BY <2>1, PlaceStays
<1>4. CASE ReadCurrent
  <2>1. /\ UNCHANGED <<ring, told, interest>> /\ ui'.chunks = ui.chunks
        /\ ui'.pc = ui.pc \/ ui.pc # "lock"
    BY <1>4, ReadCurrentEffect, ReaderTypes DEF IInv, Control, UiInv, Becomes, Finished,
       Onward
  <2>. QED  BY <2>1, PlaceStays
<1>5. CASE RemoveMark
  <2>1. /\ UNCHANGED <<ring, told, interest>> /\ ui'.chunks = ui.chunks
        /\ ui'.pc = ui.pc \/ ui.pc # "lock"
    BY <1>5, RemoveMarkEffect, ReaderTypes DEF IInv, Control, UiInv, Becomes, Finished
  <2>. QED  BY <2>1, PlaceStays
<1>6. CASE TryLock
  <2>1. /\ UNCHANGED <<ring, told, interest>> /\ ui'.chunks = ui.chunks
        /\ ui'.pc = ui.pc \/ ui.pc # "lock"
    BY <1>6, TryLockEffect, ReaderTypes DEF IInv, Control, UiInv, Becomes, Finished
  <2>. QED  BY <2>1, PlaceStays
<1>7. CASE Fill
  <2>. DEFINE p == reader.parts[1]
              f == Fits(p)
              new == (p.first + 1)..(p.first + f)
  <2>0. /\ told' = told /\ interest' = interest /\ ui' = ui /\ made' = made /\ reader.parts # <<>>
        /\ reader.at = "locked" /\ reader.pc = "fill" /\ made \in Seq(Item) /\ reader.parts \in Seq(Part)
    BY <1>7, FillEffect DEF Fill, IInv, TypeOK, ReaderType, Control, MutexInv
  <2>1. /\ p \in Part /\ Decided = p.first /\ f \in Int /\ f <= p.count
        /\ Taken' = Taken /\ TextTold' = TextTold /\ HeardNow' = HeardNow
        /\ Retained' = Retained \cup new
    BY <1>7, FillEffect
  <2>2. p.first \in Nat /\ p.count \in Nat /\ End(1) = p.first + p.count /\ End(1) <= Len(made)
    <3>1. 1 \in DOMAIN reader.parts
      BY <2>0
    <3>. QED  BY <2>1, <3>1 DEF Part, End, IInv, PartsInv
  <2>. HIDE DEF p, f
  <2>3. \A n \in new : /\ n \in Nat /\ n > Decided /\ n <= End(1) /\ n \in 1..Len(made)
    <3>1. Len(made) \in Nat
      BY <2>0
    <3>. QED  BY <2>1, <2>2, <3>1
  <2>4. \A n \in new : n \in DOMAIN made /\ EpochOf(n) = reader.epoch
    <3>1. \A n \in DOMAIN made : n > p.first => EpochOf(n) = reader.epoch
      BY <2>0 DEF IInv, PartsInv, p
    <3>2. DOMAIN made = 1..Len(made)
      BY <2>0
    <3>. QED  BY <2>1, <2>3, <3>1, <3>2
  <2>5. interest = reader.epoch \/ (ui.pc = "lock" /\ interest = reader.epoch + 1)
    BY <2>0 DEF IInv, Control, EpochInv, Checked
  <2>6. Kept' = Kept \cup new
    BY <2>1 DEF Kept
  <2>7. \A n \in Nat : n <= Decided \/ n <= End(1) => n <= Decided'
    <3>1. Decided' \in Nat /\ Decided <= Decided' /\ Decided \in Nat /\ End(1) \in Nat
      BY <2>2, DecidedGrows, DecidedTypes, DecidedTypesNext, PartsKept DEF IInv
    <3>2. End(1) <= Decided' \/ Decided' = Len(made)
      BY <1>7, FillDecides
    <3>. QED  BY <2>2, <3>1, <3>2
  <2>8. PlaceInv'
    <3>1. Kept' \subseteq DOMAIN made'
      BY <2>0, <2>4, <2>6 DEF IInv, PlaceInv
    <3>2. \A n \in Taken' : EpochOf(n)' = interest'
      BY <2>0, <2>1 DEF IInv, PlaceInv, EpochOf
    <3>3. \A n \in Retained' : \/ EpochOf(n)' = interest'
                               \/ ui'.pc = "lock" /\ EpochOf(n)' + 1 = interest'
      <4>1. \A n \in Retained : \/ EpochOf(n) = interest
                                \/ ui.pc = "lock" /\ EpochOf(n) + 1 = interest
        BY DEF IInv, PlaceInv
      <4>2. \A n \in new : \/ EpochOf(n) = interest
                           \/ ui.pc = "lock" /\ EpochOf(n) + 1 = interest
        BY <2>4, <2>5
      <4>3. \A n : EpochOf(n)' = EpochOf(n)
        BY <2>0 DEF EpochOf
      <4>. HIDE DEF new
      <4>. QED  BY <2>0, <2>1, <4>1, <4>2, <4>3
    <3>. QED  BY <2>0, <3>1, <3>2, <3>3, ToldStays DEF PlaceInv
  <2>9. OrderInv'
    <3>1. \A i, k \in DOMAIN ring' : i < k => ring'[i].at < ring'[k].at
      BY <1>7, FillEffect
    <3>2. \A i, k \in DOMAIN ui'.chunks : i < k => ui'.chunks[i].at < ui'.chunks[k].at
      BY <2>0 DEF IInv, OrderInv
    <3>3. \A a \in Kept : a \in Nat /\ a <= Decided
      BY KeptTypes DEF IInv, OrderInv, Kept
    <3>4. Decided \in Nat
      BY <2>1, <2>2
    <3>5. \A a \in Kept, b \in new : a < b
      BY <2>3, <3>3, <3>4
    <3>6. HeardNow \subseteq Kept /\ Taken \subseteq Kept
      BY KeptTypes DEF IInv, Kept
    <3>. HIDE DEF new
    <3>7. \A a \in HeardNow', b \in Taken' \cup Retained' : a < b
      BY <2>1, <3>5, <3>6 DEF IInv, OrderInv
    <3>8. \A a \in Taken', b \in Retained' : a < b
      BY <2>1, <3>5, <3>6 DEF IInv, OrderInv
    <3>9. \A a \in Kept' : a <= Decided'
      BY <2>3, <2>6, <2>7, <3>3
    <3>. QED  BY <3>1, <3>2, <3>7, <3>8, <3>9 DEF OrderInv
  <2>. QED  BY <2>8, <2>9
<1>8. CASE Mark
  <2>1. /\ UNCHANGED <<ring, told, interest>> /\ ui'.chunks = ui.chunks
        /\ ui'.pc = ui.pc \/ ui.pc # "lock"
    BY <1>8, MarkEffect, ReaderTypes DEF IInv, Control, UiInv, Becomes, Finished
  <2>. QED  BY <2>1, PlaceStays
<1>9. CASE Claim
  <2>1. /\ UNCHANGED <<ring, told, interest>> /\ ui'.chunks = ui.chunks
        /\ ui'.pc = ui.pc \/ ui.pc # "lock"
    BY <1>9, ClaimEffect, ReaderTypes DEF IInv, Control, UiInv, Becomes, Finished
  <2>. QED  BY <2>1, PlaceStays
<1>10. CASE ReaderUnlocks
  <2>1. /\ UNCHANGED <<ring, told, interest>> /\ ui'.chunks = ui.chunks
        /\ ui'.pc = ui.pc \/ ui.pc # "lock"
    BY <1>10 DEF IInv, TypeOK, ReaderType, Control, UiInv, ReaderUnlocks
  <2>. QED  BY <2>1, PlaceStays
<1>11. CASE ReaderReturns
  <2>1. /\ UNCHANGED <<ring, told, interest>> /\ ui'.chunks = ui.chunks
        /\ ui'.pc = ui.pc \/ ui.pc # "lock"
    BY <1>11 DEF IInv, TypeOK, ReaderType, Control, UiInv, ReaderReturns, Idle, shared
  <2>. QED  BY <2>1, PlaceStays
<1>12. CASE LoseInterest
  <2>0. /\ ui.chunks = <<>> /\ ui'.chunks = <<>> /\ ring' = ring /\ told' = told
        /\ interest' = interest + 1 /\ ui'.pc = "lock" /\ ui.pc = "idle"
    BY <1>12 DEF LoseInterest, UiTo, IInv, TypeOK, ReaderType, Control, UiInv
  <2>1. Taken = {} /\ Taken' = {} /\ HeardNow' = {}
    BY <2>0, NothingTaken, NothingTakenNext, NewEpoch
  <2>2. Retained' = Retained /\ TextTold' = TextTold
    BY <2>0, ToldStays DEF Retained
  <2>3. Kept' = Kept
    BY <2>1, <2>2 DEF Kept
  <2>4. /\ Kept' \subseteq DOMAIN made'
        /\ \A a \in Kept' : a \in Nat /\ a <= Decided' /\ EpochOf(a)' = EpochOf(a)
    BY <2>3, KeptBound
  <2>5. \A n \in Retained' : EpochOf(n)' + 1 = interest'
    <3>1. \A n \in Retained : EpochOf(n) = interest
      BY <2>0 DEF IInv, PlaceInv
    <3>. QED  BY <2>0, <2>2, <2>4, <3>1 DEF Kept
  <2>6. PlaceInv'
    BY <2>0, <2>1, <2>4, <2>5, ToldStays DEF PlaceInv
  <2>7. OrderInv'
    BY <2>0, <2>1, <2>4 DEF IInv, OrderInv
  <2>. QED  BY <2>6, <2>7
<1>13. CASE TakeInterest
  <2>1. /\ UNCHANGED <<ring, told, interest>> /\ ui'.chunks = ui.chunks
        /\ ui'.pc = ui.pc \/ ui.pc # "lock"
    BY <1>13 DEF IInv, TypeOK, ReaderType, Control, UiInv, TakeInterest, UiTo, shared
  <2>. QED  BY <2>1, PlaceStays
<1>14. CASE Empty
  <2>0. /\ ui.chunks = <<>> /\ ui'.chunks = <<>> /\ ring' = <<>> /\ told' = told
    BY <1>14 DEF Empty, UiTo, IInv, TypeOK, ReaderType, Control, UiInv
  <2>1. Taken = {} /\ Taken' = {} /\ Retained' = {} /\ TextTold' = TextTold
    BY <2>0, NothingTaken, NothingTakenNext, NothingRetainedNext, ToldStays
  <2>3. Kept' \subseteq Kept
    BY <2>1 DEF Kept
  <2>4. /\ Kept' \subseteq DOMAIN made'
        /\ \A a \in Kept' : a \in Nat /\ a <= Decided' /\ EpochOf(a)' = EpochOf(a)
    BY <2>3, KeptBound
  <2>6. PlaceInv'
    BY <2>0, <2>1, <2>4, ToldStays DEF PlaceInv
  <2>7. OrderInv'
    BY <2>0, <2>1, <2>4 DEF IInv, OrderInv
  <2>. QED  BY <2>6, <2>7
<1>15. CASE Unmark
  <2>1. /\ UNCHANGED <<ring, told, interest>> /\ ui'.chunks = ui.chunks
        /\ ui'.pc = ui.pc \/ ui.pc # "lock"
    BY <1>15 DEF IInv, TypeOK, ReaderType, Control, UiInv, Unmark, UiTo
  <2>. QED  BY <2>1, PlaceStays
<1>16. CASE BeginEpoch
  <2>0. /\ ui.chunks = <<>> /\ ui'.chunks = <<>> /\ ring' = <<>> /\ told' = told
        /\ interest' = interest + 1 /\ ring = <<>>
    BY <1>16 DEF BeginEpoch, UiTo, IInv, TypeOK, ReaderType, Control, UiInv
  <2>1. Taken = {} /\ Taken' = {} /\ HeardNow' = {} /\ Retained' = {} /\ TextTold' = TextTold
    BY <2>0, NothingTaken, NothingTakenNext, NothingRetainedNext, NewEpoch, ToldStays
  <2>3. Kept' \subseteq Kept
    BY <2>1 DEF Kept
  <2>4. /\ Kept' \subseteq DOMAIN made'
        /\ \A a \in Kept' : a \in Nat /\ a <= Decided' /\ EpochOf(a)' = EpochOf(a)
    BY <2>3, KeptBound
  <2>6. PlaceInv'
    BY <2>0, <2>1, <2>4, ToldStays DEF PlaceInv
  <2>7. OrderInv'
    BY <2>0, <2>1, <2>4 DEF IInv, OrderInv
  <2>. QED  BY <2>6, <2>7
<1>17. CASE Drain
  <2>1. /\ UNCHANGED <<ring, told, interest>> /\ ui'.chunks = ui.chunks
        /\ ui'.pc = ui.pc \/ ui.pc # "lock"
    BY <1>17 DEF IInv, TypeOK, ReaderType, Control, UiInv, Drain, UiTo, shared
  <2>. QED  BY <2>1, PlaceStays
<1>18. CASE Take
  <2>0. /\ ui.chunks = <<>> /\ ui'.chunks = ring /\ ring' = <<>> /\ told' = told
        /\ ui.pc = "drain" /\ interest' = interest
    BY <1>18 DEF Take, IInv, TypeOK, ReaderType, Control, UiInv
  <2>1. Taken = {} /\ Taken' = Retained /\ Retained' = {} /\ TextTold' = TextTold /\ HeardNow' = HeardNow
    <3>1. Taken' = Retained
      BY <2>0 DEF Taken, Retained
    <3>2. HeardNow' = HeardNow
      BY <2>0 DEF HeardNow, IsData
    <3>. QED  BY <2>0, <3>1, <3>2, NothingTaken, NothingRetainedNext, ToldStays
  <2>3. Kept' = Kept
    BY <2>1 DEF Kept
  <2>4. /\ Kept' \subseteq DOMAIN made'
        /\ \A a \in Kept' : a \in Nat /\ a <= Decided' /\ EpochOf(a)' = EpochOf(a)
    BY <2>3, KeptBound
  <2>5. \A n \in Taken' : EpochOf(n)' = interest'
    <3>1. \A n \in Retained : EpochOf(n) = interest /\ n \in Kept
      BY <2>0 DEF IInv, PlaceInv, Kept
    <3>. QED  BY <2>0, <2>1, <2>3, <2>4, <3>1
  <2>6. PlaceInv'
    BY <2>0, <2>1, <2>4, <2>5, ToldStays DEF PlaceInv
  <2>7. OrderInv'
    BY <2>0, <2>1, <2>4 DEF IInv, OrderInv
  <2>. QED  BY <2>6, <2>7
<1>19. CASE Swap
  <2>1. /\ UNCHANGED <<ring, told, interest>> /\ ui'.chunks = ui.chunks
        /\ ui'.pc = ui.pc \/ ui.pc # "lock"
    BY <1>19 DEF IInv, TypeOK, ReaderType, Control, UiInv, Swap
  <2>. QED  BY <2>1, PlaceStays
<1>20. CASE UiUnlocks
  <2>1. /\ UNCHANGED <<ring, told, interest>> /\ ui'.chunks = ui.chunks
        /\ ui'.pc = ui.pc \/ ui.pc # "lock"
    BY <1>20 DEF IInv, TypeOK, ReaderType, Control, UiInv, UiUnlocks, Resting
  <2>. QED  BY <2>1, PlaceStays
<1>21. CASE TellChunk
  <2>. DEFINE h == ui.chunks[1].at
  <2>0. /\ interest' = interest /\ ring' = ring /\ ui'.pc = ui.pc /\ told \in Seq(Telling) /\ told' \in Seq(Telling)
    BY <1>21 DEF TellChunk, shared, IInv, TypeOK, ReaderType
  <2>1. /\ h \in Taken /\ Taken' \subseteq Taken
        /\ \A n \in Taken' : h < n
        /\ \A i, k \in DOMAIN ui'.chunks : i < k => ui'.chunks[i].at < ui'.chunks[k].at
        /\ \A i \in 1..Len(told) : told'[i] = told[i]
        /\ \A i \in DOMAIN told' : i \in 1..Len(told) \/ i = Len(told') \/ told'[i].kind = "reset"
        /\ told'[Len(told')].at = h
        /\ told'[Len(told')].epoch = interest
    BY <1>21, TellEffect
  <2>2. /\ HeardNow' = HeardNow \cup {h} /\ Retained' = Retained /\ Kept' = Kept
    BY <1>21, TellSets
  <2>. HIDE DEF h
  <2>4. /\ Kept' \subseteq DOMAIN made'
        /\ \A a \in Kept' : a \in Nat /\ a <= Decided' /\ EpochOf(a)' = EpochOf(a)
    BY <2>2, KeptBound
  <2>5. Taken \subseteq Kept' /\ Retained \subseteq Kept'
    BY <2>2 DEF Kept
  <2>6. \A n \in Taken : EpochOf(n)' = interest
    BY <2>4, <2>5 DEF IInv, PlaceInv
  <2>7. PlaceInv'
    <3>1. \A n \in Taken' : EpochOf(n)' = interest'
      BY <2>0, <2>1, <2>6
    <3>2. \A n \in Retained' : \/ EpochOf(n)' = interest'
                               \/ ui'.pc = "lock" /\ EpochOf(n)' + 1 = interest'
      BY <2>0, <2>2, <2>4, <2>5 DEF IInv, PlaceInv
    <3>3. ASSUME NEW j \in DOMAIN told', IsData(j)'
          PROVE  EpochOf(told[j].at)' = told'[j].epoch
      <4>1. CASE j \in 1..Len(told)
        <5>1. j \in DOMAIN told /\ told'[j] = told[j]
          BY <2>0, <2>1, <4>1
        <5>2. IsData(j)
          BY <3>3, <5>1 DEF IsData
        <5>3. made'[told[j].at].epoch = told[j].epoch
          BY <5>1, <5>2, ToldPlace
        <5>. QED  BY <5>1, <5>3 DEF EpochOf
      <4>2. CASE j = Len(told')
        <5>1. made'[h].epoch = interest
          BY <2>1, <2>6 DEF EpochOf
        <5>. QED  BY <2>1, <4>2, <5>1 DEF EpochOf
      <4>. QED  BY <2>1, <3>3, <4>1, <4>2 DEF IsData
    <3>. QED  BY <2>4, <3>1, <3>2, <3>3 DEF PlaceInv
  <2>8. OrderInv'
    <3>1. \A a \in HeardNow', b \in Taken' \cup Retained' : a < b
      BY <2>1, <2>2 DEF IInv, OrderInv
    <3>2. \A a \in Taken', b \in Retained' : a < b
      BY <2>1, <2>2 DEF IInv, OrderInv
    <3>3. \A i, k \in DOMAIN ring' : i < k => ring'[i].at < ring'[k].at
      BY <2>0 DEF IInv, OrderInv
    <3>. QED  BY <2>1, <2>4, <3>1, <3>2, <3>3 DEF OrderInv
  <2>. QED  BY <2>7, <2>8
<1>22. CASE TellEnd
  <2>0. /\ interest' = interest /\ ring' = ring /\ ui.pc = "tell" /\ told \in Seq(Telling) /\ told' \in Seq(Telling)
        /\ ui'.chunks = <<>>
    BY <1>22 DEF TellEnd, shared, IInv, TypeOK, ReaderType, Resting
  <2>1. /\ \A i \in 1..Len(told) : told'[i] = told[i]
        /\ \A i \in DOMAIN told' : i \in 1..Len(told) \/ told'[i].kind \in {"reset", "omitted"}
        /\ Taken' = {} /\ Retained' = Retained
        /\ HeardNow' = HeardNow /\ Kept' = Kept
    BY <1>22, EndEffect
  <2>4. /\ Kept' \subseteq DOMAIN made'
        /\ \A a \in Kept' : a \in Nat /\ a <= Decided' /\ EpochOf(a)' = EpochOf(a)
    BY <2>1, KeptBound
  <2>5. Retained \subseteq Kept'
    BY <2>1 DEF Kept
  <2>7. PlaceInv'
    <3>2. \A n \in Retained' : EpochOf(n)' = interest'
      BY <2>0, <2>1, <2>4, <2>5 DEF IInv, PlaceInv
    <3>3. ASSUME NEW j \in DOMAIN told', IsData(j)'
          PROVE  EpochOf(told[j].at)' = told'[j].epoch
      <4>1. j \in 1..Len(told)
        BY <2>1, <3>3 DEF IsData
      <4>2. j \in DOMAIN told /\ told'[j] = told[j]
        BY <2>0, <2>1, <4>1
      <4>3. IsData(j)
        BY <3>3, <4>2 DEF IsData
      <4>4. made'[told[j].at].epoch = told[j].epoch
        BY <4>2, <4>3, ToldPlace
      <4>. QED  BY <4>2, <4>4 DEF EpochOf
    <3>. QED  BY <2>1, <2>4, <3>2, <3>3 DEF PlaceInv
  <2>8. OrderInv'
    <3>1. \A a \in HeardNow', b \in Taken' \cup Retained' : a < b
      BY <2>1 DEF IInv, OrderInv
    <3>. QED  BY <2>0, <2>1, <2>4, <3>1 DEF IInv, OrderInv
  <2>. QED  BY <2>7, <2>8
<1>. QED  BY <1>1, <1>2, <1>3, <1>4, <1>5, <1>6, <1>7, <1>8, <1>9, <1>10, <1>11, <1>12,
             <1>13, <1>14, <1>15, <1>16, <1>17, <1>18, <1>19, <1>20, <1>21, <1>22 DEF Next,
             Reader, Ui

-----------------------------------------------------------------------------
(* Losses.                                                                  *)

\* The last item of a capture is not the last chunk before it.
LEMMA LastItem ==
  ASSUME TypeOK, PartsInv, reader.parts # <<>>
  PROVE  /\ Len(made) > 0 /\ Len(made) \in DOMAIN made /\ EpochOf(Len(made)) = reader.epoch
         /\ reader.parts[1] \in Part /\ End(1) <= Len(made)
         /\ made[Len(made)].kind = "data" => reader.parts[1].first < Len(made)
         /\ reader.parts[1].cut => made[Len(made)].kind = "cut"
<1>1. made \in Seq(Item) /\ reader.parts \in Seq(Part)
  BY DEF TypeOK, ReaderType
<1>2. Len(made) > 0 /\ EpochOf(Len(made)) = reader.epoch
  BY DEF PartsInv
<1>3. Len(made) \in DOMAIN made /\ Len(made) \in Nat
  BY <1>1, <1>2
<1>4. 1 \in DOMAIN reader.parts /\ reader.parts[1] \in Part /\ Len(reader.parts) # 0
  BY <1>1
<1>5. End(1) <= Len(made)
  BY <1>4 DEF PartsInv
<1>6. reader.parts[1].first \in Nat /\ reader.parts[1].count \in Nat
  BY <1>4 DEF Part
<1>7. CASE Len(reader.parts) = 1
  <2>1. LastPart(1)
    BY <1>4, <1>7 DEF PartsInv
  <2>. QED  BY <1>2, <1>3, <1>4, <1>5, <1>6, <2>1 DEF LastPart, End
<1>8. CASE Len(reader.parts) = 2
  <2>1. 2 \in DOMAIN reader.parts /\ reader.parts[2] \in Part
    <3>1. reader.parts \in Seq(Part)
      BY <1>1
    <3>. QED  BY <1>8, <3>1
  <2>2. /\ LastPart(2) /\ ~reader.parts[1].cut /\ End(1) <= reader.parts[2].first
        /\ End(2) <= Len(made)
    BY <1>4, <1>8, <2>1 DEF PartsInv
  <2>3. reader.parts[2].first \in Nat /\ reader.parts[2].count \in Nat
    BY <2>1 DEF Part
  <2>4. reader.parts[1].first <= reader.parts[2].first
    BY <1>6, <2>2, <2>3 DEF End
  <2>5. made[Len(made)].kind = "data" => reader.parts[2].first < Len(made)
    BY <1>3, <2>2, <2>3 DEF LastPart, End
  <2>. QED  BY <1>2, <1>3, <1>4, <1>5, <1>6, <2>2, <2>3, <2>4, <2>5
<1>. QED  BY <1>4, <1>7, <1>8 DEF PartsInv

\* What is lost stays lost, unless a step keeps what was decided before.
LEMMA LostStays ==
  ASSUME IInv, Next, TypeOK', \A n \in Kept' : n \in Kept \/ n > Decided
  PROVE  \A e : Lost(e) => Lost(e)'
<1>. SUFFICES ASSUME NEW e, NEW n \in DOMAIN made, LostAt(n, e) PROVE Lost(e)'
  BY DEF Lost
<1>1. /\ n \in DOMAIN made' /\ made'[n] = made[n] /\ EpochOf(n)' = EpochOf(n) /\ n \in Nat
  BY MadeGrows
<1>2. Decided <= Decided' /\ Decided \in Nat /\ Decided' \in Nat
  BY DecidedGrows, DecidedTypes, DecidedTypesNext, PartsKept DEF IInv
<1>3. /\ n <= Decided /\ EpochOf(n) = e /\ (made[n].kind = "data" => n \notin Kept)
  BY DEF LostAt
<1>4. made'[n].kind = "data" => n \notin Kept'
  BY <1>1, <1>2, <1>3
<1>5. n <= Decided'
  BY <1>1, <1>2, <1>3
<1>6. LostAt(n, e)'
  BY <1>1, <1>3, <1>4, <1>5 DEF LostAt
<1>. QED  BY <1>1, <1>6 DEF Lost

\* Only a fill keeps more, and only newer items.
LEMMA KeptStays ==
  ASSUME IInv, Next, TypeOK'
  PROVE  \A n \in Kept' : n \in Kept \/ n > Decided
<1>. HIDE DEF IInv, TypeOK, ReaderType
<1>1. ASSUME NEW c \in Captures, Capture(c) PROVE \A n \in Kept' : n \in Kept \/ n > Decided
  <2>1. ring' = ring /\ told' = told /\ ui'.chunks = ui.chunks
    BY <1>1 DEF IInv, TypeOK, ReaderType, Control, UiInv, Capture, Idle, shared
  <2>2. Taken' = Taken /\ Retained' = Retained /\ TextTold' = TextTold
    BY <2>1 DEF Taken, Retained, TextTold, IsData
  <2>. QED  BY <2>2 DEF Kept
<1>2. CASE CheckEpoch
  <2>1. ring' = ring /\ told' = told /\ ui'.chunks = ui.chunks
    BY <1>2, CheckEpochEffect, ReaderTypes DEF IInv, Control, UiInv, Becomes, Finished
  <2>2. Taken' = Taken /\ Retained' = Retained /\ TextTold' = TextTold
    BY <2>1 DEF Taken, Retained, TextTold, IsData
  <2>. QED  BY <2>2 DEF Kept
<1>3. CASE ReadPending
  <2>1. ring' = ring /\ told' = told /\ ui'.chunks = ui.chunks
    BY <1>3, ReadPendingEffect, ReaderTypes DEF IInv, Control, UiInv, Becomes, Finished,
       Onward
  <2>2. Taken' = Taken /\ Retained' = Retained /\ TextTold' = TextTold
    BY <2>1 DEF Taken, Retained, TextTold, IsData
  <2>. QED  BY <2>2 DEF Kept
<1>4. CASE ReadCurrent
  <2>1. ring' = ring /\ told' = told /\ ui'.chunks = ui.chunks
    BY <1>4, ReadCurrentEffect, ReaderTypes DEF IInv, Control, UiInv, Becomes, Finished,
       Onward
  <2>2. Taken' = Taken /\ Retained' = Retained /\ TextTold' = TextTold
    BY <2>1 DEF Taken, Retained, TextTold, IsData
  <2>. QED  BY <2>2 DEF Kept
<1>5. CASE RemoveMark
  <2>1. ring' = ring /\ told' = told /\ ui'.chunks = ui.chunks
    BY <1>5, RemoveMarkEffect, ReaderTypes DEF IInv, Control, UiInv, Becomes, Finished
  <2>2. Taken' = Taken /\ Retained' = Retained /\ TextTold' = TextTold
    BY <2>1 DEF Taken, Retained, TextTold, IsData
  <2>. QED  BY <2>2 DEF Kept
<1>6. CASE TryLock
  <2>1. ring' = ring /\ told' = told /\ ui'.chunks = ui.chunks
    BY <1>6, TryLockEffect, ReaderTypes DEF IInv, Control, UiInv, Becomes, Finished
  <2>2. Taken' = Taken /\ Retained' = Retained /\ TextTold' = TextTold
    BY <2>1 DEF Taken, Retained, TextTold, IsData
  <2>. QED  BY <2>2 DEF Kept
<1>7. CASE Fill
  <2>. DEFINE p == reader.parts[1]
              f == Fits(p)
  <2>1. /\ p \in Part /\ Decided = p.first /\ f \in Int
        /\ Taken' = Taken /\ TextTold' = TextTold
        /\ Retained' = Retained \cup (p.first + 1)..(p.first + f)
    BY <1>7, FillEffect
  <2>2. p.first \in Nat
    BY <2>1 DEF Part
  <2>. HIDE DEF p, f
  <2>3. \A n \in (p.first + 1)..(p.first + f) : n > Decided
    BY <2>1, <2>2
  <2>. QED  BY <2>1, <2>3 DEF Kept
<1>8. CASE Mark
  <2>1. ring' = ring /\ told' = told /\ ui'.chunks = ui.chunks
    BY <1>8, MarkEffect, ReaderTypes DEF IInv, Control, UiInv, Becomes, Finished
  <2>2. Taken' = Taken /\ Retained' = Retained /\ TextTold' = TextTold
    BY <2>1 DEF Taken, Retained, TextTold, IsData
  <2>. QED  BY <2>2 DEF Kept
<1>9. CASE Claim
  <2>1. ring' = ring /\ told' = told /\ ui'.chunks = ui.chunks
    BY <1>9, ClaimEffect, ReaderTypes DEF IInv, Control, UiInv, Becomes, Finished
  <2>2. Taken' = Taken /\ Retained' = Retained /\ TextTold' = TextTold
    BY <2>1 DEF Taken, Retained, TextTold, IsData
  <2>. QED  BY <2>2 DEF Kept
<1>10. CASE ReaderUnlocks
  <2>1. ring' = ring /\ told' = told /\ ui'.chunks = ui.chunks
    BY <1>10 DEF IInv, TypeOK, ReaderType, Control, UiInv, ReaderUnlocks
  <2>2. Taken' = Taken /\ Retained' = Retained /\ TextTold' = TextTold
    BY <2>1 DEF Taken, Retained, TextTold, IsData
  <2>. QED  BY <2>2 DEF Kept
<1>11. CASE ReaderReturns
  <2>1. ring' = ring /\ told' = told /\ ui'.chunks = ui.chunks
    BY <1>11 DEF IInv, TypeOK, ReaderType, Control, UiInv, ReaderReturns, Idle, shared
  <2>2. Taken' = Taken /\ Retained' = Retained /\ TextTold' = TextTold
    BY <2>1 DEF Taken, Retained, TextTold, IsData
  <2>. QED  BY <2>2 DEF Kept
<1>12. CASE LoseInterest
  <2>1. ring' = ring /\ told' = told /\ ui'.chunks = ui.chunks
    BY <1>12 DEF IInv, TypeOK, ReaderType, Control, UiInv, LoseInterest, UiTo
  <2>2. Taken' = Taken /\ Retained' = Retained /\ TextTold' = TextTold
    BY <2>1 DEF Taken, Retained, TextTold, IsData
  <2>. QED  BY <2>2 DEF Kept
<1>13. CASE TakeInterest
  <2>1. ring' = ring /\ told' = told /\ ui'.chunks = ui.chunks
    BY <1>13 DEF IInv, TypeOK, ReaderType, Control, UiInv, TakeInterest, UiTo, shared
  <2>2. Taken' = Taken /\ Retained' = Retained /\ TextTold' = TextTold
    BY <2>1 DEF Taken, Retained, TextTold, IsData
  <2>. QED  BY <2>2 DEF Kept
<1>14. CASE Empty
  <2>1. Taken' = Taken /\ Retained' = {} /\ TextTold' = TextTold
    BY <1>14, ToldStays, NothingRetainedNext DEF Empty, UiTo, Taken, IInv, TypeOK,
       ReaderType
  <2>. QED  BY <2>1 DEF Kept
<1>15. CASE Unmark
  <2>1. ring' = ring /\ told' = told /\ ui'.chunks = ui.chunks
    BY <1>15 DEF IInv, TypeOK, ReaderType, Control, UiInv, Unmark, UiTo
  <2>2. Taken' = Taken /\ Retained' = Retained /\ TextTold' = TextTold
    BY <2>1 DEF Taken, Retained, TextTold, IsData
  <2>. QED  BY <2>2 DEF Kept
<1>16. CASE BeginEpoch
  <2>1. ring' = ring /\ told' = told /\ ui'.chunks = ui.chunks
    BY <1>16 DEF IInv, TypeOK, ReaderType, Control, UiInv, BeginEpoch, UiTo
  <2>2. Taken' = Taken /\ Retained' = Retained /\ TextTold' = TextTold
    BY <2>1 DEF Taken, Retained, TextTold, IsData
  <2>. QED  BY <2>2 DEF Kept
<1>17. CASE Drain
  <2>1. ring' = ring /\ told' = told /\ ui'.chunks = ui.chunks
    BY <1>17 DEF IInv, TypeOK, ReaderType, Control, UiInv, Drain, UiTo, shared
  <2>2. Taken' = Taken /\ Retained' = Retained /\ TextTold' = TextTold
    BY <2>1 DEF Taken, Retained, TextTold, IsData
  <2>. QED  BY <2>2 DEF Kept
<1>18. CASE Take
  <2>1. Taken' = Retained /\ Retained' = {} /\ TextTold' = TextTold
    BY <1>18, ToldStays, NothingRetainedNext DEF Take, Taken, Retained, Next, Ui
  <2>. QED  BY <2>1 DEF Kept
<1>19. CASE Swap
  <2>1. ring' = ring /\ told' = told /\ ui'.chunks = ui.chunks
    BY <1>19 DEF IInv, TypeOK, ReaderType, Control, UiInv, Swap
  <2>2. Taken' = Taken /\ Retained' = Retained /\ TextTold' = TextTold
    BY <2>1 DEF Taken, Retained, TextTold, IsData
  <2>. QED  BY <2>2 DEF Kept
<1>20. CASE UiUnlocks
  <2>1. ring' = ring /\ told' = told /\ ui'.chunks = ui.chunks
    BY <1>20 DEF IInv, TypeOK, ReaderType, Control, UiInv, UiUnlocks, Resting
  <2>2. Taken' = Taken /\ Retained' = Retained /\ TextTold' = TextTold
    BY <2>1 DEF Taken, Retained, TextTold, IsData
  <2>. QED  BY <2>2 DEF Kept
<1>21. CASE TellChunk
  BY <1>21, TellSets
<1>22. CASE TellEnd
  BY <1>22, EndEffect
<1>. QED  BY <1>1, <1>2, <1>3, <1>4, <1>5, <1>6, <1>7, <1>8, <1>9, <1>10, <1>11, <1>12,
             <1>13, <1>14, <1>15, <1>16, <1>17, <1>18, <1>19, <1>20, <1>21, <1>22 DEF Next,
             Reader, Ui

\* What is lost stays lost.
LEMMA LostGrows ==
  ASSUME IInv, Next, TypeOK'
  PROVE  \A e : Lost(e) => Lost(e)'
  BY KeptStays, LostStays

\* A step that begins to drop decides all that was made: its last item is lost.
LEMMA DropLoses ==
  ASSUME IInv, Next, TypeOK', made' = made, reader.parts # <<>>, Decided' = Len(made),
         made[Len(made)].kind = "data" => Len(made) \notin Kept'
  PROVE  \A e : e = reader.epoch => Lost(e)'
<1>1. Len(made) \in DOMAIN made /\ EpochOf(Len(made)) = reader.epoch
  BY LastItem DEF IInv
<1>2. Len(made) \in Nat
  BY Lengths DEF IInv
<1>3. EpochOf(Len(made))' = reader.epoch
  BY <1>1 DEF EpochOf
<1>4. /\ Len(made') \in DOMAIN made' /\ Len(made') <= Decided'
      /\ made'[Len(made')].epoch = reader.epoch
      /\ made'[Len(made')].kind = "data" => Len(made') \notin Kept'
  BY <1>1, <1>2, <1>3 DEF EpochOf
<1>5. \E n \in DOMAIN made' : /\ n \in DOMAIN made' /\ n <= Decided'
                              /\ made'[n].epoch = reader.epoch
                              /\ made'[n].kind = "data" => n \notin Kept'
  BY <1>4
<1>6. \A e : Lost(e)' <=>
        (\E n \in DOMAIN made' : /\ n \in DOMAIN made' /\ n <= Decided'
                                 /\ made'[n].epoch = e
                                 /\ made'[n].kind = "data" => n \notin Kept')
  <2>. TAKE e
  <2>. QED  BY Zenon DEF Lost, LostAt, EpochOf
<1>. QED  BY <1>5, <1>6

\* A step that drops nothing new: the loss it stood for is still there.
LEMMA DropsStay ==
  ASSUME IInv, Next, TypeOK', Dropping' => Dropping /\ reader'.epoch = reader.epoch
  PROVE  Dropping' => \A e : e = reader'.epoch => Lost(e)'
<1>. HAVE Dropping'
<1>. TAKE e
<1>. HAVE e = reader'.epoch
<1>1. Lost(e)
  BY DEF IInv, LossInv
<1>. QED  BY <1>1, LostGrows

\* A mark that stays, or is removed.
LEMMA MarksStay ==
  ASSUME IInv, Next, TypeOK', pending' \in {0, pending}
  PROVE  pending' # 0 => \A e : e = pending' => Lost(e)'
<1>. HAVE pending' # 0
<1>. TAKE e
<1>. HAVE e = pending'
<1>1. Lost(e)
  BY DEF IInv, LossInv
<1>. QED  BY <1>1, LostGrows

\* An omission the drain already holds.
LEMMA OmissionsStay ==
  ASSUME IInv, Next, TypeOK', ui'.omitted => ui.omitted /\ interest' = interest
  PROVE  ui'.omitted => \A e : e = interest' => Lost(e)'
<1>. HAVE ui'.omitted
<1>. TAKE e
<1>. HAVE e = interest'
<1>1. Lost(e)
  BY DEF IInv, LossInv
<1>. QED  BY <1>1, LostGrows

\* Omissions already told of.
LEMMA TellingsStay ==
  ASSUME IInv, Next, TypeOK', told' = told
  PROVE  \A j \in DOMAIN told' : told'[j].kind = "omitted" => \A e : e = told'[j].epoch => Lost(e)'
<1>. TAKE j \in DOMAIN told'
<1>. HAVE told'[j].kind = "omitted"
<1>. TAKE e
<1>. HAVE e = told'[j].epoch
<1>1. Lost(e)
  BY DEF IInv, LossInv
<1>. QED  BY <1>1, LostGrows

\* The four together.
LEMMA LossFrom ==
  ASSUME Dropping' => \A e : e = reader'.epoch => Lost(e)',
         pending' # 0 => \A e : e = pending' => Lost(e)',
         ui'.omitted => \A e : e = interest' => Lost(e)',
         \A j \in DOMAIN told' : told'[j].kind = "omitted" => \A e : e = told'[j].epoch => Lost(e)'
  PROVE  LossInv'
  BY DEF LossInv

\* Every action keeps a loss behind each drop, mark and omission.
LEMMA LossKept ==
  ASSUME IInv, Next, TypeOK'
  PROVE  LossInv'
<1>. HIDE DEF IInv, TypeOK, ReaderType, Next
<1>1. ASSUME NEW c \in Captures, Capture(c) PROVE LossInv'
  <2>1. Dropping' => Dropping /\ reader'.epoch = reader.epoch
    BY <1>1 DEF IInv, TypeOK, ReaderType, Control, UiInv, AtInv, MutexInv, Dropping,
       Marking, Capture, Idle, shared
  <2>2. pending' \in {0, pending}
    BY <1>1 DEF IInv, TypeOK, ReaderType, Control, UiInv, AtInv, MutexInv, Dropping,
       Marking, Capture, Idle, shared
  <2>3. ui'.omitted => ui.omitted /\ interest' = interest
    BY <1>1 DEF IInv, TypeOK, ReaderType, Control, UiInv, AtInv, MutexInv, Dropping,
       Marking, Capture, Idle, shared
  <2>4. told' = told
    BY <1>1 DEF IInv, TypeOK, ReaderType, Control, UiInv, AtInv, MutexInv, Dropping,
       Marking, Capture, Idle, shared
  <2>. QED  BY <2>1, DropsStay, <2>2, MarksStay, <2>3, OmissionsStay, <2>4, TellingsStay,
               LossFrom
<1>2. CASE CheckEpoch
  <2>1. Dropping' => Dropping /\ reader'.epoch = reader.epoch
    BY <1>2, CheckEpochEffect, ReaderTypes DEF IInv, Control, UiInv, AtInv, MutexInv,
       Dropping, Marking, Becomes, Finished
  <2>2. pending' \in {0, pending}
    BY <1>2, CheckEpochEffect, ReaderTypes DEF IInv, Control, UiInv, AtInv, MutexInv,
       Dropping, Marking, Becomes, Finished
  <2>3. ui'.omitted => ui.omitted /\ interest' = interest
    BY <1>2, CheckEpochEffect, ReaderTypes DEF IInv, Control, UiInv, AtInv, MutexInv,
       Dropping, Marking, Becomes, Finished
  <2>4. told' = told
    BY <1>2, CheckEpochEffect, ReaderTypes DEF IInv, Control, UiInv, AtInv, MutexInv,
       Dropping, Marking, Becomes, Finished
  <2>. QED  BY <2>1, DropsStay, <2>2, MarksStay, <2>3, OmissionsStay, <2>4, TellingsStay,
               LossFrom
<1>3. CASE ReadPending
  <2>1. Dropping' => Dropping /\ reader'.epoch = reader.epoch
    BY <1>3, ReadPendingEffect, ReaderTypes DEF IInv, Control, UiInv, AtInv, MutexInv,
       Dropping, Marking, Becomes, Finished, Onward
  <2>2. pending' \in {0, pending}
    BY <1>3, ReadPendingEffect, ReaderTypes DEF IInv, Control, UiInv, AtInv, MutexInv,
       Dropping, Marking, Becomes, Finished, Onward
  <2>3. ui'.omitted => ui.omitted /\ interest' = interest
    BY <1>3, ReadPendingEffect, ReaderTypes DEF IInv, Control, UiInv, AtInv, MutexInv,
       Dropping, Marking, Becomes, Finished, Onward
  <2>4. told' = told
    BY <1>3, ReadPendingEffect, ReaderTypes DEF IInv, Control, UiInv, AtInv, MutexInv,
       Dropping, Marking, Becomes, Finished, Onward
  <2>. QED  BY <2>1, DropsStay, <2>2, MarksStay, <2>3, OmissionsStay, <2>4, TellingsStay,
               LossFrom
<1>4. CASE ReadCurrent
  <2>1. Dropping' => Dropping /\ reader'.epoch = reader.epoch
    BY <1>4, ReadCurrentEffect, ReaderTypes DEF IInv, Control, UiInv, AtInv, MutexInv,
       Dropping, Marking, Becomes, Finished, Onward
  <2>2. pending' \in {0, pending}
    BY <1>4, ReadCurrentEffect, ReaderTypes DEF IInv, Control, UiInv, AtInv, MutexInv,
       Dropping, Marking, Becomes, Finished, Onward
  <2>3. ui'.omitted => ui.omitted /\ interest' = interest
    BY <1>4, ReadCurrentEffect, ReaderTypes DEF IInv, Control, UiInv, AtInv, MutexInv,
       Dropping, Marking, Becomes, Finished, Onward
  <2>4. told' = told
    BY <1>4, ReadCurrentEffect, ReaderTypes DEF IInv, Control, UiInv, AtInv, MutexInv,
       Dropping, Marking, Becomes, Finished, Onward
  <2>. QED  BY <2>1, DropsStay, <2>2, MarksStay, <2>3, OmissionsStay, <2>4, TellingsStay,
               LossFrom
<1>5. CASE RemoveMark
  <2>1. Dropping' => Dropping /\ reader'.epoch = reader.epoch
    BY <1>5, RemoveMarkEffect, ReaderTypes DEF IInv, Control, UiInv, AtInv, MutexInv,
       Dropping, Marking, Becomes, Finished
  <2>2. pending' \in {0, pending}
    BY <1>5, RemoveMarkEffect, ReaderTypes DEF IInv, Control, UiInv, AtInv, MutexInv,
       Dropping, Marking, Becomes, Finished
  <2>3. ui'.omitted => ui.omitted /\ interest' = interest
    BY <1>5, RemoveMarkEffect, ReaderTypes DEF IInv, Control, UiInv, AtInv, MutexInv,
       Dropping, Marking, Becomes, Finished
  <2>4. told' = told
    BY <1>5, RemoveMarkEffect, ReaderTypes DEF IInv, Control, UiInv, AtInv, MutexInv,
       Dropping, Marking, Becomes, Finished
  <2>. QED  BY <2>1, DropsStay, <2>2, MarksStay, <2>3, OmissionsStay, <2>4, TellingsStay,
               LossFrom
<1>6. CASE TryLock
  <2>1. Dropping' => \A e : e = reader'.epoch => Lost(e)'
    <3>. HAVE Dropping'
    <3>0. made \in Seq(Item) /\ reader.parts \in Seq(Part)
      BY DEF IInv, TypeOK, ReaderType
    <3>1. /\ made' = made /\ reader.parts # <<>> /\ reader'.pc = "mark" /\ reader'.epoch = reader.epoch
          /\ ~Marking
      BY <1>6, TryLockEffect, ReaderTypes DEF IInv, Control, AtInv, MutexInv, Dropping,
         Marking, Becomes, Finished
    <3>2. Decided' = Len(made) /\ Decided = reader.parts[1].first
      BY <3>1 DEF Decided, Marking
    <3>3. made[Len(made)].kind = "data" => Len(made) \notin Kept'
      <4>1. made[Len(made)].kind = "data" => Decided < Len(made)
        BY <3>1, <3>2, LastItem DEF IInv
      <4>2. Len(made) \in Nat /\ Decided \in Nat
        BY <3>0, <3>1, DecidedTypes DEF IInv
      <4>3. \A a \in Kept : a \in Nat /\ a <= Decided
        BY KeptTypes DEF IInv, OrderInv, Kept
      <4>4. Kept' = Kept
        BY <1>6, TryLockEffect, ReaderTypes, SetsSame DEF TryLock
      <4>. QED  BY <4>1, <4>2, <4>3, <4>4
    <3>. QED  BY <3>1, <3>2, <3>3, DropLoses
  <2>2. pending' \in {0, pending}
    BY <1>6, TryLockEffect, ReaderTypes DEF IInv, Control, UiInv, AtInv, MutexInv,
       Dropping, Marking, Becomes, Finished
  <2>3. ui'.omitted => ui.omitted /\ interest' = interest
    BY <1>6, TryLockEffect, ReaderTypes DEF IInv, Control, UiInv, AtInv, MutexInv,
       Dropping, Marking, Becomes, Finished
  <2>4. told' = told
    BY <1>6, TryLockEffect, ReaderTypes DEF IInv, Control, UiInv, AtInv, MutexInv,
       Dropping, Marking, Becomes, Finished
  <2>. QED  BY <2>1, <2>2, MarksStay, <2>3, OmissionsStay, <2>4, TellingsStay, LossFrom
<1>7. CASE Fill
  <2>1. Dropping' => \A e : e = reader'.epoch => Lost(e)'
    <3>. HAVE Dropping'
    <3>0. made \in Seq(Item) /\ reader.parts \in Seq(Part)
      BY DEF IInv, TypeOK, ReaderType
    <3>1. /\ made' = made /\ reader.parts # <<>> /\ reader'.pc = "mark" /\ reader'.epoch = reader.epoch
          /\ ~Marking
      BY <1>7 DEF IInv, TypeOK, ReaderType, Control, AtInv, MutexInv, Dropping, Marking,
         Fill, ReaderTo
    <3>2. Decided' = Len(made) /\ Decided = reader.parts[1].first
      BY <3>1 DEF Decided, Marking
    <3>3. made[Len(made)].kind = "data" => Len(made) \notin Kept'
      <4>. DEFINE p == reader.parts[1]
                  f == Fits(p)
      <4>1. /\ made[Len(made)].kind = "data" => p.first < Len(made)
            /\ p \in Part /\ p.first + p.count <= Len(made)
            /\ p.cut => made[Len(made)].kind = "cut"
        BY <3>1, LastItem DEF IInv, End
      <4>2. Len(made) \in Nat /\ p.first \in Nat /\ p.count \in Nat /\ f \in Int
        BY <1>7, <3>0, <3>1, <4>1, FillEffect DEF Part
      <4>3. \A a \in Kept : a \in Nat /\ a <= p.first
        BY <3>2, KeptTypes DEF IInv, OrderInv, Kept
      <4>4. Kept' = Kept \cup (p.first + 1)..(p.first + f)
        BY <1>7, FillEffect DEF Kept
      <4>5. f < p.count \/ p.cut
        BY <1>7, <3>1, FillDecides
      <4>. HIDE DEF p, f
      <4>6. made[Len(made)].kind = "data" => ~(Len(made) \in (p.first + 1)..(p.first + f))
        BY <4>1, <4>2, <4>5
      <4>. QED  BY <4>1, <4>2, <4>3, <4>4, <4>6
    <3>. QED  BY <3>1, <3>2, <3>3, DropLoses
  <2>2. pending' \in {0, pending}
    BY <1>7 DEF IInv, TypeOK, ReaderType, Control, UiInv, AtInv, MutexInv, Dropping,
       Marking, Fill, ReaderTo
  <2>3. ui'.omitted => ui.omitted /\ interest' = interest
    BY <1>7 DEF IInv, TypeOK, ReaderType, Control, UiInv, AtInv, MutexInv, Dropping,
       Marking, Fill, ReaderTo
  <2>4. told' = told
    BY <1>7 DEF IInv, TypeOK, ReaderType, Control, UiInv, AtInv, MutexInv, Dropping,
       Marking, Fill, ReaderTo
  <2>. QED  BY <2>1, <2>2, MarksStay, <2>3, OmissionsStay, <2>4, TellingsStay, LossFrom
<1>8. CASE Mark
  <2>1. Dropping' => Dropping /\ reader'.epoch = reader.epoch
    BY <1>8, MarkEffect, ReaderTypes DEF IInv, Control, UiInv, AtInv, MutexInv, Dropping,
       Marking, Becomes, Finished
  <2>2. pending' \in {0, pending}
    BY <1>8, MarkEffect, ReaderTypes DEF IInv, Control, UiInv, AtInv, MutexInv, Dropping,
       Marking, Becomes, Finished
  <2>3. ui'.omitted => ui.omitted /\ interest' = interest
    BY <1>8, MarkEffect, ReaderTypes DEF IInv, Control, UiInv, AtInv, MutexInv, Dropping,
       Marking, Becomes, Finished
  <2>4. told' = told
    BY <1>8, MarkEffect, ReaderTypes DEF IInv, Control, UiInv, AtInv, MutexInv, Dropping,
       Marking, Becomes, Finished
  <2>. QED  BY <2>1, DropsStay, <2>2, MarksStay, <2>3, OmissionsStay, <2>4, TellingsStay,
               LossFrom
<1>9. CASE Claim
  <2>1. Dropping' => Dropping /\ reader'.epoch = reader.epoch
    BY <1>9, ClaimEffect, ReaderTypes DEF IInv, Control, UiInv, AtInv, MutexInv, Dropping,
       Marking, Becomes, Finished
  <2>2. pending' # 0 => \A e : e = pending' => Lost(e)'
    <3>1. CASE pending' = reader.epoch
      <4>1. Dropping
        BY <1>9, ClaimEffect, ReaderTypes DEF Claim, Dropping, Marking
      <4>2. Lost(reader.epoch)
        BY <4>1 DEF IInv, LossInv
      <4>3. \A e : e = reader.epoch => Lost(e)'
        BY <4>2, LostGrows
      <4>. QED  BY <3>1, <4>3
    <3>2. CASE pending' = pending
      BY <3>2, MarksStay
    <3>. QED  BY <1>9, ClaimEffect, ReaderTypes, <3>1, <3>2 DEF Claim
  <2>3. ui'.omitted => ui.omitted /\ interest' = interest
    BY <1>9, ClaimEffect, ReaderTypes DEF IInv, Control, UiInv, AtInv, MutexInv, Dropping,
       Marking, Becomes, Finished
  <2>4. told' = told
    BY <1>9, ClaimEffect, ReaderTypes DEF IInv, Control, UiInv, AtInv, MutexInv, Dropping,
       Marking, Becomes, Finished
  <2>. QED  BY <2>1, DropsStay, <2>2, <2>3, OmissionsStay, <2>4, TellingsStay, LossFrom
<1>10. CASE ReaderUnlocks
  <2>1. Dropping' => Dropping /\ reader'.epoch = reader.epoch
    BY <1>10 DEF IInv, TypeOK, ReaderType, Control, UiInv, AtInv, MutexInv, Dropping,
       Marking, ReaderUnlocks
  <2>2. pending' \in {0, pending}
    BY <1>10 DEF IInv, TypeOK, ReaderType, Control, UiInv, AtInv, MutexInv, Dropping,
       Marking, ReaderUnlocks
  <2>3. ui'.omitted => ui.omitted /\ interest' = interest
    BY <1>10 DEF IInv, TypeOK, ReaderType, Control, UiInv, AtInv, MutexInv, Dropping,
       Marking, ReaderUnlocks
  <2>4. told' = told
    BY <1>10 DEF IInv, TypeOK, ReaderType, Control, UiInv, AtInv, MutexInv, Dropping,
       Marking, ReaderUnlocks
  <2>. QED  BY <2>1, DropsStay, <2>2, MarksStay, <2>3, OmissionsStay, <2>4, TellingsStay,
               LossFrom
<1>11. CASE ReaderReturns
  <2>1. Dropping' => Dropping /\ reader'.epoch = reader.epoch
    BY <1>11 DEF IInv, TypeOK, ReaderType, Control, UiInv, AtInv, MutexInv, Dropping,
       Marking, ReaderReturns, Idle, shared
  <2>2. pending' \in {0, pending}
    BY <1>11 DEF IInv, TypeOK, ReaderType, Control, UiInv, AtInv, MutexInv, Dropping,
       Marking, ReaderReturns, Idle, shared
  <2>3. ui'.omitted => ui.omitted /\ interest' = interest
    BY <1>11 DEF IInv, TypeOK, ReaderType, Control, UiInv, AtInv, MutexInv, Dropping,
       Marking, ReaderReturns, Idle, shared
  <2>4. told' = told
    BY <1>11 DEF IInv, TypeOK, ReaderType, Control, UiInv, AtInv, MutexInv, Dropping,
       Marking, ReaderReturns, Idle, shared
  <2>. QED  BY <2>1, DropsStay, <2>2, MarksStay, <2>3, OmissionsStay, <2>4, TellingsStay,
               LossFrom
<1>12. CASE LoseInterest
  <2>1. Dropping' => Dropping /\ reader'.epoch = reader.epoch
    BY <1>12 DEF IInv, TypeOK, ReaderType, Control, UiInv, AtInv, MutexInv, Dropping,
       Marking, LoseInterest, UiTo
  <2>2. pending' \in {0, pending}
    BY <1>12 DEF IInv, TypeOK, ReaderType, Control, UiInv, AtInv, MutexInv, Dropping,
       Marking, LoseInterest, UiTo
  <2>3. ui'.omitted => ui.omitted /\ interest' = interest
    BY <1>12 DEF IInv, TypeOK, ReaderType, Control, UiInv, AtInv, MutexInv, Dropping,
       Marking, LoseInterest, UiTo
  <2>4. told' = told
    BY <1>12 DEF IInv, TypeOK, ReaderType, Control, UiInv, AtInv, MutexInv, Dropping,
       Marking, LoseInterest, UiTo
  <2>. QED  BY <2>1, DropsStay, <2>2, MarksStay, <2>3, OmissionsStay, <2>4, TellingsStay,
               LossFrom
<1>13. CASE TakeInterest
  <2>1. Dropping' => Dropping /\ reader'.epoch = reader.epoch
    BY <1>13 DEF IInv, TypeOK, ReaderType, Control, UiInv, AtInv, MutexInv, Dropping,
       Marking, TakeInterest, UiTo, shared
  <2>2. pending' \in {0, pending}
    BY <1>13 DEF IInv, TypeOK, ReaderType, Control, UiInv, AtInv, MutexInv, Dropping,
       Marking, TakeInterest, UiTo, shared
  <2>3. ui'.omitted => ui.omitted /\ interest' = interest
    BY <1>13 DEF IInv, TypeOK, ReaderType, Control, UiInv, AtInv, MutexInv, Dropping,
       Marking, TakeInterest, UiTo, shared
  <2>4. told' = told
    BY <1>13 DEF IInv, TypeOK, ReaderType, Control, UiInv, AtInv, MutexInv, Dropping,
       Marking, TakeInterest, UiTo, shared
  <2>. QED  BY <2>1, DropsStay, <2>2, MarksStay, <2>3, OmissionsStay, <2>4, TellingsStay,
               LossFrom
<1>14. CASE Empty
  <2>1. Dropping' => Dropping /\ reader'.epoch = reader.epoch
    BY <1>14 DEF IInv, TypeOK, ReaderType, Control, UiInv, AtInv, MutexInv, Dropping,
       Marking, Empty, UiTo
  <2>2. pending' \in {0, pending}
    BY <1>14 DEF IInv, TypeOK, ReaderType, Control, UiInv, AtInv, MutexInv, Dropping,
       Marking, Empty, UiTo
  <2>3. ui'.omitted => ui.omitted /\ interest' = interest
    BY <1>14 DEF IInv, TypeOK, ReaderType, Control, UiInv, AtInv, MutexInv, Dropping,
       Marking, Empty, UiTo
  <2>4. told' = told
    BY <1>14 DEF IInv, TypeOK, ReaderType, Control, UiInv, AtInv, MutexInv, Dropping,
       Marking, Empty, UiTo
  <2>. QED  BY <2>1, DropsStay, <2>2, MarksStay, <2>3, OmissionsStay, <2>4, TellingsStay,
               LossFrom
<1>15. CASE Unmark
  <2>1. Dropping' => Dropping /\ reader'.epoch = reader.epoch
    BY <1>15 DEF IInv, TypeOK, ReaderType, Control, UiInv, AtInv, MutexInv, Dropping,
       Marking, Unmark, UiTo
  <2>2. pending' \in {0, pending}
    BY <1>15 DEF IInv, TypeOK, ReaderType, Control, UiInv, AtInv, MutexInv, Dropping,
       Marking, Unmark, UiTo
  <2>3. ui'.omitted => ui.omitted /\ interest' = interest
    BY <1>15 DEF IInv, TypeOK, ReaderType, Control, UiInv, AtInv, MutexInv, Dropping,
       Marking, Unmark, UiTo
  <2>4. told' = told
    BY <1>15 DEF IInv, TypeOK, ReaderType, Control, UiInv, AtInv, MutexInv, Dropping,
       Marking, Unmark, UiTo
  <2>. QED  BY <2>1, DropsStay, <2>2, MarksStay, <2>3, OmissionsStay, <2>4, TellingsStay,
               LossFrom
<1>16. CASE BeginEpoch
  <2>1. Dropping' => Dropping /\ reader'.epoch = reader.epoch
    BY <1>16 DEF IInv, TypeOK, ReaderType, Control, UiInv, AtInv, MutexInv, Dropping,
       Marking, BeginEpoch, UiTo
  <2>2. pending' \in {0, pending}
    BY <1>16 DEF IInv, TypeOK, ReaderType, Control, UiInv, AtInv, MutexInv, Dropping,
       Marking, BeginEpoch, UiTo
  <2>3. ui'.omitted => ui.omitted /\ interest' = interest
    BY <1>16 DEF IInv, TypeOK, ReaderType, Control, UiInv, AtInv, MutexInv, Dropping,
       Marking, BeginEpoch, UiTo
  <2>4. told' = told
    BY <1>16 DEF IInv, TypeOK, ReaderType, Control, UiInv, AtInv, MutexInv, Dropping,
       Marking, BeginEpoch, UiTo
  <2>. QED  BY <2>1, DropsStay, <2>2, MarksStay, <2>3, OmissionsStay, <2>4, TellingsStay,
               LossFrom
<1>17. CASE Drain
  <2>1. Dropping' => Dropping /\ reader'.epoch = reader.epoch
    BY <1>17 DEF IInv, TypeOK, ReaderType, Control, UiInv, AtInv, MutexInv, Dropping,
       Marking, Drain, UiTo, shared
  <2>2. pending' \in {0, pending}
    BY <1>17 DEF IInv, TypeOK, ReaderType, Control, UiInv, AtInv, MutexInv, Dropping,
       Marking, Drain, UiTo, shared
  <2>3. ui'.omitted => ui.omitted /\ interest' = interest
    BY <1>17 DEF IInv, TypeOK, ReaderType, Control, UiInv, AtInv, MutexInv, Dropping,
       Marking, Drain, UiTo, shared
  <2>4. told' = told
    BY <1>17 DEF IInv, TypeOK, ReaderType, Control, UiInv, AtInv, MutexInv, Dropping,
       Marking, Drain, UiTo, shared
  <2>. QED  BY <2>1, DropsStay, <2>2, MarksStay, <2>3, OmissionsStay, <2>4, TellingsStay,
               LossFrom
<1>18. CASE Take
  <2>1. Dropping' => Dropping /\ reader'.epoch = reader.epoch
    BY <1>18 DEF IInv, TypeOK, ReaderType, Control, UiInv, AtInv, MutexInv, Dropping,
       Marking, Take
  <2>2. pending' \in {0, pending}
    BY <1>18 DEF IInv, TypeOK, ReaderType, Control, UiInv, AtInv, MutexInv, Dropping,
       Marking, Take
  <2>3. ui'.omitted => ui.omitted /\ interest' = interest
    BY <1>18 DEF IInv, TypeOK, ReaderType, Control, UiInv, AtInv, MutexInv, Dropping,
       Marking, Take
  <2>4. told' = told
    BY <1>18 DEF IInv, TypeOK, ReaderType, Control, UiInv, AtInv, MutexInv, Dropping,
       Marking, Take
  <2>. QED  BY <2>1, DropsStay, <2>2, MarksStay, <2>3, OmissionsStay, <2>4, TellingsStay,
               LossFrom
<1>19. CASE Swap
  <2>1. Dropping' => Dropping /\ reader'.epoch = reader.epoch
    BY <1>19 DEF IInv, TypeOK, ReaderType, Control, UiInv, AtInv, MutexInv, Dropping,
       Marking, Swap
  <2>2. pending' \in {0, pending}
    BY <1>19 DEF IInv, TypeOK, ReaderType, Control, UiInv, AtInv, MutexInv, Dropping,
       Marking, Swap
  <2>3. ui'.omitted => \A e : e = interest' => Lost(e)'
    <3>. HAVE ui'.omitted
    <3>1. pending = interest /\ interest' = interest /\ interest # 0
      BY <1>19 DEF Swap, IInv, TypeOK, ReaderType, Control, EpochInv
    <3>2. Lost(interest)
      BY <3>1 DEF IInv, LossInv
    <3>3. \A e : e = interest => Lost(e)'
      BY <3>2, LostGrows
    <3>. QED  BY <3>1, <3>3
  <2>4. told' = told
    BY <1>19 DEF IInv, TypeOK, ReaderType, Control, UiInv, AtInv, MutexInv, Dropping,
       Marking, Swap
  <2>. QED  BY <2>1, DropsStay, <2>2, MarksStay, <2>3, <2>4, TellingsStay, LossFrom
<1>20. CASE UiUnlocks
  <2>1. Dropping' => Dropping /\ reader'.epoch = reader.epoch
    BY <1>20 DEF IInv, TypeOK, ReaderType, Control, UiInv, AtInv, MutexInv, Dropping,
       Marking, UiUnlocks, Resting
  <2>2. pending' \in {0, pending}
    BY <1>20 DEF IInv, TypeOK, ReaderType, Control, UiInv, AtInv, MutexInv, Dropping,
       Marking, UiUnlocks, Resting
  <2>3. ui'.omitted => ui.omitted /\ interest' = interest
    BY <1>20 DEF IInv, TypeOK, ReaderType, Control, UiInv, AtInv, MutexInv, Dropping,
       Marking, UiUnlocks, Resting
  <2>4. told' = told
    BY <1>20 DEF IInv, TypeOK, ReaderType, Control, UiInv, AtInv, MutexInv, Dropping,
       Marking, UiUnlocks, Resting
  <2>. QED  BY <2>1, DropsStay, <2>2, MarksStay, <2>3, OmissionsStay, <2>4, TellingsStay,
               LossFrom
<1>21. CASE TellChunk
  <2>1. Dropping' => Dropping /\ reader'.epoch = reader.epoch
    BY <1>21 DEF IInv, TypeOK, ReaderType, Control, UiInv, AtInv, MutexInv, Dropping,
       Marking, TellChunk, shared
  <2>2. pending' \in {0, pending}
    BY <1>21 DEF IInv, TypeOK, ReaderType, Control, UiInv, AtInv, MutexInv, Dropping,
       Marking, TellChunk, shared
  <2>3. ui'.omitted => ui.omitted /\ interest' = interest
    BY <1>21 DEF IInv, TypeOK, ReaderType, Control, UiInv, AtInv, MutexInv, Dropping,
       Marking, TellChunk, shared
  <2>4. \A j \in DOMAIN told' : told'[j].kind = "omitted" => \A e : e = told'[j].epoch => Lost(e)'
    <3>. TAKE j \in DOMAIN told'
    <3>. HAVE told'[j].kind = "omitted"
    <3>1. /\ \A i \in 1..Len(told) : told'[i] = told[i]
          /\ j \in 1..Len(told) \/ (ui.omitted /\ told'[j].epoch = interest)
      BY <1>21, TellEffect
    <3>2. CASE j \in 1..Len(told)
      <4>1. j \in DOMAIN told /\ told'[j] = told[j]
        BY <3>1, <3>2, Lengths DEF IInv
      <4>2. Lost(told[j].epoch)
        BY <4>1 DEF IInv, LossInv
      <4>3. \A e : e = told[j].epoch => Lost(e)'
        BY <4>2, LostGrows
      <4>. QED  BY <4>1, <4>3
    <3>3. CASE ui.omitted /\ told'[j].epoch = interest
      <4>1. Lost(interest)
        BY <3>3 DEF IInv, LossInv
      <4>2. \A e : e = interest => Lost(e)'
        BY <4>1, LostGrows
      <4>. QED  BY <3>3, <4>2
    <3>. QED  BY <3>1, <3>2, <3>3
  <2>. QED  BY <2>1, DropsStay, <2>2, MarksStay, <2>3, OmissionsStay, <2>4, LossFrom
<1>22. CASE TellEnd
  <2>1. Dropping' => Dropping /\ reader'.epoch = reader.epoch
    BY <1>22 DEF IInv, TypeOK, ReaderType, Control, UiInv, AtInv, MutexInv, Dropping,
       Marking, TellEnd, Resting, shared
  <2>2. pending' \in {0, pending}
    BY <1>22 DEF IInv, TypeOK, ReaderType, Control, UiInv, AtInv, MutexInv, Dropping,
       Marking, TellEnd, Resting, shared
  <2>3. ui'.omitted => ui.omitted /\ interest' = interest
    BY <1>22 DEF IInv, TypeOK, ReaderType, Control, UiInv, AtInv, MutexInv, Dropping,
       Marking, TellEnd, Resting, shared
  <2>4. \A j \in DOMAIN told' : told'[j].kind = "omitted" => \A e : e = told'[j].epoch => Lost(e)'
    <3>. TAKE j \in DOMAIN told'
    <3>. HAVE told'[j].kind = "omitted"
    <3>1. /\ \A i \in 1..Len(told) : told'[i] = told[i]
          /\ j \in 1..Len(told) \/ (ui.omitted /\ told'[j].epoch = interest)
      BY <1>22, EndEffect
    <3>2. CASE j \in 1..Len(told)
      <4>1. j \in DOMAIN told /\ told'[j] = told[j]
        BY <3>1, <3>2, Lengths DEF IInv
      <4>2. Lost(told[j].epoch)
        BY <4>1 DEF IInv, LossInv
      <4>3. \A e : e = told[j].epoch => Lost(e)'
        BY <4>2, LostGrows
      <4>. QED  BY <4>1, <4>3
    <3>3. CASE ui.omitted /\ told'[j].epoch = interest
      <4>1. Lost(interest)
        BY <3>3 DEF IInv, LossInv
      <4>2. \A e : e = interest => Lost(e)'
        BY <4>1, LostGrows
      <4>. QED  BY <3>3, <4>2
    <3>. QED  BY <3>1, <3>2, <3>3
  <2>. QED  BY <2>1, DropsStay, <2>2, MarksStay, <2>3, OmissionsStay, <2>4, LossFrom
<1>. QED  BY <1>1, <1>2, <1>3, <1>4, <1>5, <1>6, <1>7, <1>8, <1>9, <1>10, <1>11, <1>12,
             <1>13, <1>14, <1>15, <1>16, <1>17, <1>18, <1>19, <1>20, <1>21, <1>22 DEF Next,
             Reader, Ui

\* There is a mark for what is missing, or the reader is making it.
Stands == pending = interest \/ (Dropping /\ reader.epoch = interest)

-----------------------------------------------------------------------------
(* Gaps.                                                                    *)

\* A step that keeps all in its place and gives up only with a mark.
LEMMA GapStays ==
  ASSUME IInv, Next, TypeOK', made' = made, UNCHANGED <<ring, told, interest>>,
         ui'.chunks = ui.chunks, ui'.omitted = ui.omitted, Stands => Stands',
         \/ Decided' = Decided
         \/ /\ reader.parts # <<>> /\ Decided = reader.parts[1].first
            /\ reader.epoch = interest => Stands'
  PROVE  GapInv'
<1>. SUFFICES ASSUME NEW n \in DOMAIN made', Missing(n)'
              PROVE  ToldOf(n)' \/ ToTell(n)' \/ Marked(n)'
  BY DEF GapInv
<1>1. /\ Taken' = Taken /\ Retained' = Retained /\ Kept' = Kept
      /\ TextTold' = TextTold /\ HeardNow' = HeardNow
  BY SetsSame
<1>2. /\ n \in DOMAIN made /\ n <= Decided' /\ EpochOf(n) = interest
      /\ made[n].kind # "reset" /\ n \notin Kept
  BY <1>1 DEF Missing, EpochOf
<1>3. n \in Nat /\ Decided \in Nat
  BY <1>2, DecidedTypes, MadeGrows DEF IInv
<1>4. CASE n <= Decided
  <2>1. ToldOf(n) \/ ToTell(n) \/ Marked(n)
    BY <1>2, <1>4 DEF IInv, GapInv, Missing
  <2>2. ToldOf(n) => ToldOf(n)'
    BY <1>1 DEF ToldOf, IsData
  <2>3. ToTell(n) => ToTell(n)'
    BY <1>1 DEF ToTell
  <2>4. Marked(n) => Marked(n)'
    BY <1>1 DEF Marked, Stands
  <2>. QED  BY <2>1, <2>2, <2>3, <2>4
<1>5. CASE n > Decided
  <2>0. Decided' # Decided
    BY <1>2, <1>3, <1>5
  <2>1. EpochOf(n) = reader.epoch /\ Stands'
    <3>1. reader.parts # <<>> /\ Decided = reader.parts[1].first
      BY <2>0
    <3>2. \A k \in DOMAIN made : k > reader.parts[1].first => EpochOf(k) = reader.epoch
      BY <3>1 DEF IInv, PartsInv
    <3>3. EpochOf(n) = reader.epoch
      BY <1>2, <1>5, <3>1, <3>2
    <3>. QED  BY <1>2, <2>0, <3>3
  <2>2. \A a \in HeardNow \cup Taken \cup Retained : a \in Nat /\ a <= Decided
    BY KeptTypes DEF IInv, OrderInv, Kept
  <2>3. \A a \in HeardNow \cup Taken \cup Retained : a < n
    BY <1>3, <1>5, <2>2
  <2>. QED  BY <1>1, <2>1, <2>3 DEF Marked, Stands
<1>. QED  BY <1>3, <1>4, <1>5

\* Nobody listens yet, or no more.
LEMMA GapNone ==
  ASSUME \A n \in DOMAIN made' : made'[n].epoch # interest'
  PROVE  GapInv'
  BY DEF GapInv, Missing, EpochOf

\* A step that keeps the same things, and decides nothing new.
LEMMA MissingSame ==
  ASSUME IInv, Next, TypeOK', made' = made, interest' = interest, Decided' = Decided, Kept' = Kept
  PROVE  \A n \in DOMAIN made' : Missing(n)' => ToldOf(n) \/ ToTell(n) \/ Marked(n)
<1>1. \A n \in DOMAIN made' : Missing(n)' => n \in DOMAIN made /\ Missing(n)
  BY DEF Missing, EpochOf
<1>. QED  BY <1>1 DEF IInv, GapInv

\* Every action keeps what is missing told of, to be told or marked.
LEMMA GapKept ==
  ASSUME IInv, Next, TypeOK'
  PROVE  GapInv'
<1>. HIDE DEF IInv, TypeOK, ReaderType, Next
<1>1. ASSUME NEW c \in Captures, Capture(c) PROVE GapInv'
  <2>. SUFFICES ASSUME NEW n \in DOMAIN made', Missing(n)'
                PROVE  ToldOf(n)' \/ ToTell(n)' \/ Marked(n)'
    BY DEF GapInv
  <2>1. /\ UNCHANGED <<ring, told, interest, pending, ui>> /\ ~Dropping
        /\ reader.parts = <<>> /\ Decided = Len(made)
        /\ reader'.parts = Parts(c) /\ reader'.pc = "check" /\ reader'.at = "entry"
    BY <1>1 DEF Capture, shared, Idle, IInv, TypeOK, ReaderType, Control, AtInv, Dropping,
       Marking, Decided
  <2>2. /\ Taken' = Taken /\ Retained' = Retained /\ Kept' = Kept
        /\ TextTold' = TextTold /\ HeardNow' = HeardNow
    BY <2>1, SetsSame
  <2>3. /\ n <= Decided' /\ EpochOf(n)' = interest /\ made'[n].kind # "reset" /\ n \notin Kept
    BY <2>1, <2>2 DEF Missing
  <2>4. Decided' = Parts(c)[1].first
    <3>1. Parts(c) # <<>>
      BY PartsThere
    <3>. QED  BY <2>1, <3>1 DEF Decided, Marking
  <2>. DEFINE m == Len(made)
              h == c.head
              r == Resets(c)
  <2>5. m \in Nat /\ h \in Nat /\ r \in Nat /\ n \in 1..Len(made')
    <3>1. Len(made) \in Nat /\ DOMAIN made' = 1..Len(made')
      BY MadeGrows
    <3>2. c.head \in Nat /\ Resets(c) \in Nat
      BY <1>1, CaptureItems DEF IInv
    <3>. QED  BY <3>1, <3>2
  <2>6. Decided' = m \/ (c.reset /\ h = 0 /\ r = 1 /\ Decided' = m + 1) \/ (r = 0 /\ Decided' = m)
    <3>1. c.head > 0 => Parts(c)[1].first = m
      BY DEF Parts, Push
    <3>2. ~(c.head > 0) => Parts(c)[1].first = m + r
      BY DEF Parts, Push
    <3>3. (c.reset /\ r = 1) \/ r = 0
      BY DEF Resets
    <3>. HIDE DEF m, h, r
    <3>4. c.head > 0 \/ c.head = 0
      BY <2>5 DEF h
    <3>. QED  BY <2>4, <2>5, <3>1, <3>2, <3>3, <3>4 DEF h
  <2>7. n <= m
    <3>1. CASE n > m
      <4>1. c.reset /\ h = 0 /\ n = m + 1
        <5>. HIDE DEF m, h, r
        <5>. QED  BY <2>3, <2>5, <2>6, <3>1
      <4>2. n \in (Len(made) + 1)..Len(made') /\ n = Len(made) + c.head + 1
        <5>. HIDE DEF h, r
        <5>1. n \in (m + 1)..Len(made') /\ n = m + h + 1
          <6>. HIDE DEF m
          <6>. QED  BY <2>5, <4>1
        <5>. QED  BY <5>1 DEF h
      <4>3. made'[n].kind = "reset"
        BY <1>1, <4>1, <4>2, CaptureItems DEF IInv
      <4>. QED  BY <2>3, <4>3
    <3>. QED  BY <2>5, <3>1
  <2>8. n \in DOMAIN made /\ made'[n] = made[n]
    <3>1. n \in DOMAIN made
      <4>1. Len(made) \in Nat /\ DOMAIN made = 1..Len(made)
        BY MadeGrows
      <4>. QED  BY <2>5, <2>7, <4>1
    <3>. QED  BY <3>1, MadeGrows
  <2>9. Missing(n)
    BY <2>1, <2>3, <2>7, <2>8 DEF Missing, EpochOf
  <2>10. ToldOf(n) \/ ToTell(n) \/ Marked(n)
    BY <2>8, <2>9 DEF IInv, GapInv
  <2>11. ToldOf(n) => ToldOf(n)'
    BY <2>1, <2>2 DEF ToldOf, IsData
  <2>12. ToTell(n) => ToTell(n)'
    BY <2>1, <2>2 DEF ToTell
  <2>13. Marked(n) => Marked(n)'
    BY <2>1, <2>2 DEF Marked
  <2>. QED  BY <2>10, <2>11, <2>12, <2>13
<1>2. CASE CheckEpoch
  <2>1. /\ made' = made /\ UNCHANGED <<ring, told, interest>>
        /\ ui'.chunks = ui.chunks /\ ui'.omitted = ui.omitted
    BY <1>2, CheckEpochEffect, ReaderTypes DEF IInv, Control, UiInv, Becomes, Finished
  <2>2. Stands => Stands'
    BY <1>2, CheckEpochEffect, ReaderTypes DEF IInv, Control, UiInv, AtInv, MutexInv,
       MarkInv, EpochInv, Dropping, Marking, Stands, Becomes, Finished
  <2>3. \/ Decided' = Decided
        \/ /\ reader.parts # <<>> /\ Decided = reader.parts[1].first
           /\ reader.epoch = interest => Stands'
    BY <1>2, CheckEpochEffect, ReaderTypes, NothingIsParts DEF IInv, Control, UiInv, AtInv,
       MutexInv, Dropping, Marking, Stands, Decided, Becomes, Finished
  <2>. QED  BY <2>1, <2>2, <2>3, GapStays
<1>3. CASE ReadPending
  <2>1. /\ made' = made /\ UNCHANGED <<ring, told, interest>>
        /\ ui'.chunks = ui.chunks /\ ui'.omitted = ui.omitted
    BY <1>3, ReadPendingEffect, ReaderTypes DEF IInv, Control, UiInv, Becomes, Finished,
       Onward
  <2>2. Stands => Stands'
    BY <1>3, ReadPendingEffect, ReaderTypes DEF IInv, Control, UiInv, AtInv, MutexInv,
       MarkInv, EpochInv, Dropping, Marking, Stands, Becomes, Finished, Onward
  <2>3. \/ Decided' = Decided
        \/ /\ reader.parts # <<>> /\ Decided = reader.parts[1].first
           /\ reader.epoch = interest => Stands'
    BY <1>3, ReadPendingEffect, ReaderTypes, NothingIsParts DEF IInv, Control, UiInv,
       AtInv, MutexInv, Dropping, Marking, Stands, Decided, Becomes, Finished, Onward
  <2>. QED  BY <2>1, <2>2, <2>3, GapStays
<1>4. CASE ReadCurrent
  <2>1. /\ made' = made /\ UNCHANGED <<ring, told, interest>>
        /\ ui'.chunks = ui.chunks /\ ui'.omitted = ui.omitted
    BY <1>4, ReadCurrentEffect, ReaderTypes DEF IInv, Control, UiInv, Becomes, Finished,
       Onward
  <2>2. Stands => Stands'
    BY <1>4, ReadCurrentEffect, ReaderTypes DEF IInv, Control, UiInv, AtInv, MutexInv,
       MarkInv, EpochInv, Dropping, Marking, Stands, Becomes, Finished, Onward
  <2>3. \/ Decided' = Decided
        \/ /\ reader.parts # <<>> /\ Decided = reader.parts[1].first
           /\ reader.epoch = interest => Stands'
    BY <1>4, ReadCurrentEffect, ReaderTypes, NothingIsParts DEF IInv, Control, UiInv,
       AtInv, MutexInv, Dropping, Marking, Stands, Decided, Becomes, Finished, Onward
  <2>. QED  BY <2>1, <2>2, <2>3, GapStays
<1>5. CASE RemoveMark
  <2>1. /\ made' = made /\ UNCHANGED <<ring, told, interest>>
        /\ ui'.chunks = ui.chunks /\ ui'.omitted = ui.omitted
    BY <1>5, RemoveMarkEffect, ReaderTypes DEF IInv, Control, UiInv, Becomes, Finished
  <2>2. Stands => Stands'
    BY <1>5, RemoveMarkEffect, ReaderTypes DEF IInv, Control, UiInv, AtInv, MutexInv,
       MarkInv, EpochInv, Dropping, Marking, Stands, Becomes, Finished
  <2>3. \/ Decided' = Decided
        \/ /\ reader.parts # <<>> /\ Decided = reader.parts[1].first
           /\ reader.epoch = interest => Stands'
    BY <1>5, RemoveMarkEffect, ReaderTypes, NothingIsParts DEF IInv, Control, UiInv, AtInv,
       MutexInv, Dropping, Marking, Stands, Decided, Becomes, Finished
  <2>. QED  BY <2>1, <2>2, <2>3, GapStays
<1>6. CASE TryLock
  <2>1. /\ made' = made /\ UNCHANGED <<ring, told, interest>>
        /\ ui'.chunks = ui.chunks /\ ui'.omitted = ui.omitted
    BY <1>6, TryLockEffect, ReaderTypes DEF IInv, Control, UiInv, Becomes, Finished
  <2>2. Stands => Stands'
    BY <1>6, TryLockEffect, ReaderTypes DEF IInv, Control, UiInv, AtInv, MutexInv, MarkInv,
       EpochInv, Dropping, Marking, Stands, Becomes, Finished
  <2>3. \/ Decided' = Decided
        \/ /\ reader.parts # <<>> /\ Decided = reader.parts[1].first
           /\ reader.epoch = interest => Stands'
    BY <1>6, TryLockEffect, ReaderTypes, NothingIsParts DEF IInv, Control, UiInv, AtInv,
       MutexInv, Dropping, Marking, Stands, Decided, Becomes, Finished
  <2>. QED  BY <2>1, <2>2, <2>3, GapStays
<1>7. CASE Fill
  <2>. SUFFICES ASSUME NEW n \in DOMAIN made', Missing(n)'
                PROVE  ToldOf(n)' \/ ToTell(n)' \/ Marked(n)'
    BY DEF GapInv
  <2>. DEFINE p == reader.parts[1]
              f == Fits(p)
              new == (p.first + 1)..(p.first + f)
  <2>1. /\ UNCHANGED <<told, interest, pending, ui, made>> /\ reader'.epoch = reader.epoch
        /\ reader.pc = "fill" /\ interest \in Nat /\ pending \in Nat /\ reader.epoch \in Nat
    BY <1>7 DEF Fill, ReaderTo, IInv, TypeOK, ReaderType
  <2>2. /\ p \in Part /\ Decided = p.first /\ f \in Int /\ ~Marking /\ reader.parts # <<>>
        /\ Taken' = Taken /\ HeardNow' = HeardNow /\ TextTold' = TextTold
        /\ Retained' = Retained \cup new
    BY <1>7, FillEffect
  <2>3. Kept' = Kept \cup new
    BY <2>2 DEF Kept
  <2>4. /\ n \in DOMAIN made /\ n <= Decided' /\ EpochOf(n) = interest
        /\ made[n].kind # "reset" /\ n \notin Kept /\ n \notin new
    BY <2>1, <2>3 DEF Missing, EpochOf
  <2>5. n \in Nat /\ Decided \in Nat /\ p.first \in Nat
    BY <2>2, <2>4, DecidedTypes, MadeGrows DEF IInv
  <2>6. pending # interest /\ ~Dropping
    BY <2>1, <2>2 DEF IInv, Control, MarkInv, EpochInv, Dropping
  <2>7. \A a \in HeardNow \cup Taken \cup Retained : a \in Nat /\ a <= Decided
    BY KeptTypes DEF IInv, OrderInv, Kept
  <2>8. CASE n <= Decided
    <3>. HIDE DEF p, f
    <3>1. ToldOf(n) \/ ToTell(n)
      BY <2>4, <2>6, <2>8 DEF IInv, GapInv, Missing, Marked
    <3>2. \A b \in new : n < b
      BY <2>2, <2>5, <2>8
    <3>. HIDE DEF new
    <3>3. ToldOf(n) => ToldOf(n)'
      BY <2>1, <2>2, <3>2 DEF ToldOf, IsData
    <3>4. ToTell(n) => ToTell(n)'
      BY <2>1, <2>2, <3>2 DEF ToTell
    <3>. QED  BY <3>1, <3>3, <3>4
  <2>9. CASE n > Decided
    <3>1. EpochOf(n) = reader.epoch
      BY <2>2, <2>4, <2>9 DEF IInv, PartsInv
    <3>2. CASE reader'.pc = "mark"
      <4>1. Dropping'
        BY <3>2 DEF Dropping, Marking
      <4>. HIDE DEF p, f
      <4>2. \A a \in new : a < n
        BY <2>2, <2>4, <2>5, <2>9
      <4>3. \A a \in HeardNow \cup Taken \cup Retained : a < n
        BY <2>5, <2>7, <2>9
      <4>. HIDE DEF new
      <4>. QED  BY <2>1, <2>2, <2>4, <3>1, <4>1, <4>2, <4>3 DEF Marked
    <3>3. CASE reader'.pc = "unlock"
      <4>1. /\ f = p.count /\ \A k \in (End(1) + 1)..Decided' : made[k].kind = "reset"
            /\ Decided' \in Nat
        BY <1>7, <3>3, FillDecides
      <4>2. End(1) = p.first + f
        BY <4>1 DEF End
      <4>. HIDE DEF p, f
      <4>3. n \in (End(1) + 1)..Decided'
        BY <2>2, <2>4, <2>5, <2>9, <4>1, <4>2
      <4>. QED  BY <2>4, <4>1, <4>3
    <3>. QED  BY <1>7, <3>2, <3>3, FillDecides
  <2>. QED  BY <2>5, <2>8, <2>9
<1>8. CASE Mark
  <2>1. /\ made' = made /\ UNCHANGED <<ring, told, interest>>
        /\ ui'.chunks = ui.chunks /\ ui'.omitted = ui.omitted
    BY <1>8, MarkEffect, ReaderTypes DEF IInv, Control, UiInv, Becomes, Finished
  <2>2. Stands => Stands'
    BY <1>8, MarkEffect, ReaderTypes DEF IInv, Control, UiInv, AtInv, MutexInv, MarkInv,
       EpochInv, Dropping, Marking, Stands, Becomes, Finished
  <2>3. \/ Decided' = Decided
        \/ /\ reader.parts # <<>> /\ Decided = reader.parts[1].first
           /\ reader.epoch = interest => Stands'
    BY <1>8, MarkEffect, ReaderTypes, NothingIsParts DEF IInv, Control, UiInv, AtInv,
       MutexInv, Dropping, Marking, Stands, Decided, Becomes, Finished
  <2>. QED  BY <2>1, <2>2, <2>3, GapStays
<1>9. CASE Claim
  <2>1. /\ made' = made /\ UNCHANGED <<ring, told, interest>>
        /\ ui'.chunks = ui.chunks /\ ui'.omitted = ui.omitted
    BY <1>9, ClaimEffect, ReaderTypes DEF IInv, Control, UiInv, Becomes, Finished
  <2>2. Stands => Stands'
    BY <1>9, ClaimEffect, ReaderTypes DEF IInv, Control, UiInv, AtInv, MutexInv, MarkInv,
       EpochInv, Dropping, Marking, Stands, Becomes, Finished
  <2>3. \/ Decided' = Decided
        \/ /\ reader.parts # <<>> /\ Decided = reader.parts[1].first
           /\ reader.epoch = interest => Stands'
    BY <1>9, ClaimEffect, ReaderTypes, NothingIsParts DEF IInv, Control, UiInv, AtInv,
       MutexInv, Dropping, Marking, Stands, Decided, Becomes, Finished
  <2>. QED  BY <2>1, <2>2, <2>3, GapStays
<1>10. CASE ReaderUnlocks
  <2>1. /\ made' = made /\ UNCHANGED <<ring, told, interest>>
        /\ ui'.chunks = ui.chunks /\ ui'.omitted = ui.omitted
    BY <1>10 DEF IInv, TypeOK, ReaderType, Control, UiInv, ReaderUnlocks
  <2>2. Stands => Stands'
    BY <1>10 DEF IInv, TypeOK, ReaderType, Control, UiInv, AtInv, MutexInv, MarkInv,
       EpochInv, Dropping, Marking, Stands, ReaderUnlocks
  <2>3. \/ Decided' = Decided
        \/ /\ reader.parts # <<>> /\ Decided = reader.parts[1].first
           /\ reader.epoch = interest => Stands'
    BY <1>10, NothingIsParts DEF IInv, TypeOK, ReaderType, Control, UiInv, AtInv, MutexInv,
       Dropping, Marking, Stands, Decided, ReaderUnlocks
  <2>. QED  BY <2>1, <2>2, <2>3, GapStays
<1>11. CASE ReaderReturns
  <2>1. /\ made' = made /\ UNCHANGED <<ring, told, interest>>
        /\ ui'.chunks = ui.chunks /\ ui'.omitted = ui.omitted
    BY <1>11 DEF IInv, TypeOK, ReaderType, Control, UiInv, ReaderReturns, Idle, shared
  <2>2. Stands => Stands'
    BY <1>11 DEF IInv, TypeOK, ReaderType, Control, UiInv, AtInv, MutexInv, MarkInv,
       EpochInv, Dropping, Marking, Stands, ReaderReturns, Idle, shared
  <2>3. \/ Decided' = Decided
        \/ /\ reader.parts # <<>> /\ Decided = reader.parts[1].first
           /\ reader.epoch = interest => Stands'
    BY <1>11, NothingIsParts DEF IInv, TypeOK, ReaderType, Control, UiInv, AtInv, MutexInv,
       Dropping, Marking, Stands, Decided, ReaderReturns, Idle, shared
  <2>. QED  BY <2>1, <2>2, <2>3, GapStays
<1>12. CASE LoseInterest
  <2>1. made' = made /\ interest' = interest + 1 /\ interest \in Nat
    BY <1>12 DEF IInv, TypeOK, ReaderType, LoseInterest, UiTo
  <2>2. \A n \in DOMAIN made : made[n].epoch <= interest /\ made[n].epoch \in Nat
    <3>1. \A n \in DOMAIN made : made[n] \in Item
      BY DEF IInv, TypeOK, ReaderType
    <3>. QED  BY <3>1 DEF IInv, MadeInv, EpochOf, Item
  <2>3. \A n \in DOMAIN made : made[n].epoch # interest + 1
    BY <2>1, <2>2
  <2>. QED  BY <2>1, <2>3, GapNone
<1>13. CASE TakeInterest
  <2>1. /\ made' = made /\ UNCHANGED <<ring, told, interest>>
        /\ ui'.chunks = ui.chunks /\ ui'.omitted = ui.omitted
    BY <1>13 DEF IInv, TypeOK, ReaderType, Control, UiInv, TakeInterest, UiTo, shared
  <2>2. Stands => Stands'
    BY <1>13 DEF IInv, TypeOK, ReaderType, Control, UiInv, AtInv, MutexInv, MarkInv,
       EpochInv, Dropping, Marking, Stands, TakeInterest, UiTo, shared
  <2>3. \/ Decided' = Decided
        \/ /\ reader.parts # <<>> /\ Decided = reader.parts[1].first
           /\ reader.epoch = interest => Stands'
    BY <1>13, NothingIsParts DEF IInv, TypeOK, ReaderType, Control, UiInv, AtInv, MutexInv,
       Dropping, Marking, Stands, Decided, TakeInterest, UiTo, shared
  <2>. QED  BY <2>1, <2>2, <2>3, GapStays
<1>14. CASE Empty
  <2>1. made' = made /\ interest' = interest /\ interest % 2 = 0
    BY <1>14 DEF IInv, TypeOK, ReaderType, Control, EpochInv, Between, Empty, UiTo
  <2>2. \A n \in DOMAIN made : made[n].epoch % 2 = 1
    BY DEF IInv, MadeInv, EpochOf
  <2>3. \A n \in DOMAIN made : made[n].epoch # interest
    BY <2>1, <2>2
  <2>. QED  BY <2>1, <2>3, GapNone
<1>15. CASE Unmark
  <2>1. made' = made /\ interest' = interest /\ interest % 2 = 0
    BY <1>15 DEF IInv, TypeOK, ReaderType, Control, EpochInv, Between, Unmark, UiTo
  <2>2. \A n \in DOMAIN made : made[n].epoch % 2 = 1
    BY DEF IInv, MadeInv, EpochOf
  <2>3. \A n \in DOMAIN made : made[n].epoch # interest
    BY <2>1, <2>2
  <2>. QED  BY <2>1, <2>3, GapNone
<1>16. CASE BeginEpoch
  <2>1. made' = made /\ interest' = interest + 1 /\ interest \in Nat
    BY <1>16 DEF IInv, TypeOK, ReaderType, BeginEpoch, UiTo
  <2>2. \A n \in DOMAIN made : made[n].epoch <= interest /\ made[n].epoch \in Nat
    <3>1. \A n \in DOMAIN made : made[n] \in Item
      BY DEF IInv, TypeOK, ReaderType
    <3>. QED  BY <3>1 DEF IInv, MadeInv, EpochOf, Item
  <2>3. \A n \in DOMAIN made : made[n].epoch # interest + 1
    BY <2>1, <2>2
  <2>. QED  BY <2>1, <2>3, GapNone
<1>17. CASE Drain
  <2>1. /\ made' = made /\ UNCHANGED <<ring, told, interest>>
        /\ ui'.chunks = ui.chunks /\ ui'.omitted = ui.omitted
    BY <1>17 DEF IInv, TypeOK, ReaderType, Control, UiInv, Drain, UiTo, shared
  <2>2. Stands => Stands'
    BY <1>17 DEF IInv, TypeOK, ReaderType, Control, UiInv, AtInv, MutexInv, MarkInv,
       EpochInv, Dropping, Marking, Stands, Drain, UiTo, shared
  <2>3. \/ Decided' = Decided
        \/ /\ reader.parts # <<>> /\ Decided = reader.parts[1].first
           /\ reader.epoch = interest => Stands'
    BY <1>17, NothingIsParts DEF IInv, TypeOK, ReaderType, Control, UiInv, AtInv, MutexInv,
       Dropping, Marking, Stands, Decided, Drain, UiTo, shared
  <2>. QED  BY <2>1, <2>2, <2>3, GapStays
<1>18. CASE Take
  <2>1. /\ UNCHANGED <<told, interest, pending, reader, made>> /\ ui.chunks = <<>>
        /\ ui'.chunks = ring /\ ring' = <<>> /\ ~ui.omitted
    BY <1>18 DEF Take, IInv, TypeOK, ReaderType, Control, UiInv
  <2>2. Decided' = Decided
    BY <2>1 DEF Decided, Marking
  <2>3. Taken = {} /\ Taken' = Retained /\ Retained' = {} /\ HeardNow' = HeardNow /\ TextTold' = TextTold
    BY <2>1, NothingTaken, NothingRetainedNext DEF Taken, Retained, HeardNow, TextTold,
       IsData
  <2>4. Kept' = Kept
    BY <2>3 DEF Kept
  <2>6. ASSUME NEW n \in DOMAIN made', Missing(n)'
        PROVE  ToldOf(n)' \/ ToTell(n)' \/ Marked(n)'
    <3>1. ToldOf(n) \/ ToTell(n) \/ Marked(n)
      BY <2>6, <2>1, <2>2, <2>4, MissingSame
    <3>2. ToldOf(n) => ToldOf(n)'
      BY <2>1, <2>3 DEF ToldOf, IsData
    <3>3. ~ToTell(n)
      BY <2>1 DEF ToTell
    <3>4. Marked(n) => Marked(n)'
      BY <2>1, <2>3 DEF Marked, Dropping, Marking
    <3>. QED  BY <3>1, <3>2, <3>3, <3>4
  <2>. QED  BY <2>6 DEF GapInv
<1>19. CASE Swap
  <2>1. /\ UNCHANGED <<told, interest, ring, reader, made>>
        /\ ui'.chunks = ui.chunks /\ ring = <<>> /\ ~ui.omitted
        /\ ui'.omitted = (pending = interest)
        /\ pending # interest => pending' = pending
    BY <1>19 DEF Swap, IInv, TypeOK, ReaderType, Control, UiInv
  <2>2. Decided' = Decided
    BY <2>1 DEF Decided, Marking
  <2>3. Taken' = Taken /\ Retained' = {} /\ HeardNow' = HeardNow /\ Kept' = Kept /\ Retained = {}
    BY <2>1, SetsSame, NothingRetainedNext
  <2>6. ASSUME NEW n \in DOMAIN made', Missing(n)'
        PROVE  ToldOf(n)' \/ ToTell(n)' \/ Marked(n)'
    <3>1. ToldOf(n) \/ ToTell(n) \/ Marked(n)
      BY <2>6, <2>1, <2>2, <2>3, MissingSame
    <3>2. ToldOf(n) => ToldOf(n)'
      BY <2>1, <2>3 DEF ToldOf, IsData
    <3>3. ~ToTell(n)
      BY <2>1 DEF ToTell
    <3>4. Marked(n) => Marked(n)' \/ ToTell(n)'
      BY <2>1, <2>3 DEF Marked, ToTell, Dropping, Marking
    <3>. QED  BY <3>1, <3>2, <3>3, <3>4
  <2>. QED  BY <2>6 DEF GapInv
<1>20. CASE UiUnlocks
  <2>1. /\ made' = made /\ UNCHANGED <<ring, told, interest>>
        /\ ui'.chunks = ui.chunks /\ ui'.omitted = ui.omitted
    BY <1>20 DEF IInv, TypeOK, ReaderType, Control, UiInv, UiUnlocks, Resting
  <2>2. Stands => Stands'
    BY <1>20 DEF IInv, TypeOK, ReaderType, Control, UiInv, AtInv, MutexInv, MarkInv,
       EpochInv, Dropping, Marking, Stands, UiUnlocks, Resting
  <2>3. \/ Decided' = Decided
        \/ /\ reader.parts # <<>> /\ Decided = reader.parts[1].first
           /\ reader.epoch = interest => Stands'
    BY <1>20, NothingIsParts DEF IInv, TypeOK, ReaderType, Control, UiInv, AtInv, MutexInv,
       Dropping, Marking, Stands, Decided, UiUnlocks, Resting
  <2>. QED  BY <2>1, <2>2, <2>3, GapStays
<1>21. CASE TellChunk
  <2>. DEFINE h == ui.chunks[1].at
  <2>1. /\ UNCHANGED <<interest, pending, ring, reader, made>> /\ ui'.omitted = ui.omitted
        /\ told \in Seq(Telling) /\ told' \in Seq(Telling)
    BY <1>21 DEF TellChunk, shared, IInv, TypeOK, ReaderType
  <2>2. Decided' = Decided
    BY <2>1 DEF Decided, Marking
  <2>3. /\ HeardNow' = HeardNow \cup {h} /\ Retained' = Retained /\ Kept' = Kept
        /\ h \in Taken /\ Taken' \subseteq Taken
    BY <1>21, TellEffect, TellSets
  <2>4. /\ Len(told') \in Nat /\ Len(told') > Len(told)
        /\ \A i \in 1..Len(told) : told'[i] = told[i]
        /\ \A i \in DOMAIN told' : i \in 1..Len(told) \/ i = Len(told') \/ told'[i].kind = "reset"
        /\ told'[Len(told')].at = h
    BY <1>21, TellEffect
  <2>5. DOMAIN told = 1..Len(told) /\ DOMAIN told \subseteq DOMAIN told'
    BY <2>1, <2>4
  <2>. HIDE DEF h
  <2>6. ASSUME NEW n \in DOMAIN made', Missing(n)'
        PROVE  ToldOf(n)' \/ ToTell(n)' \/ Marked(n)'
    <3>1. ToldOf(n) \/ ToTell(n) \/ Marked(n)
      BY <2>6, <2>1, <2>2, <2>3, MissingSame
    <3>2. ToldOf(n) => ToldOf(n)'
      <4>. HAVE ToldOf(n)
      <4>1. PICK i \in DOMAIN told :
              /\ told[i].kind = "omitted" /\ told[i].epoch = interest
              /\ \A k \in DOMAIN told :
                   k > i /\ IsData(k) /\ told[k].epoch = interest => n < told[k].at
        BY DEF ToldOf
      <4>2. \A b \in Taken \cup Retained : n < b
        BY DEF ToldOf
      <4>3. i \in DOMAIN told' /\ told'[i].kind = "omitted" /\ told'[i].epoch = interest'
        BY <2>1, <2>4, <2>5, <4>1
      <4>4. ASSUME NEW k \in DOMAIN told', k > i, told'[k].kind = "data", told'[k].epoch = interest
            PROVE  n < told'[k].at
        <5>1. CASE k \in 1..Len(told)
          BY <2>4, <2>5, <4>1, <4>4, <5>1 DEF IsData
        <5>2. CASE k = Len(told')
          BY <2>3, <2>4, <4>2, <5>2
        <5>. QED  BY <2>4, <4>4, <5>1, <5>2
      <4>5. \A b \in Taken' \cup Retained' : n < b
        BY <2>3, <4>2
      <4>. QED  BY <2>1, <4>3, <4>4, <4>5 DEF ToldOf, IsData
    <3>3. ToTell(n) => ToTell(n)'
      BY <2>1, <2>3 DEF ToTell
    <3>4. Marked(n) => Marked(n)'
      BY <2>1, <2>3 DEF Marked, Dropping, Marking
    <3>. QED  BY <3>1, <3>2, <3>3, <3>4
  <2>. QED  BY <2>6 DEF GapInv
<1>22. CASE TellEnd
  <2>1. /\ UNCHANGED <<interest, pending, ring, reader, made>>
        /\ told \in Seq(Telling) /\ told' \in Seq(Telling)
    BY <1>22 DEF TellEnd, shared, IInv, TypeOK, ReaderType
  <2>2. Decided' = Decided
    BY <2>1 DEF Decided, Marking
  <2>3. /\ HeardNow' = HeardNow /\ Retained' = Retained /\ Kept' = Kept /\ Taken' = {} /\ Taken = {}
    BY <1>22, EndEffect
  <2>4. /\ Len(told') \in Nat /\ Len(told') >= Len(told) /\ Len(told) \in Nat
        /\ \A i \in 1..Len(told) : told'[i] = told[i]
        /\ \A i \in DOMAIN told' : i \in 1..Len(told) \/ told'[i].kind \in {"reset", "omitted"}
        /\ ui.omitted => /\ Len(told') > Len(told) /\ told'[Len(told')].kind = "omitted"
                         /\ told'[Len(told')].epoch = interest
    BY <1>22, EndEffect
  <2>5. /\ DOMAIN told = 1..Len(told) /\ DOMAIN told' = 1..Len(told') /\ DOMAIN told \subseteq DOMAIN told'
    BY <2>1, <2>4
  <2>6. ASSUME NEW n \in DOMAIN made', Missing(n)'
        PROVE  ToldOf(n)' \/ ToTell(n)' \/ Marked(n)'
    <3>1. ToldOf(n) \/ ToTell(n) \/ Marked(n)
      BY <2>6, <2>1, <2>2, <2>3, MissingSame
    <3>2. ToldOf(n) => ToldOf(n)'
      <4>. HAVE ToldOf(n)
      <4>1. PICK i \in DOMAIN told :
              /\ told[i].kind = "omitted" /\ told[i].epoch = interest
              /\ \A k \in DOMAIN told :
                   k > i /\ IsData(k) /\ told[k].epoch = interest => n < told[k].at
        BY DEF ToldOf
      <4>2. \A b \in Taken' \cup Retained' : n < b
        BY <2>3 DEF ToldOf
      <4>3. i \in DOMAIN told' /\ told'[i].kind = "omitted" /\ told'[i].epoch = interest'
        BY <2>1, <2>4, <2>5, <4>1
      <4>4. ASSUME NEW k \in DOMAIN told', k > i, told'[k].kind = "data", told'[k].epoch = interest
            PROVE  n < told'[k].at
        BY <2>4, <2>5, <4>1, <4>4 DEF IsData
      <4>. QED  BY <2>1, <4>2, <4>3, <4>4 DEF ToldOf, IsData
    <3>3. ToTell(n) => ToldOf(n)'
      <4>. HAVE ToTell(n)
      <4>1. /\ Len(told') \in DOMAIN told' /\ told'[Len(told')].kind = "omitted"
            /\ told'[Len(told')].epoch = interest'
        BY <2>1, <2>4, <2>5 DEF ToTell
      <4>2. \A k \in DOMAIN told' : ~(k > Len(told'))
        BY <2>4, <2>5
      <4>3. \A b \in Taken' \cup Retained' : n < b
        BY <2>3 DEF ToTell
      <4>. QED  BY <4>1, <4>2, <4>3 DEF ToldOf
    <3>4. Marked(n) => Marked(n)'
      BY <2>1, <2>3 DEF Marked, Dropping, Marking
    <3>. QED  BY <3>1, <3>2, <3>3, <3>4
  <2>. QED  BY <2>6 DEF GapInv
<1>. QED  BY <1>1, <1>2, <1>3, <1>4, <1>5, <1>6, <1>7, <1>8, <1>9, <1>10, <1>11, <1>12,
             <1>13, <1>14, <1>15, <1>16, <1>17, <1>18, <1>19, <1>20, <1>21, <1>22 DEF Next,
             Reader, Ui

\* What NoSilentGap says of one text that is told.
HeardAll(j) ==
    \A n \in 1..(told[j].at - 1) :
       made[n].epoch = told[j].epoch /\ made[n].kind # "reset" =>
         \E i \in 1..(j - 1) :
            \/ SameText(i, j) /\ told[i].at = n
            \/ /\ told[i].kind = "omitted" /\ told[i].epoch = told[j].epoch
               /\ \A k \in i..j : SameText(k, j) => n < told[k].at
InOrder(j) == \A i \in 1..(j - 1) : SameText(i, j) => told[i].at < told[j].at

-----------------------------------------------------------------------------
(* The theorems.                                                            *)

\* The two halves of NoSilentGap.
LEMMA GapParts == NoSilentGap <=> \A j \in DOMAIN told : IsData(j) => InOrder(j) /\ HeardAll(j)
  BY Zenon DEF NoSilentGap, InOrder, HeardAll

\* NoSilentGap of the next state, from the text told there.
LEMMA GapPartsNext ==
  (\A j \in DOMAIN told' : told'[j].kind = "data" =>
      /\ \A i \in 1..(j - 1) : /\ told'[i].kind = "data" /\ told'[i].epoch = told'[j].epoch
                               => told'[i].at < told'[j].at
      /\ \A n \in 1..(told'[j].at - 1) :
           made'[n].epoch = told'[j].epoch /\ made'[n].kind # "reset" =>
             \E i \in 1..(j - 1) :
                \/ told'[i].kind = "data" /\ told'[i].epoch = told'[j].epoch /\ told'[i].at = n
                \/ /\ told'[i].kind = "omitted" /\ told'[i].epoch = told'[j].epoch
                   /\ \A k \in i..j : told'[k].kind = "data" /\ told'[k].epoch = told'[j].epoch
                                        => n < told'[k].at)
  => NoSilentGap'
  BY Zenon DEF NoSilentGap, SameText, IsData

\* What was told before stays as it was told.
LEMMA OldText ==
  ASSUME IInv, Next, TypeOK', \A i \in 1..Len(told) : told'[i] = told[i],
         NEW j \in 1..Len(told), told'[j].kind = "data"
  PROVE  /\ \A i \in 1..(j - 1) : told'[i].kind = "data" /\ told'[i].epoch = told'[j].epoch
                                    => told'[i].at < told'[j].at
         /\ \A n \in 1..(told'[j].at - 1) :
              made'[n].epoch = told'[j].epoch /\ made'[n].kind # "reset" =>
                \E i \in 1..(j - 1) :
                   \/ told'[i].kind = "data" /\ told'[i].epoch = told'[j].epoch /\ told'[i].at = n
                   \/ /\ told'[i].kind = "omitted" /\ told'[i].epoch = told'[j].epoch
                      /\ \A k \in i..j : told'[k].kind = "data" /\ told'[k].epoch = told'[j].epoch
                                           => n < told'[k].at
<1>1. /\ j \in DOMAIN told /\ Len(told) \in Nat /\ told'[j] = told[j]
      /\ \A i \in 1..j : i \in 1..Len(told)
  <2>2. Len(told) \in Nat /\ DOMAIN told = 1..Len(told)
    BY Lengths DEF IInv
  <2>3. \A i \in 1..j : i \in 1..Len(told)
    BY <2>2
  <2>. QED  BY <2>2, <2>3
<1>2. \A i \in 1..j : told'[i] = told[i]
  BY <1>1
<1>3. IsData(j) /\ InOrder(j) /\ HeardAll(j)
  BY <1>1, GapParts DEF IInv, IsData
<1>4. \A i \in 1..(j - 1) : i \in 1..j
  OBVIOUS
<1>5. \A i \in 1..(j - 1) : told'[i].kind = "data" /\ told'[i].epoch = told'[j].epoch
                               => told'[i].at < told'[j].at
  BY <1>1, <1>2, <1>3, <1>4 DEF InOrder, SameText, IsData
<1>6. ASSUME NEW n \in 1..(told'[j].at - 1), made'[n].epoch = told'[j].epoch, made'[n].kind # "reset"
      PROVE  \E i \in 1..(j - 1) :
               \/ told'[i].kind = "data" /\ told'[i].epoch = told'[j].epoch /\ told'[i].at = n
               \/ /\ told'[i].kind = "omitted" /\ told'[i].epoch = told'[j].epoch
                  /\ \A k \in i..j : told'[k].kind = "data" /\ told'[k].epoch = told'[j].epoch
                                       => n < told'[k].at
  <2>1. n \in 1..(told[j].at - 1)
    BY <1>1, <1>6
  <2>2. made'[n] = made[n]
    <3>1. told[j].at \in DOMAIN made
      BY <1>1, <1>3, ToldPlace
    <3>2. DOMAIN made = 1..Len(made) /\ Len(made) \in Nat
      BY MadeGrows
    <3>3. n \in DOMAIN made
      BY <2>1, <3>1, <3>2
    <3>. QED  BY <3>3, MadeGrows
  <2>3. made[n].epoch = told[j].epoch /\ made[n].kind # "reset"
    BY <1>1, <1>6, <2>2
  <2>4. PICK i \in 1..(j - 1) :
            \/ SameText(i, j) /\ told[i].at = n
            \/ /\ told[i].kind = "omitted" /\ told[i].epoch = told[j].epoch
               /\ \A k \in i..j : SameText(k, j) => n < told[k].at
    BY <1>3, <2>1, <2>3 DEF HeardAll
  <2>5. told'[i] = told[i] /\ told'[j] = told[j] /\ \A k \in i..j : told'[k] = told[k]
    <3>1. \A k \in i..j : k \in 1..j
      OBVIOUS
    <3>. QED  BY <1>1, <1>2, <1>4, <3>1
  <2>. QED  BY <2>4, <2>5 DEF SameText, IsData
<1>. QED  BY <1>5, <1>6

\* A step that tells no text.
LEMMA GapToldStays ==
  ASSUME IInv, Next, TypeOK', \A i \in 1..Len(told) : told'[i] = told[i],
         \A i \in DOMAIN told' : i \in 1..Len(told) \/ told'[i].kind # "data"
  PROVE  NoSilentGap'
<1>1. ASSUME NEW j \in DOMAIN told', told'[j].kind = "data" PROVE j \in 1..Len(told)
  BY <1>1
<1>. QED  BY <1>1, OldText, GapPartsNext

\* A text that is told: all before it was heard, or its omission was.
LEMMA NewText ==
  ASSUME IInv, Next, TypeOK', TellChunk
  PROVE  NoSilentGap'
<1>. DEFINE h == ui.chunks[1].at
            t == Len(told')
<1>1. /\ h \in Taken /\ Taken \subseteq Taken' \cup {h} /\ \A n \in Taken' : h < n
      /\ t \in Nat /\ t > Len(told)
      /\ \A i \in 1..Len(told) : told'[i] = told[i]
      /\ \A i \in DOMAIN told' : i \in 1..Len(told) \/ i = t \/ told'[i].kind = "reset"
      /\ told'[t].kind = "data" /\ told'[t].at = h /\ told'[t].epoch = interest
  BY TellEffect
<1>2. made' = made /\ interest' = interest
  BY DEF TellChunk, shared
<1>3. /\ DOMAIN told = 1..Len(told) /\ DOMAIN told' = 1..t /\ Len(told) \in Nat
      /\ DOMAIN made = 1..Len(made) /\ Len(made) \in Nat
  BY Lengths, LengthsNext DEF IInv
<1>4. h \in DOMAIN made /\ h <= Decided /\ h \in Nat /\ Decided \in Nat
  <2>1. h \in Kept
    BY <1>1 DEF Kept
  <2>2. h \in DOMAIN made /\ h <= Decided
    BY <2>1 DEF IInv, PlaceInv, OrderInv
  <2>3. h \in Nat
    BY <1>3, <2>2
  <2>. QED  BY <2>2, <2>3, DecidedTypes DEF IInv
<1>. HIDE DEF h, t
<1>5. ASSUME NEW i \in 1..(t - 1), told'[i].kind = "data", told'[i].epoch = interest
      PROVE  i \in 1..Len(told) /\ told'[i] = told[i] /\ told[i].at \in HeardNow /\ told[i].at < h
  <2>1. i \in 1..Len(told)
    BY <1>1, <1>3, <1>5
  <2>2. told'[i] = told[i] /\ i \in DOMAIN told
    BY <1>1, <1>3, <2>1
  <2>3. told[i].at \in HeardNow
    BY <1>5, <2>2 DEF HeardNow, IsData
  <2>. QED  BY <1>1, <2>1, <2>2, <2>3 DEF IInv, OrderInv
<1>6. ASSUME NEW n \in 1..(h - 1), made[n].epoch = interest, made[n].kind # "reset"
      PROVE  \E i \in 1..(t - 1) :
               \/ told'[i].kind = "data" /\ told'[i].epoch = interest /\ told'[i].at = n
               \/ /\ told'[i].kind = "omitted" /\ told'[i].epoch = interest
                  /\ \A k \in i..t : told'[k].kind = "data" /\ told'[k].epoch = interest
                                       => n < told'[k].at
  <2>1. n \in DOMAIN made /\ n <= Decided /\ n < h /\ n \in Nat
    BY <1>3, <1>4
  <2>2. \A i \in 1..Len(told) : i \in 1..(t - 1)
    BY <1>1, <1>3
  <2>3. n \notin Taken
    <3>1. n \in Taken => n \in Taken' \/ n = h
      BY <1>1
    <3>2. n \in Taken' => h < n
      BY <1>1
    <3>. QED  BY <1>4, <2>1, <3>1, <3>2
  <2>4. n \notin Retained
    <3>1. n \in Retained => h < n
      BY <1>1 DEF IInv, OrderInv
    <3>. QED  BY <1>4, <2>1, <3>1
  <2>5. CASE n \in TextTold
    <3>1. PICK i \in DOMAIN told : IsData(i) /\ told[i].at = n
      BY <2>5 DEF TextTold
    <3>2. told[i].epoch = interest
      BY <1>6, <3>1 DEF IInv, PlaceInv, EpochOf
    <3>3. told'[i] = told[i] /\ i \in 1..(t - 1)
      BY <1>1, <1>3, <2>2, <3>1
    <3>. QED  BY <3>1, <3>2, <3>3 DEF IsData
  <2>6. CASE n \notin TextTold
    <3>1. Missing(n)
      BY <1>6, <2>1, <2>3, <2>4, <2>6 DEF Missing, EpochOf, Kept
    <3>2. ToldOf(n) \/ ToTell(n) \/ Marked(n)
      BY <2>1, <3>1 DEF IInv, GapInv
    <3>3. ~(h < n)
      BY <1>4, <2>1
    <3>4. ~ToTell(n) /\ ~Marked(n)
      BY <1>1, <3>3 DEF ToTell, Marked
    <3>5. PICK i \in DOMAIN told :
            /\ told[i].kind = "omitted" /\ told[i].epoch = interest
            /\ \A k \in DOMAIN told :
                 k > i /\ IsData(k) /\ told[k].epoch = interest => n < told[k].at
      BY <3>2, <3>4 DEF ToldOf
    <3>6. told'[i] = told[i] /\ i \in 1..(t - 1) /\ i \in 1..Len(told)
      BY <1>1, <1>3, <2>2
    <3>7. ASSUME NEW k \in i..t, told'[k].kind = "data", told'[k].epoch = interest
          PROVE  n < told'[k].at
      <4>1. CASE k = t
        BY <1>1, <2>1, <4>1
      <4>2. CASE k # t
        <5>1. k \in 1..(t - 1)
          BY <1>1, <3>6, <4>2
        <5>2. k \in 1..Len(told) /\ told'[k] = told[k]
          BY <1>5, <3>7, <5>1
        <5>3. k # i
          BY <3>5, <3>7, <5>2
        <5>4. k > i /\ k \in DOMAIN told
          BY <1>3, <3>6, <5>2, <5>3
        <5>. QED  BY <3>5, <3>7, <5>2, <5>4 DEF IsData
      <4>. QED  BY <4>1, <4>2
    <3>8. told'[i].kind = "omitted" /\ told'[i].epoch = interest
      BY <3>5, <3>6
    <3>. QED  BY <3>6, <3>7, <3>8
  <2>. QED  BY <2>5, <2>6
<1>7. ASSUME NEW j \in DOMAIN told', told'[j].kind = "data", j # t
      PROVE  j \in 1..Len(told)
  BY <1>1, <1>7
<1>8. t \in DOMAIN told'
  BY <1>1, <1>3
<1>9. ASSUME NEW j \in DOMAIN told', told'[j].kind = "data"
      PROVE  /\ \A i \in 1..(j - 1) : told'[i].kind = "data" /\ told'[i].epoch = told'[j].epoch
                                        => told'[i].at < told'[j].at
             /\ \A n \in 1..(told'[j].at - 1) :
                  made'[n].epoch = told'[j].epoch /\ made'[n].kind # "reset" =>
                    \E i \in 1..(j - 1) :
                       \/ told'[i].kind = "data" /\ told'[i].epoch = told'[j].epoch /\ told'[i].at = n
                       \/ /\ told'[i].kind = "omitted" /\ told'[i].epoch = told'[j].epoch
                          /\ \A k \in i..j : told'[k].kind = "data" /\ told'[k].epoch = told'[j].epoch
                                               => n < told'[k].at
  <2>1. CASE j = t
    <3>1. told'[j].at = h /\ told'[j].epoch = interest
      BY <1>1, <2>1
    <3>2. \A i \in 1..(j - 1) : told'[i].kind = "data" /\ told'[i].epoch = told'[j].epoch
                                   => told'[i].at < told'[j].at
      BY <1>5, <2>1, <3>1
    <3>3. \A n \in 1..(told'[j].at - 1) : made'[n].epoch = told'[j].epoch /\ made'[n].kind # "reset"
             => n \in 1..(h - 1) /\ made[n].epoch = interest /\ made[n].kind # "reset"
      BY <1>2, <3>1
    <3>. QED  BY <1>6, <2>1, <3>1, <3>2, <3>3
  <2>2. CASE j # t
    BY <1>1, <1>7, <1>9, <2>2, OldText
  <2>. QED  BY <2>1, <2>2
<1>. QED  BY <1>9, GapPartsNext

\* Every action keeps the telling without silent gaps.
LEMMA NoGapKept ==
  ASSUME IInv, Next, TypeOK'
  PROVE  NoSilentGap'
<1>1. CASE TellChunk
  BY <1>1, NewText
<1>2. CASE TellEnd
  <2>1. /\ \A i \in 1..Len(told) : told'[i] = told[i]
        /\ \A i \in DOMAIN told' : i \in 1..Len(told) \/ told'[i].kind \in {"reset", "omitted"}
    BY <1>2, EndEffect
  <2>. QED  BY <2>1, GapToldStays
<1>3. CASE told' = told
  <2>1. \A i \in DOMAIN told' : i \in 1..Len(told)
    BY <1>3, Lengths DEF IInv
  <2>. QED  BY <1>3, <2>1, GapToldStays
<1>4. told' = told \/ TellChunk \/ TellEnd
  BY DEF Next, Reader, Ui, Capture, CheckEpoch, ReadPending, ReadCurrent, RemoveMark,
     TryLock, Fill,
         Mark, Claim, ReaderUnlocks, ReaderReturns, LoseInterest, TakeInterest, Empty, Unmark,
         BeginEpoch, Drain, Take, Swap, UiUnlocks
<1>. QED  BY <1>1, <1>2, <1>3, <1>4

\* The invariant holds when nobody has listened yet.
LEMMA InitIInv == Init => IInv
<1>. SUFFICES ASSUME Init PROVE IInv
  OBVIOUS
<1>1. /\ interest = 0 /\ pending = 0 /\ mutex = "free" /\ ring = <<>> /\ trailing = FALSE
      /\ reader.pc = "idle" /\ reader.at = "entry" /\ reader.epoch = 0
      /\ reader.parts = <<>> /\ ui.pc = "idle" /\ ui.chunks = <<>> /\ ~ui.omitted
      /\ made = <<>> /\ told = <<>>
  BY NothingIsParts DEF Init, Idle, Resting
<1>2. TypeOK
  <2>1. reader \in [pc : ReaderPcs, at : {"entry", "locked", "marking"},
                    epoch : Nat, seen : Nat, parts : Seq(Part)]
    BY NothingIsParts DEF Init, Idle, ReaderPcs
  <2>2. ui \in [pc : UiPcs, chunks : Seq(Chunk), reset : BOOLEAN, omitted : BOOLEAN]
    BY DEF Init, Resting, UiPcs
  <2>3. made \in Seq(Item) /\ told \in Seq(Telling) /\ ring \in Seq(Chunk)
    BY <1>1
  <2>. QED  BY <1>1, <2>1, <2>2, <2>3 DEF TypeOK, ReaderType
<1>3. Control
  BY <1>1 DEF Control, MutexInv, EpochInv, MarkInv, UiInv, AtInv, Checked, Between, Marking
<1>4. DOMAIN <<>> = {} /\ Len(<<>>) = 0
  OBVIOUS
<1>5. Taken = {} /\ Retained = {} /\ TextTold = {} /\ HeardNow = {} /\ Kept = {}
  BY <1>1, <1>4 DEF Taken, Retained, TextTold, HeardNow, Kept
<1>6. MadeInv /\ PartsInv
  BY <1>1, <1>4 DEF MadeInv, PartsInv
<1>7. PlaceInv /\ OrderInv
  BY <1>1, <1>4, <1>5 DEF PlaceInv, OrderInv
<1>8. LossInv /\ GapInv /\ NoSilentGap
  BY <1>1, <1>4 DEF LossInv, GapInv, NoSilentGap, Dropping, Marking
<1>. QED  BY <1>2, <1>3, <1>6, <1>7, <1>8 DEF IInv

\* Every step keeps the invariant.
LEMMA Inductive ==
  ASSUME IInv, [Next]_vars
  PROVE  IInv'
<1>1. CASE Next
  <2>1. TypeOK'
    BY <1>1, TypesKept
  <2>2. Control'
    BY <1>1, <2>1, MutexKept, EpochKept, MarkKept, UiKept, AtKept DEF Control
  <2>3. MadeInv' /\ PartsInv'
    BY <1>1, <2>1, MadeKept, PartsKept
  <2>4. PlaceInv' /\ OrderInv'
    BY <1>1, <2>1, PlaceKept
  <2>5. LossInv' /\ GapInv' /\ NoSilentGap'
    BY <1>1, <2>1, LossKept, GapKept, NoGapKept
  <2>. QED  BY <2>1, <2>2, <2>3, <2>4, <2>5 DEF IInv
<1>2. CASE UNCHANGED vars
  <2>1. /\ interest' = interest /\ pending' = pending /\ mutex' = mutex /\ ring' = ring
        /\ trailing' = trailing /\ reader' = reader /\ ui' = ui
        /\ made' = made /\ told' = told
    BY <1>2 DEF vars
  <2>2. TypeOK' /\ MadeInv' /\ PartsInv'
    BY <2>1 DEF IInv, TypeOK, ReaderType, MadeInv, EpochOf, PartsInv, LastPart, End
  <2>3. Control'
    BY <2>1 DEF IInv, Control, MutexInv, EpochInv, MarkInv, UiInv, AtInv, Checked, Between,
       Marking
  <2>4. /\ Taken' = Taken /\ Retained' = Retained /\ Kept' = Kept
        /\ TextTold' = TextTold /\ HeardNow' = HeardNow
    BY <2>1, SetsSame
  <2>5. Decided' = Decided /\ Dropping' = Dropping
    BY <2>1 DEF Decided, Marking, Dropping
  <2>6. PlaceInv' /\ OrderInv'
    BY <2>1, <2>4, <2>5 DEF IInv, PlaceInv, OrderInv, EpochOf, IsData
  <2>7. LossInv'
    BY <2>1, <2>4, <2>5 DEF IInv, LossInv, Lost, LostAt, EpochOf
  <2>8. GapInv'
    BY <2>1, <2>4, <2>5 DEF IInv, GapInv, Missing, ToldOf, ToTell, Marked, EpochOf, IsData
  <2>9. NoSilentGap'
    BY <2>1 DEF IInv, NoSilentGap, SameText, IsData
  <2>. QED  BY <2>2, <2>3, <2>6, <2>7, <2>8, <2>9 DEF IInv
<1>. QED  BY <1>1, <1>2

\* The invariant always holds.
LEMMA Always == Spec => []IInv
  BY InitIInv, Inductive, PTL DEF Spec

\* The text a session hears comes in the order it was printed, and whatever was
\* printed before it for the same session was heard, or an omission was told of
\* after which only newer text came: for any ring, any captures, and any number
\* of sessions and drains (push, drain and setInterested of the transport).
THEOREM NeverSilent == Spec => []NoSilentGap
<1>1. IInv => NoSilentGap
  BY DEF IInv
<1>. QED  BY <1>1, Always, PTL

\* A session hears of nothing captured for another, and is told of an omission
\* only if something of its own was lost (the interest epoch of the transport).
THEOREM OfItsEpoch == Spec => []TrueToEpoch
<1>1. ASSUME IInv PROVE TrueToEpoch
  <2>. SUFFICES ASSUME NEW j \in DOMAIN told
                PROVE  /\ IsData(j) => made[told[j].at].epoch = told[j].epoch
                       /\ told[j].kind = "omitted" =>
                            \E n \in DOMAIN made :
                               /\ made[n].epoch = told[j].epoch
                               /\ made[n].kind = "data" => n \notin TextTold \cup Retained
    BY DEF TrueToEpoch
  <2>1. IsData(j) => made[told[j].at].epoch = told[j].epoch
    BY <1>1 DEF IInv, PlaceInv, EpochOf
  <2>2. told[j].kind = "omitted" => Lost(told[j].epoch)
    BY <1>1 DEF IInv, LossInv
  <2>. QED  BY <2>1, <2>2 DEF Lost, LostAt, EpochOf, Kept
<1>. QED  BY <1>1, Always, PTL

-----------------------------------------------------------------------------
(* The resets.  A reset that was printed travels as a flag of the next chunk *)
(* that is kept, or as the trailing one, until the session is told.  Between *)
(* two texts that follow one another on their way there is a flag exactly    *)
(* where there was a reset, unless something between them was lost: then an  *)
(* omission travels there, too.                                              *)

\* What is kept is text; and what a drain leaves behind.
DataInv == \A n \in Kept : made[n].kind = "data"
LeftInv ==
    /\ ui.pc \in {"unmark", "unmark_on", "begin", "swap"} => ~trailing
    /\ ui.pc \notin {"swap", "unlock", "tell"} => ~ui.reset

\* A part that has a reset comes right behind it.
ResetParts ==
    /\ \A p \in DOMAIN reader.parts : reader.parts[p].reset =>
         /\ reader.parts[p].first \in DOMAIN made
         /\ made[reader.parts[p].first].kind = "reset"
         /\ EpochOf(reader.parts[p].first) = reader.epoch
    /\ Len(reader.parts) = 2 =>
         /\ reader.parts[2].reset
         /\ reader.parts[2].first = End(1) + 1

\* The last text told in the present epoch, 0 for none, and what was told since.
Latest(p) == /\ p \in 0..Len(told)
             /\ p # 0 => IsData(p) /\ told[p].epoch = interest
             /\ \A i \in DOMAIN told : IsData(i) /\ told[i].epoch = interest => i <= p
TextAt(p) == IF p = 0 THEN 0 ELSE told[p].at
Since(p, kind) ==
    \E i \in DOMAIN told : i > p /\ told[i].kind = kind /\ told[i].epoch = interest

\* A reset was printed for the present epoch between two items.
ResetIn(a, b) == \E n \in DOMAIN made : /\ a < n /\ n < b
                                        /\ EpochOf(n) = interest /\ made[n].kind = "reset"

\* Where the drain's part of the way ends, and the ring's, and what is under way
\* there behind the last text.
TakenEnd(p)   == IF ui.chunks = <<>> THEN TextAt(p) ELSE ui.chunks[Len(ui.chunks)].at
TakenReset(p) == ui.reset \/ (ui.chunks = <<>> /\ Since(p, "reset"))
TakenGap(p)   == ui.omitted \/ (ui.chunks = <<>> /\ Since(p, "omitted"))
RingEnd(p)    == IF ring = <<>> THEN TakenEnd(p) ELSE ring[Len(ring)].at
RingReset(p)  == trailing \/ (ring = <<>> /\ TakenReset(p))
Held          == pending = interest \/ (Dropping /\ reader.epoch = interest)
RingGap(p)    == Held \/ (ring = <<>> /\ TakenGap(p))

\* The first item that is not decided, the reset of a part included.
Frontier == IF Marking \/ reader.parts = <<>> THEN Len(made) + 1
            ELSE IF reader.parts[1].reset THEN reader.parts[1].first
            ELSE reader.parts[1].first + 1

Chain(s) == \A i \in DOMAIN s : i > 1 => (s[i].reset <=> ResetIn(s[i - 1].at, s[i].at))
FirstTaken(p) ==
    ui.chunks # <<>> /\ ~Since(p, "omitted") =>
        (ui.chunks[1].reset \/ Since(p, "reset") <=> ResetIn(TextAt(p), ui.chunks[1].at))
FirstKept(p) ==
    ring # <<>> /\ ~TakenGap(p) =>
        (ring[1].reset \/ TakenReset(p) <=> ResetIn(TakenEnd(p), ring[1].at))
AtEnd(p) == ~RingGap(p) => (RingReset(p) <=> ResetIn(RingEnd(p), Frontier))
Flow(p) == Chain(ui.chunks) /\ FirstTaken(p) /\ Chain(ring) /\ FirstKept(p) /\ AtEnd(p)
FlowInv == \E p \in 0..Len(told) : Latest(p) /\ (Listening => Flow(p))

\* What was told has a text before it, or none; and its resets are in place.
Prev(q, j) == /\ q \in 0..(j - 1)
              /\ q # 0 => SameText(q, j)
              /\ \A i \in 1..(j - 1) : SameText(i, j) => i <= q
SaidSince(q, j, kind) ==
    \E i \in (q + 1)..(j - 1) : told[i].epoch = told[j].epoch /\ told[i].kind = kind
ResetBefore(q, j) ==
    \E n \in (TextAt(q) + 1)..(told[j].at - 1) :
       made[n].epoch = told[j].epoch /\ made[n].kind = "reset"
InPlace(q, j) == ~SaidSince(q, j, "omitted") => (SaidSince(q, j, "reset") <=> ResetBefore(q, j))
ResetsTold == \A j \in DOMAIN told : IsData(j) => \E q \in 0..(j - 1) : Prev(q, j) /\ InPlace(q, j)

RInv == IInv /\ DataInv /\ LeftInv /\ ResetParts /\ FlowInv /\ ResetsTold

\* Where nothing is made or said there is what there was.
LEMMA ResetInStays ==
  ASSUME interest' = interest, made' = made
  PROVE  \A a, b : ResetIn(a, b)' <=> ResetIn(a, b)
  BY DEF ResetIn, EpochOf

LEMMA SaidStays ==
  ASSUME interest' = interest, told' = told
  PROVE  /\ \A p : Latest(p)' <=> Latest(p)
         /\ \A p : TextAt(p)' = TextAt(p)
         /\ \A p, kind : Since(p, kind)' <=> Since(p, kind)
  BY DEF Latest, TextAt, Since, IsData

\* What is decided is within what was made.
LEMMA FrontierTypes ==
  ASSUME TypeOK, PartsInv
  PROVE  Frontier \in Nat /\ Frontier <= Len(made) + 1
<1>1. Len(made) \in Nat /\ reader.parts \in Seq(Part)
  BY DEF TypeOK, ReaderType
<1>2. CASE Marking \/ reader.parts = <<>>
  BY <1>1, <1>2 DEF Frontier
<1>3. CASE ~Marking /\ reader.parts # <<>>
  <2>1. 1 \in DOMAIN reader.parts /\ reader.parts[1] \in Part
    BY <1>1, <1>3
  <2>2. End(1) <= Len(made)
    BY <2>1 DEF PartsInv
  <2>3. reader.parts[1].first \in Nat /\ reader.parts[1].first <= Len(made)
    BY <1>1, <2>1, <2>2 DEF End, Part
  <2>. QED  BY <1>1, <1>3, <2>3 DEF Frontier
<1>. QED  BY <1>2, <1>3

\* What a reader still holds of another epoch is no reset of the present one.
LEMMA Stale ==
  ASSUME TypeOK, PartsInv, ResetParts, reader.epoch # interest
  PROVE  \A a : ResetIn(a, Len(made) + 1) <=> ResetIn(a, Frontier)
<1>1. Len(made) \in Nat /\ DOMAIN made = 1..Len(made) /\ reader.parts \in Seq(Part)
  BY DEF TypeOK, ReaderType
<1>2. ASSUME NEW n \in DOMAIN made, ~(n < Frontier) PROVE EpochOf(n) # interest
  <2>1. ~Marking /\ reader.parts # <<>>
    BY <1>1, <1>2 DEF Frontier
  <2>2. 1 \in DOMAIN reader.parts /\ reader.parts[1] \in Part
    BY <1>1, <2>1
  <2>3. CASE n > reader.parts[1].first
    BY <2>1, <2>3 DEF PartsInv
  <2>4. CASE ~(n > reader.parts[1].first)
    <3>1. reader.parts[1].reset /\ n = reader.parts[1].first
      BY <1>1, <1>2, <2>1, <2>2, <2>4 DEF Frontier, Part
    <3>. QED  BY <2>2, <3>1 DEF ResetParts
  <2>. QED  BY <2>3, <2>4
<1>3. Frontier \in Nat /\ Frontier <= Len(made) + 1
  BY FrontierTypes
<1>4. \A n \in DOMAIN made : n < Len(made) + 1 /\ (n < Frontier => n < Len(made) + 1)
  BY <1>1, <1>3
<1>. QED  BY <1>2, <1>4 DEF ResetIn

\* The reader moves without filling: what is decided stays, or belongs to
\* another epoch, or is marked as lost.
LEMMA ReaderMoves ==
  ASSUME IInv, ResetParts, FlowInv,
         interest' = interest, ring' = ring, trailing' = trailing, made' = made, told' = told,
         ui'.chunks = ui.chunks, ui'.reset = ui.reset, ui'.omitted = ui.omitted,
         \/ Held'
         \/ Frontier' = Frontier /\ (Held => Held')
         \/ reader.epoch # interest /\ Frontier' = Len(made) + 1 /\ (Held => Held')
  PROVE  FlowInv'
<1>1. PICK p \in 0..Len(told) : Latest(p) /\ (Listening => Flow(p))
  BY DEF FlowInv
<1>2. Latest(p)' /\ p \in 0..Len(told')
  BY <1>1, SaidStays
<1>3. /\ Since(p, "reset")' <=> Since(p, "reset")
      /\ Since(p, "omitted")' <=> Since(p, "omitted")
      /\ TextAt(p)' = TextAt(p)
  BY SaidStays
<1>4. \A a, b : ResetIn(a, b)' <=> ResetIn(a, b)
  BY ResetInStays
<1>5. /\ TakenEnd(p)' = TakenEnd(p) /\ (TakenReset(p)' <=> TakenReset(p))
      /\ TakenGap(p)' <=> TakenGap(p)
      /\ RingEnd(p)' = RingEnd(p) /\ (RingReset(p)' <=> RingReset(p))
  BY <1>3 DEF TakenEnd, TakenReset, TakenGap, RingEnd, RingReset
<1>6. ASSUME Listening, ~RingGap(p)' PROVE RingReset(p)' <=> ResetIn(RingEnd(p), Frontier)'
  <2>1. ~Held' /\ ~RingGap(p)
    BY <1>5, <1>6 DEF RingGap
  <2>2. RingReset(p) <=> ResetIn(RingEnd(p), Frontier)
    BY <1>1, <1>6, <2>1 DEF Flow, AtEnd
  <2>3. ResetIn(RingEnd(p), Frontier') <=> ResetIn(RingEnd(p), Frontier)
    BY <2>1, Stale DEF IInv
  <2>4. ResetIn(RingEnd(p), Frontier)' <=> ResetIn(RingEnd(p), Frontier')
    BY <1>5, ResetInStays DEF ResetIn, EpochOf
  <2>. QED  BY <1>5, <2>2, <2>3, <2>4
<1>7. ASSUME Listening PROVE Flow(p)'
  <2>1. Chain(ui.chunks)' /\ Chain(ring)'
    BY <1>1, <1>4, <1>7 DEF Flow, Chain, ResetIn, EpochOf
  <2>2. FirstTaken(p)'
    BY <1>1, <1>3, <1>7 DEF Flow, FirstTaken, ResetIn, EpochOf
  <2>3. FirstKept(p)'
    BY <1>1, <1>5, <1>7 DEF Flow, FirstKept, ResetIn, EpochOf
  <2>4. AtEnd(p)'
    BY <1>6, <1>7 DEF AtEnd
  <2>. QED  BY <2>1, <2>2, <2>3, <2>4 DEF Flow
<1>8. Listening' <=> Listening
  BY DEF Listening
<1>. QED  BY <1>2, <1>7, <1>8 DEF FlowInv

\* The steps of the reader that capture nothing and fill nothing in.
LEMMA QuietFlow ==
  ASSUME IInv, ResetParts, FlowInv,
         CheckEpoch \/ ReadPending \/ ReadCurrent \/ RemoveMark \/ TryLock \/ Mark \/ Claim
           \/ ReaderUnlocks \/ ReaderReturns
  PROVE  FlowInv'
<1>. DEFINE Same == /\ interest' = interest /\ ring' = ring /\ trailing' = trailing
                    /\ ui' = ui /\ made' = made /\ told' = told
            Goes == \/ Held'
                    \/ Frontier' = Frontier /\ (Held => Held')
                    \/ /\ reader.epoch # interest /\ Frontier' = Len(made) + 1
                       /\ Held => Held'
<1>0. Control /\ interest \in Nat /\ pending \in Nat /\ reader.epoch \in Nat /\ reader.seen \in Nat
  BY ReaderTypes DEF IInv
<1>1. CASE CheckEpoch
  <2>1. Same /\ reader.pc = "check" /\ pending' = pending /\ reader.at # "marking"
    BY <1>0, <1>1, CheckEpochEffect DEF Control, AtInv
  <2>2. CASE Becomes("pending", reader.at, reader.parts)
    <3>1. Frontier' = Frontier /\ (Held => Held')
      BY <2>1, <2>2 DEF Becomes, Frontier, Marking, Dropping, Held
    <3>. QED  BY <2>1, <3>1, ReaderMoves
  <2>3. CASE interest # reader.epoch /\ Becomes(Finished, reader.at, <<>>)
    <3>1. Frontier' = Len(made) + 1 /\ (Held => Held')
      BY <2>1, <2>3 DEF Becomes, Frontier, Marking, Dropping, Held
    <3>. QED  BY <2>1, <2>3, <3>1, ReaderMoves
  <2>. QED  BY <1>1, <2>2, <2>3, CheckEpochEffect
<1>2. CASE ReadPending
  <2>1. Same /\ reader.pc = "pending" /\ pending' = pending
    BY <1>2, ReadPendingEffect
  <2>2. CASE Onward \/ Becomes("current", reader.at, reader.parts)
    <3>1. Frontier' = Frontier /\ (Held => Held')
      BY <2>1, <2>2 DEF Onward, Becomes, Frontier, Marking, Dropping, Held
    <3>. QED  BY <2>1, <3>1, ReaderMoves
  <2>3. CASE pending # 0 /\ pending = reader.epoch /\ Becomes(Finished, reader.at, <<>>)
    <3>1. CASE reader.epoch = interest
      BY <2>1, <2>3, <3>1, ReaderMoves DEF Held
    <3>2. CASE reader.epoch # interest
      <4>1. Frontier' = Len(made) + 1 /\ ~Held
        BY <2>1, <2>3, <3>2 DEF Becomes, Frontier, Held
      <4>. QED  BY <2>1, <3>2, <4>1, ReaderMoves
    <3>. QED  BY <3>1, <3>2
  <2>. QED  BY <1>2, <2>2, <2>3, ReadPendingEffect
<1>3. CASE ReadCurrent
  <2>1. Same /\ reader.pc = "current" /\ pending' = pending
    BY <1>3, ReadCurrentEffect
  <2>2. Onward \/ Becomes("remove", reader.at, reader.parts)
    BY <1>3, ReadCurrentEffect
  <2>3. Frontier' = Frontier /\ (Held => Held')
    BY <2>1, <2>2 DEF Onward, Becomes, Frontier, Marking, Dropping, Held
  <2>. QED  BY <2>1, <2>3, ReaderMoves
<1>4. CASE RemoveMark
  <2>1. Same /\ reader.pc = "remove" /\ Becomes("pending", reader.at, reader.parts)
        /\ (pending = reader.seen \/ pending' = pending)
    BY <1>4, RemoveMarkEffect
  <2>2. reader.seen < interest
    BY <1>0, <2>1 DEF Control, MarkInv, EpochInv
  <2>3. Frontier' = Frontier /\ (Held => Held')
    BY <1>0, <2>1, <2>2 DEF Becomes, Frontier, Marking, Dropping, Held
  <2>. QED  BY <2>1, <2>3, ReaderMoves
<1>5. CASE TryLock
  <2>1. Same /\ reader.pc = "try" /\ pending' = pending /\ reader.at = "entry"
    BY <1>0, <1>5, TryLockEffect DEF Control, MutexInv
  <2>2. CASE Becomes("check", "locked", reader.parts)
    <3>1. Frontier' = Frontier /\ (Held => Held')
      BY <2>1, <2>2 DEF Becomes, Frontier, Marking, Dropping, Held
    <3>. QED  BY <2>1, <3>1, ReaderMoves
  <2>3. CASE Becomes("mark", reader.at, reader.parts)
    <3>1. Frontier' = Len(made) + 1 /\ (Held => Held') /\ (reader.epoch = interest => Held')
      BY <2>1, <2>3 DEF Becomes, Frontier, Marking, Dropping, Held
    <3>. QED  BY <2>1, <3>1, ReaderMoves
  <2>. QED  BY <1>5, <2>2, <2>3, TryLockEffect
<1>6. CASE Mark
  <2>1. Same /\ reader.pc = "mark" /\ pending' = pending
    BY <1>6, MarkEffect
  <2>2. \/ interest = reader.epoch /\ Becomes("pending", "marking", reader.parts)
        \/ interest # reader.epoch /\ Becomes(Finished, reader.at, <<>>)
    BY <1>6, MarkEffect
  <2>3. Frontier' = Frontier /\ (Held => Held')
    BY <2>1, <2>2 DEF Becomes, Frontier, Marking, Dropping, Held
  <2>. QED  BY <2>1, <2>3, ReaderMoves
<1>7. CASE Claim
  <2>1. Same /\ reader.pc = "claim" /\ reader.epoch # 0 /\ reader.epoch <= interest
    BY <1>0, <1>7, ClaimEffect DEF Control, EpochInv
  <2>2. \/ pending = 0 /\ pending' = reader.epoch /\ Becomes(Finished, reader.at, <<>>)
        \/ pending' = pending /\ Becomes("mark", reader.at, reader.parts)
    BY <1>7, ClaimEffect
  <2>3. Frontier' = Frontier /\ (Held => Held')
    BY <1>0, <2>1, <2>2 DEF Becomes, Frontier, Marking, Dropping, Held
  <2>. QED  BY <2>1, <2>3, ReaderMoves
<1>8. CASE ReaderUnlocks
  <2>1. /\ Same /\ reader.pc = "unlock" /\ pending' = pending
        /\ reader' = [reader EXCEPT !.at = "entry",
                                    !.pc = IF reader.parts = <<>> THEN "done" ELSE "check"]
    BY <1>8 DEF ReaderUnlocks
  <2>2. reader'.at = "entry" /\ reader'.pc \in {"done", "check"} /\ reader'.parts = reader.parts
        /\ reader'.epoch = reader.epoch
    BY <2>1 DEF IInv, TypeOK, ReaderType
  <2>3. reader.at = "marking" => reader.parts = <<>>
    BY <1>0, <2>1 DEF Control, AtInv
  <2>4. Frontier' = Frontier /\ (Held => Held')
    BY <2>1, <2>2, <2>3 DEF Frontier, Marking, Dropping, Held
  <2>. QED  BY <2>1, <2>4, ReaderMoves
<1>9. CASE ReaderReturns
  <2>1. Same /\ reader.pc = "done" /\ pending' = pending /\ reader' = Idle
    BY <1>9 DEF ReaderReturns, shared
  <2>2. reader.parts = <<>> /\ reader'.parts = <<>>
    BY <1>0, <2>1, NothingIsParts DEF Control, AtInv, Idle
  <2>3. Frontier' = Frontier /\ (Held => Held')
    BY <2>1, <2>2 DEF Frontier, Dropping, Held
  <2>. QED  BY <2>1, <2>3, ReaderMoves
<1>. QED  BY <1>1, <1>2, <1>3, <1>4, <1>5, <1>6, <1>7, <1>8, <1>9

\* What is on its way is text that was made and decided.
LEMMA FlowTypes ==
  ASSUME IInv, NEW p, Latest(p)
  PROVE  /\ p \in Nat /\ TextAt(p) \in HeardNow \cup {0}
         /\ \A i \in DOMAIN ui.chunks : ui.chunks[i].at \in Taken
         /\ \A i \in DOMAIN ring : ring[i].at \in Retained
         /\ TakenEnd(p) \in HeardNow \cup Taken \cup {0}
         /\ RingEnd(p) \in HeardNow \cup Taken \cup Retained \cup {0}
         /\ \A a \in HeardNow \cup Taken \cup Retained \cup {0} :
              a \in Nat /\ a <= Decided /\ a <= Len(made) /\ a \in Kept \cup {0}
<1>1. /\ Len(told) \in Nat /\ DOMAIN told = 1..Len(told) /\ Len(made) \in Nat
      /\ ui.chunks \in Seq(Chunk) /\ ring \in Seq(Chunk)
  BY Lengths DEF IInv, TypeOK
<1>2. p \in Nat /\ (p # 0 => p \in DOMAIN told)
  BY <1>1 DEF Latest
<1>3. TextAt(p) \in HeardNow \cup {0}
  BY <1>2 DEF Latest, TextAt, HeardNow
<1>4. ui.chunks # <<>> => Len(ui.chunks) \in DOMAIN ui.chunks
  BY <1>1
<1>5. ring # <<>> => Len(ring) \in DOMAIN ring
  BY <1>1
<1>6. TakenEnd(p) \in HeardNow \cup Taken \cup {0}
  BY <1>3, <1>4 DEF TakenEnd, Taken
<1>7. RingEnd(p) \in HeardNow \cup Taken \cup Retained \cup {0}
  BY <1>5, <1>6 DEF RingEnd, Retained
<1>8. ASSUME NEW a \in HeardNow \cup Taken \cup Retained \cup {0}
      PROVE  a \in Nat /\ a <= Decided /\ a <= Len(made) /\ a \in Kept \cup {0}
  <2>1. Decided \in Nat /\ Decided <= Len(made)
    BY DecidedTypes DEF IInv
  <2>2. CASE a = 0
    BY <1>1, <2>1, <2>2
  <2>3. CASE a # 0
    <3>1. a \in Kept /\ a \in Nat
      BY <2>3, KeptTypes DEF IInv, Kept
    <3>2. a <= Decided
      BY <3>1 DEF IInv, OrderInv
    <3>. QED  BY <1>1, <2>1, <3>1, <3>2
  <2>. QED  BY <2>2, <2>3
<1>9. /\ \A i \in DOMAIN ui.chunks : ui.chunks[i].at \in Taken
      /\ \A i \in DOMAIN ring : ring[i].at \in Retained
  BY DEF Taken, Retained
<1>. QED  BY <1>2, <1>3, <1>6, <1>7, <1>8, <1>9

\* The domain of the chunks, and the one before.
LEMMA Before ==
  ASSUME TypeOK
  PROVE  /\ \A i \in DOMAIN ui.chunks : i > 1 => i - 1 \in DOMAIN ui.chunks
         /\ \A i \in DOMAIN ring : i > 1 => i - 1 \in DOMAIN ring
         /\ ui.chunks # <<>> => 1 \in DOMAIN ui.chunks
         /\ ring # <<>> => 1 \in DOMAIN ring
<1>1. ui.chunks \in Seq(Chunk) /\ ring \in Seq(Chunk)
  BY DEF TypeOK
<1>2. ASSUME NEW s \in Seq(Chunk)
      PROVE  /\ \A i \in DOMAIN s : i > 1 => i - 1 \in DOMAIN s
             /\ s # <<>> => 1 \in DOMAIN s
  OBVIOUS
<1>. QED  BY <1>1, <1>2

\* A capture is not decided yet.
LEMMA CaptureFlow ==
  ASSUME IInv, ResetParts, FlowInv, TypeOK', NEW c \in Captures, Capture(c)
  PROVE  FlowInv'
<1>1. PICK p \in 0..Len(told) : Latest(p) /\ (Listening => Flow(p))
  BY DEF FlowInv
<1>2. /\ interest' = interest /\ ring' = ring /\ trailing' = trailing /\ ui' = ui
      /\ told' = told /\ pending' = pending
      /\ reader.pc = "idle" /\ reader' = [Idle EXCEPT !.pc = "check", !.epoch = interest,
                                                      !.parts = Parts(c)]
  BY DEF Capture, shared
<1>3. reader.parts = <<>> /\ ~Marking
  BY <1>2 DEF IInv, Control, AtInv, Marking
<1>4. /\ Len(made) \in Nat /\ DOMAIN made = 1..Len(made)
      /\ \A n \in DOMAIN made : n \in DOMAIN made' /\ made'[n] = made[n]
      /\ \A n \in DOMAIN made' : n \notin DOMAIN made => ~(n < Len(made) + 1)
  <2>1. Next
    BY DEF Next, Reader
  <2>2. /\ Len(made) \in Nat /\ DOMAIN made = 1..Len(made) /\ DOMAIN made' = 1..Len(made')
        /\ \A n \in DOMAIN made : n \in DOMAIN made' /\ made'[n] = made[n]
        /\ Len(made') \in Nat
    BY <2>1, MadeGrows
  <2>3. \A n \in DOMAIN made' : n \notin DOMAIN made => ~(n < Len(made) + 1)
    BY <2>2
  <2>. QED  BY <2>2, <2>3
<1>5. Frontier = Len(made) + 1
  BY <1>3 DEF Frontier
<1>6. Frontier' = Len(made) + 1
  <2>1. reader'.parts = Parts(c) /\ reader'.pc = "check" /\ reader'.at = "entry"
    BY <1>2 DEF Idle
  <2>2. ~Marking' /\ Parts(c) # <<>>
    BY <2>1, PartsThere DEF Marking
  <2>3. Frontier' = IF Parts(c)[1].reset THEN Parts(c)[1].first ELSE Parts(c)[1].first + 1
    BY <2>1, <2>2 DEF Frontier
  <2>4. c.reset \in BOOLEAN /\ c.head \in Nat
    BY TransportAssumption DEF CaptureType
  <2>5. CASE c.head > 0
    <3>1. Parts(c)[1] = Push(Len(made), c.head, FALSE, FALSE)
      BY <2>5 DEF Parts
    <3>. QED  BY <2>3, <3>1 DEF Push
  <2>6. CASE ~(c.head > 0)
    <3>1. Parts(c)[1] = Push(Len(made) + Resets(c), c.tail, c.cut, c.reset)
      BY <2>6 DEF Parts
    <3>2. Parts(c)[1].first = Len(made) + Resets(c) /\ Parts(c)[1].reset = c.reset
      BY <3>1 DEF Push
    <3>. QED  BY <1>4, <2>3, <2>4, <3>2 DEF Resets
  <2>. QED  BY <2>5, <2>6
<1>7. \A a, b \in Nat : b <= Len(made) + 1 => (ResetIn(a, b)' <=> ResetIn(a, b))
  <2>. TAKE a, b \in Nat
  <2>. HAVE b <= Len(made) + 1
  <2>1. \A n \in DOMAIN made' : n < b /\ n \in Nat => n \in DOMAIN made
    BY <1>4
  <2>2. DOMAIN made' \subseteq Nat
    <3>1. made' \in Seq(Item)
      BY DEF TypeOK
    <3>. QED  BY <3>1
  <2>. QED  BY <1>2, <1>4, <2>1, <2>2 DEF ResetIn, EpochOf
<1>8. Latest(p)' /\ p \in 0..Len(told')
  BY <1>1, <1>2, SaidStays
<1>9. /\ Since(p, "reset")' <=> Since(p, "reset")
      /\ Since(p, "omitted")' <=> Since(p, "omitted")
      /\ TextAt(p)' = TextAt(p)
  BY <1>2, SaidStays
<1>10. /\ TakenEnd(p)' = TakenEnd(p) /\ (TakenReset(p)' <=> TakenReset(p))
       /\ TakenGap(p)' <=> TakenGap(p)
       /\ RingEnd(p)' = RingEnd(p) /\ (RingReset(p)' <=> RingReset(p))
  BY <1>2, <1>9 DEF TakenEnd, TakenReset, TakenGap, RingEnd, RingReset
<1>11. /\ TextAt(p) \in Nat /\ TakenEnd(p) \in Nat /\ RingEnd(p) \in Nat
       /\ \A i \in DOMAIN ui.chunks : ui.chunks[i].at \in Nat /\ ui.chunks[i].at <= Len(made) + 1
       /\ \A i \in DOMAIN ring : ring[i].at \in Nat /\ ring[i].at <= Len(made) + 1
  <2>1. \A a \in HeardNow \cup Taken \cup Retained \cup {0} : a \in Nat /\ a <= Len(made) + 1
    BY <1>1, <1>4, FlowTypes
  <2>. QED  BY <1>1, <2>1, FlowTypes
<1>12. ASSUME Listening PROVE Flow(p)'
  <2>1. Chain(ui.chunks)' /\ Chain(ring)'
    <3>1. ASSUME NEW s \in {ui.chunks, ring}, NEW i \in DOMAIN s, i > 1
          PROVE  s[i].reset <=> ResetIn(s[i - 1].at, s[i].at)'
      <4>1. i - 1 \in DOMAIN s
        BY <3>1, Before DEF IInv
      <4>2. ResetIn(s[i - 1].at, s[i].at)' <=> ResetIn(s[i - 1].at, s[i].at)
        BY <1>2, <1>7, <1>11, <3>1, <4>1
      <4>3. s[i].reset <=> ResetIn(s[i - 1].at, s[i].at)
        BY <1>1, <1>12, <3>1 DEF Flow, Chain
      <4>. QED  BY <4>2, <4>3
    <3>. QED  BY <1>2, <3>1 DEF Chain
  <2>2. FirstTaken(p)'
    <3>1. ui.chunks # <<>> =>
            (ResetIn(TextAt(p), ui.chunks[1].at)' <=> ResetIn(TextAt(p), ui.chunks[1].at))
      BY <1>2, <1>7, <1>9, <1>11, Before DEF IInv
    <3>. QED  BY <1>1, <1>2, <1>9, <1>12, <3>1 DEF Flow, FirstTaken
  <2>3. FirstKept(p)'
    <3>1. ring # <<>> =>
            (ResetIn(TakenEnd(p), ring[1].at)' <=> ResetIn(TakenEnd(p), ring[1].at))
      BY <1>2, <1>7, <1>10, <1>11, Before DEF IInv
    <3>. QED  BY <1>1, <1>2, <1>10, <1>12, <3>1 DEF Flow, FirstKept
  <2>4. AtEnd(p)'
    <3>1. ResetIn(RingEnd(p), Frontier)' <=> ResetIn(RingEnd(p), Frontier)
      BY <1>4, <1>5, <1>6, <1>7, <1>10, <1>11
    <3>2. RingGap(p) => RingGap(p)'
      BY <1>2, <1>3, <1>10 DEF RingGap, Held, Dropping
    <3>. QED  BY <1>1, <1>10, <1>12, <3>1, <3>2 DEF Flow, AtEnd
  <2>. QED  BY <2>1, <2>2, <2>3, <2>4 DEF Flow
<1>13. Listening' <=> Listening
  BY <1>2 DEF Listening
<1>. QED  BY <1>8, <1>12, <1>13 DEF FlowInv

\* What a fill adds to the ring: the first chunk says that a reset came before it.
Room(q) == IF Fits(q) > 0 THEN Fits(q) ELSE 0
LEMMA FillRing ==
  ASSUME IInv, TypeOK', Fill, NEW q, q = reader.parts[1], NEW g, g = Room(q)
  PROVE  /\ g \in Nat /\ q \in Part /\ g <= q.count /\ Len(ring) \in Nat
         /\ ring \in Seq(Chunk) /\ ring' \in Seq(Chunk) /\ Len(ring') = Len(ring) + g
         /\ \A i \in DOMAIN ring : i \in DOMAIN ring' /\ ring'[i] = ring[i]
         /\ \A i \in DOMAIN ring' : i \notin DOMAIN ring =>
              /\ i - Len(ring) \in 1..g
              /\ ring'[i].at = q.first + (i - Len(ring))
              /\ ring'[i].reset <=> i = Len(ring) + 1 /\ (q.reset \/ trailing)
<1>1. q \in Part /\ Head(reader.parts) = q /\ Fits(q) \in Int /\ Fits(q) <= q.count
  BY FillEffect DEF IInv, TypeOK, ReaderType
<1>2. q.count \in Nat /\ q.first \in Nat /\ q.reset \in BOOLEAN
  BY <1>1 DEF Part
<1>3. g \in Nat /\ g <= q.count /\ 1..Fits(q) = 1..g
  BY <1>1, <1>2 DEF Room
<1>. DEFINE new == Added(q)
<1>4. new \in Seq(Chunk) /\ Len(new) = g /\ \A i \in 1..g : new[i].at = q.first + i
  BY <1>1, <1>3, AddedChunks DEF IInv, Room
<1>5. \A i \in 1..g : new[i].reset <=> i = 1 /\ (q.reset \/ trailing)
  BY <1>3 DEF Added, ResetPending
<1>6. ring' = ring \o new /\ ring \in Seq(Chunk) /\ ring' \in Seq(Chunk)
  BY <1>1 DEF Fill, IInv, TypeOK
<1>. HIDE DEF new
<1>7. /\ Len(ring) \in Nat /\ Len(ring') = Len(ring) + g
      /\ DOMAIN ring = 1..Len(ring) /\ DOMAIN ring' = 1..(Len(ring) + g)
      /\ \A i \in 1..Len(ring) : ring'[i] = ring[i]
      /\ \A i \in 1..g : ring'[Len(ring) + i] = new[i]
  <2>1. /\ Len(ring \o new) = Len(ring) + Len(new) /\ Len(ring) \in Nat
        /\ \A i \in 1..Len(ring) : (ring \o new)[i] = ring[i]
        /\ \A i \in 1..Len(new) : (ring \o new)[Len(ring) + i] = new[i]
    BY <1>4, <1>6
  <2>2. DOMAIN ring = 1..Len(ring) /\ DOMAIN ring' = 1..Len(ring')
    BY <1>6
  <2>. QED  BY <1>4, <1>6, <2>1, <2>2
<1>8. ASSUME NEW i \in DOMAIN ring', i \notin DOMAIN ring
      PROVE  /\ i - Len(ring) \in 1..g
             /\ ring'[i].at = q.first + (i - Len(ring))
             /\ ring'[i].reset <=> i = Len(ring) + 1 /\ (q.reset \/ trailing)
  <2>. DEFINE k == i - Len(ring)
  <2>1. k \in 1..g /\ Len(ring) + k = i /\ (k = 1 <=> i = Len(ring) + 1)
    BY <1>3, <1>7, <1>8
  <2>. HIDE DEF k
  <2>2. ring'[i] = new[k]
    BY <1>7, <2>1
  <2>3. new[k].at = q.first + k /\ (new[k].reset <=> k = 1 /\ (q.reset \/ trailing))
    BY <1>4, <1>5, <2>1
  <2>4. /\ k \in 1..g /\ ring'[i].at = q.first + k
        /\ ring'[i].reset <=> i = Len(ring) + 1 /\ (q.reset \/ trailing)
    BY <2>1, <2>2, <2>3
  <2>. QED  BY <2>4 DEF k
<1>9. \A i \in DOMAIN ring : i \in DOMAIN ring' /\ ring'[i] = ring[i]
  BY <1>3, <1>7
<1>. QED  BY <1>1, <1>3, <1>6, <1>7, <1>8, <1>9

\* A part that was enqueued leaves the rest of its capture undecided.
LEMMA FillFrontier ==
  ASSUME IInv, ResetParts, TypeOK', Fill, NEW q, q = reader.parts[1]
  PROVE  \/ reader'.pc = "mark" /\ Dropping' /\ reader'.epoch = reader.epoch
         \/ /\ Fits(q) = q.count /\ Frontier' = q.first + q.count + 1
            /\ reader'.epoch = reader.epoch /\ ~Dropping'
<1>1. /\ reader.parts \in Seq(Part) /\ reader.parts # <<>> /\ q \in Part
      /\ Fits(q) \in Int /\ Fits(q) <= q.count /\ q = Head(reader.parts) /\ ~Marking
  BY FillEffect DEF IInv, TypeOK, ReaderType
<1>2. /\ made' = made /\ reader.at = "locked" /\ Len(made) \in Nat
  BY Lengths DEF Fill, IInv, Control, MutexInv
<1>3. CASE Fits(q) < q.count \/ q.cut
  <2>1. reader' = [reader EXCEPT !.pc = "mark"]
    BY <1>1, <1>3 DEF Fill, ReaderTo
  <2>2. reader'.pc = "mark" /\ reader'.epoch = reader.epoch
    BY <2>1 DEF IInv, TypeOK, ReaderType
  <2>. QED  BY <2>2 DEF Dropping, Marking
<1>4. CASE ~(Fits(q) < q.count \/ q.cut)
  <2>1. reader' = [reader EXCEPT !.pc = "unlock", !.parts = Tail(reader.parts)]
    BY <1>1, <1>4 DEF Fill
  <2>2. /\ reader'.pc = "unlock" /\ reader'.parts = Tail(reader.parts) /\ reader'.at = "locked"
        /\ reader'.epoch = reader.epoch
    BY <1>2, <2>1 DEF IInv, TypeOK, ReaderType
  <2>3. ~Marking' /\ ~Dropping'
    BY <2>2 DEF Marking, Dropping
  <2>4. Fits(q) = q.count /\ q.first \in Nat /\ q.count \in Nat /\ End(1) = q.first + q.count
    BY <1>1, <1>4 DEF Part, End
  <2>5. CASE Len(reader.parts) = 1
    <3>1. Tail(reader.parts) \in Seq(Part) /\ Len(Tail(reader.parts)) = 0
      BY <1>1, <2>5, TailOf
    <3>2. Tail(reader.parts) = <<>>
      BY <3>1, EmptySeq
    <3>3. LastPart(1)
      BY <1>1, <2>5 DEF IInv, PartsInv
    <3>4. End(1) = Len(made)
      BY <1>4, <3>3 DEF LastPart
    <3>. QED  BY <1>2, <2>2, <2>3, <2>4, <3>2, <3>4 DEF Frontier
  <2>6. CASE Len(reader.parts) = 2
    <3>1. /\ Tail(reader.parts) \in Seq(Part) /\ Len(Tail(reader.parts)) = 1
          /\ Tail(reader.parts)[1] = reader.parts[2]
      BY <1>1, <2>6, TailOf
    <3>2. Tail(reader.parts) # <<>>
      <4>. DEFINE s == Tail(reader.parts)
      <4>1. Len(s) = 1
        BY <3>1
      <4>. HIDE DEF s
      <4>2. s # <<>>
        BY <4>1
      <4>. QED  BY <4>2 DEF s
    <3>3. reader.parts[2].reset /\ reader.parts[2].first = End(1) + 1
      BY <2>6 DEF ResetParts
    <3>. QED  BY <2>2, <2>3, <2>4, <3>1, <3>2, <3>3 DEF Frontier
  <2>7. Len(reader.parts) \in {1, 2}
    <3>1. Len(reader.parts) # 0
      BY <1>1
    <3>. QED  BY <3>1 DEF IInv, PartsInv
  <2>. QED  BY <2>5, <2>6, <2>7
<1>. QED  BY <1>3, <1>4

\* The reset of a part lies behind everything that is kept.
LEMMA FillReset ==
  ASSUME IInv, DataInv, ResetParts, Fill, reader.epoch = interest, NEW q, q = reader.parts[1],
         NEW a \in HeardNow \cup Taken \cup Retained \cup {0}, TypeOK', \E p : Latest(p)
  PROVE  ResetIn(a, q.first + 1) <=> ResetIn(a, Frontier) \/ q.reset
<1>1. /\ reader.parts \in Seq(Part) /\ reader.parts # <<>> /\ q \in Part /\ ~Marking
      /\ Decided = q.first /\ 1 \in DOMAIN reader.parts
  BY FillEffect DEF IInv, TypeOK, ReaderType
<1>2. a \in Nat /\ a <= q.first /\ a \in Kept \cup {0} /\ q.first \in Nat /\ q.reset \in BOOLEAN
  BY <1>1, FlowTypes DEF Part
<1>3. CASE ~q.reset
  BY <1>1, <1>3 DEF Frontier
<1>4. CASE q.reset
  <2>1. /\ q.first \in DOMAIN made /\ made[q.first].kind = "reset" /\ EpochOf(q.first) = interest
    BY <1>1, <1>4 DEF ResetParts
  <2>2. a # q.first
    <3>1. DOMAIN made = 1..Len(made)
      BY Lengths DEF IInv
    <3>2. a = 0 \/ made[a].kind = "data"
      BY <1>2 DEF DataInv
    <3>. QED  BY <2>1, <3>1, <3>2
  <2>3. a < q.first /\ q.first < q.first + 1
    BY <1>2, <2>2
  <2>. QED  BY <1>4, <2>1, <2>3 DEF ResetIn
<1>. QED  BY <1>2, <1>3, <1>4

\* A fill puts the resets where they were printed.
LEMMA FillFlow ==
  ASSUME IInv, DataInv, ResetParts, FlowInv, TypeOK', Fill
  PROVE  FlowInv'
<1>1. PICK p \in 0..Len(told) : Latest(p) /\ (Listening => Flow(p))
  BY DEF FlowInv
<1>2. /\ interest' = interest /\ ui' = ui /\ told' = told /\ made' = made
      /\ pending' = pending /\ reader.pc = "fill"
  BY DEF Fill
<1>3. Latest(p)' /\ p \in 0..Len(told')
  BY <1>1, <1>2, SaidStays
<1>4. /\ Since(p, "reset")' <=> Since(p, "reset")
      /\ Since(p, "omitted")' <=> Since(p, "omitted")
      /\ TextAt(p)' = TextAt(p)
  BY <1>2, SaidStays
<1>5. \A a, b : ResetIn(a, b)' <=> ResetIn(a, b)
  BY <1>2, ResetInStays
<1>6. /\ TakenEnd(p)' = TakenEnd(p) /\ (TakenReset(p)' <=> TakenReset(p))
      /\ TakenGap(p)' <=> TakenGap(p)
  BY <1>2, <1>4 DEF TakenEnd, TakenReset, TakenGap
<1>. DEFINE q == reader.parts[1]
            g == Room(q)
            b == q.first
            l == Len(ring)
<1>7. /\ g \in Nat /\ q \in Part /\ g <= q.count /\ l \in Nat /\ b \in Nat
      /\ ring \in Seq(Chunk) /\ ring' \in Seq(Chunk) /\ Len(ring') = l + g
      /\ \A i \in DOMAIN ring : i \in DOMAIN ring' /\ ring'[i] = ring[i]
      /\ \A i \in DOMAIN ring' : i \notin DOMAIN ring =>
           /\ i - l \in 1..g
           /\ ring'[i].at = b + (i - l)
           /\ ring'[i].reset <=> i = l + 1 /\ (q.reset \/ trailing)
  <2>1. \A x, y : x = reader.parts[1] /\ y = Room(x) =>
          /\ y \in Nat /\ x \in Part /\ y <= x.count /\ Len(ring) \in Nat
          /\ ring \in Seq(Chunk) /\ ring' \in Seq(Chunk) /\ Len(ring') = Len(ring) + y
          /\ \A i \in DOMAIN ring : i \in DOMAIN ring' /\ ring'[i] = ring[i]
          /\ \A i \in DOMAIN ring' : i \notin DOMAIN ring =>
               /\ i - Len(ring) \in 1..y
               /\ ring'[i].at = x.first + (i - Len(ring))
               /\ ring'[i].reset <=> i = Len(ring) + 1 /\ (x.reset \/ trailing)
    BY FillRing
  <2>2. q = reader.parts[1] /\ g = Room(q) /\ b = q.first /\ l = Len(ring)
    OBVIOUS
  <2>. HIDE DEF q, g, b, l
  <2>3. b \in Nat
    BY <2>1, <2>2 DEF Part
  <2>4. \A i \in DOMAIN ring' : i \notin DOMAIN ring =>
           /\ i - l \in 1..g
           /\ ring'[i].at = b + (i - l)
           /\ ring'[i].reset <=> i = l + 1 /\ (q.reset \/ trailing)
    BY <2>1, <2>2
  <2>5. /\ g \in Nat /\ q \in Part /\ g <= q.count /\ l \in Nat
        /\ ring \in Seq(Chunk) /\ ring' \in Seq(Chunk) /\ Len(ring') = l + g
        /\ \A i \in DOMAIN ring : i \in DOMAIN ring' /\ ring'[i] = ring[i]
    BY <2>1, <2>2
  <2>. QED  BY <2>3, <2>4, <2>5
<1>8. ASSUME Listening PROVE reader.epoch = interest /\ ~Held
  <2>1. reader.at = "locked" /\ ~Marking
    BY <1>2, FillEffect DEF IInv, Control, MutexInv
  <2>2. interest % 2 = 1 /\ (ui.pc = "lock" => interest % 2 = 0)
    BY <1>8 DEF IInv, Control, EpochInv, Between, Listening
  <2>3. interest = reader.epoch \/ ui.pc = "lock"
    BY <1>2, <2>1 DEF IInv, Control, EpochInv, Checked
  <2>4. pending # reader.epoch
    BY <1>2 DEF IInv, Control, MarkInv
  <2>. QED  BY <2>1, <2>2, <2>3, <2>4 DEF Held, Dropping
<1>9. ASSUME Listening, NEW a \in {TakenEnd(p), RingEnd(p)}
      PROVE  ResetIn(a, b + 1) <=> ResetIn(a, Frontier) \/ q.reset
  <2>1. a \in HeardNow \cup Taken \cup Retained \cup {0}
    BY <1>1, FlowTypes
  <2>. QED  BY <1>1, <1>8, <1>9, <2>1, FillReset
<1>10. \A n \in Nat : ~ResetIn(n, n + 1)
  <2>1. DOMAIN made = 1..Len(made)
    BY Lengths DEF IInv
  <2>. QED  BY <2>1 DEF ResetIn
<1>. HIDE DEF q, g, b, l
<1>11. /\ DOMAIN ring = 1..l /\ DOMAIN ring' = 1..(l + g)
       /\ ring = <<>> <=> l = 0
       /\ ring' = <<>> <=> l + g = 0
  BY <1>7 DEF l
<1>12. ASSUME Listening PROVE Chain(ring)'
  <2>. SUFFICES ASSUME NEW i \in DOMAIN ring', i > 1
                PROVE  ring'[i].reset <=> ResetIn(ring'[i - 1].at, ring'[i].at)
    BY <1>5 DEF Chain
  <2>1. CASE i <= l
    <3>1. i \in DOMAIN ring /\ i - 1 \in DOMAIN ring
      BY <1>7, <1>11, <2>1
    <3>2. ring'[i] = ring[i] /\ ring'[i - 1] = ring[i - 1]
      BY <1>7, <3>1
    <3>. QED  BY <1>1, <1>12, <3>1, <3>2 DEF Flow, Chain
  <2>2. CASE i = l + 1
    <3>1. i \notin DOMAIN ring /\ i - l = 1 /\ l \in DOMAIN ring /\ l = i - 1 /\ ring # <<>>
      BY <1>7, <1>11, <2>2
    <3>2. ring'[i].at = b + 1 /\ (ring'[i].reset <=> q.reset \/ trailing)
      BY <1>7, <2>2, <3>1
    <3>3. ring'[i - 1].at = RingEnd(p)
      BY <1>7, <3>1 DEF RingEnd, l
    <3>4. ~RingGap(p) /\ (RingReset(p) <=> trailing)
      BY <1>8, <1>12, <3>1 DEF RingGap, RingReset
    <3>5. trailing <=> ResetIn(RingEnd(p), Frontier)
      BY <1>1, <1>12, <3>4 DEF Flow, AtEnd
    <3>. QED  BY <1>9, <1>12, <3>2, <3>3, <3>5
  <2>3. CASE i > l + 1
    <3>1. i \notin DOMAIN ring /\ i - 1 \notin DOMAIN ring /\ i - 1 \in DOMAIN ring' /\ i # l + 1
      BY <1>7, <1>11, <2>3
    <3>2. ring'[i].at = b + (i - l) /\ ring'[i - 1].at = b + ((i - 1) - l) /\ ~ring'[i].reset
      BY <1>7, <3>1
    <3>3. b + ((i - 1) - l) \in Nat /\ b + (i - l) = (b + ((i - 1) - l)) + 1
      BY <1>7, <1>11, <2>3
    <3>. QED  BY <1>10, <3>2, <3>3
  <2>. QED  BY <1>7, <1>11, <2>1, <2>2, <2>3
<1>13. ASSUME Listening PROVE FirstKept(p)'
  <2>. SUFFICES ASSUME ring' # <<>>, ~TakenGap(p)
                PROVE  ring'[1].reset \/ TakenReset(p) <=> ResetIn(TakenEnd(p), ring'[1].at)
    BY <1>5, <1>6 DEF FirstKept
  <2>1. CASE ring # <<>>
    <3>1. ring'[1] = ring[1]
      BY <1>7, <1>11, <2>1
    <3>. QED  BY <1>1, <1>13, <2>1, <3>1 DEF Flow, FirstKept
  <2>2. CASE ring = <<>>
    <3>1. l = 0 /\ 1 \in DOMAIN ring' /\ 1 \notin DOMAIN ring /\ 1 - l = 1 /\ 1 = l + 1
      BY <1>7, <1>11, <2>2
    <3>2. ring'[1].at = b + 1 /\ (ring'[1].reset <=> q.reset \/ trailing)
      BY <1>7, <3>1
    <3>3. ~RingGap(p) /\ RingEnd(p) = TakenEnd(p) /\ (RingReset(p) <=> trailing \/ TakenReset(p))
      BY <1>8, <1>13, <2>2 DEF RingGap, RingEnd, RingReset
    <3>4. trailing \/ TakenReset(p) <=> ResetIn(TakenEnd(p), Frontier)
      BY <1>1, <1>13, <3>3 DEF Flow, AtEnd
    <3>5. ResetIn(TakenEnd(p), b + 1) <=> ResetIn(TakenEnd(p), Frontier) \/ q.reset
      BY <1>9, <1>13
    <3>. QED  BY <3>2, <3>4, <3>5
  <2>. QED  BY <2>1, <2>2
<1>14. ASSUME Listening PROVE AtEnd(p)'
  <2>. SUFFICES ASSUME ~RingGap(p)'
                PROVE  RingReset(p)' <=> ResetIn(RingEnd(p)', Frontier')
    BY <1>2 DEF AtEnd, ResetIn, EpochOf
  <2>1. /\ Fits(q) = q.count /\ Frontier' = b + q.count + 1 /\ q.count \in Nat
    BY <1>2, <1>7, <1>8, <1>14, FillFrontier DEF q, b, RingGap, Held, Part
  <2>2. g = q.count
    BY <2>1 DEF g, Room
  <2>3. q = Head(reader.parts)
    BY FillEffect DEF IInv, TypeOK, ReaderType, q
  <2>4. CASE g = 0
    <3>1. ring' = ring
      <4>1. Len(ring') = Len(ring) /\ \A i \in 1..Len(ring) : ring'[i] = ring[i]
        BY <1>7, <1>11, <2>4 DEF l
      <4>. QED  BY <1>7, <4>1
    <3>2. trailing' <=> q.reset \/ trailing
      BY <2>2, <2>3, <2>4 DEF Fill, ResetPending
    <3>3. RingEnd(p)' = RingEnd(p) /\ (RingReset(p)' <=> q.reset \/ RingReset(p))
      BY <1>6, <3>1, <3>2 DEF RingEnd, RingReset
    <3>4. ~RingGap(p)
      BY <1>6, <1>8, <1>14, <3>1 DEF RingGap
    <3>5. RingReset(p) <=> ResetIn(RingEnd(p), Frontier)
      BY <1>1, <1>14, <3>4 DEF Flow, AtEnd
    <3>6. ResetIn(RingEnd(p), b + 1) <=> ResetIn(RingEnd(p), Frontier) \/ q.reset
      BY <1>9, <1>14
    <3>7. Frontier' = b + 1
      BY <1>7, <2>1, <2>2, <2>4
    <3>. QED  BY <3>3, <3>5, <3>6, <3>7
  <2>5. CASE g # 0
    <3>1. /\ ring' # <<>> /\ l + g \in DOMAIN ring' /\ l + g \notin DOMAIN ring
          /\ (l + g) - l = g
      BY <1>7, <1>11, <2>5
    <3>2. RingEnd(p)' = b + g
      BY <1>7, <3>1 DEF RingEnd
    <3>3. ~trailing'
      BY <2>1, <2>2, <2>3, <2>5 DEF Fill
    <3>4. ~RingReset(p)'
      BY <3>1, <3>3 DEF RingReset
    <3>5. b + g \in Nat /\ Frontier' = (b + g) + 1
      BY <1>7, <2>1, <2>2
    <3>. QED  BY <1>10, <3>2, <3>4, <3>5
  <2>. QED  BY <2>4, <2>5
<1>15. ASSUME Listening PROVE Flow(p)'
  <2>1. Chain(ui.chunks)'
    BY <1>1, <1>2, <1>5, <1>15 DEF Flow, Chain
  <2>2. FirstTaken(p)'
    BY <1>1, <1>2, <1>4, <1>5, <1>15 DEF Flow, FirstTaken
  <2>. QED  BY <1>12, <1>13, <1>14, <1>15, <2>1, <2>2 DEF Flow
<1>16. Listening' <=> Listening
  BY <1>2 DEF Listening
<1>. QED  BY <1>3, <1>15, <1>16 DEF FlowInv

\* When nobody listens, the last text is all there is to know.
LEMMA NobodyListens ==
  ASSUME FlowInv, interest' = interest, told' = told, ~Listening
  PROVE  FlowInv'
<1>1. PICK p \in 0..Len(told) : Latest(p)
  BY DEF FlowInv
<1>2. Latest(p)' /\ p \in 0..Len(told')
  BY <1>1, SaidStays
<1>3. ~Listening'
  BY DEF Listening
<1>. QED  BY <1>2, <1>3 DEF FlowInv

\* In an epoch that is new nothing has been made or said.
LEMMA NewEpochFlow ==
  ASSUME IInv, told' = told, made' = made, interest' = interest + 1
  PROVE  /\ Latest(0)' /\ 0 \in 0..Len(told')
         /\ \A kind : ~Since(0, kind)'
         /\ \A a, b : ~ResetIn(a, b)'
<1>1. interest \in Nat /\ Len(told) \in Nat /\ made \in Seq(Item)
  BY Lengths DEF IInv, TypeOK
<1>2. \A i \in DOMAIN told : told[i].epoch # interest'
  <2>1. \A i \in DOMAIN told : told[i] \in Telling /\ told[i].epoch <= interest
    BY DEF IInv, TypeOK, MadeInv
  <2>. QED  BY <1>1, <2>1 DEF Telling
<1>3. \A n \in DOMAIN made : made[n].epoch # interest'
  <2>1. \A n \in DOMAIN made : made[n] \in Item /\ made[n].epoch <= interest
    BY <1>1 DEF IInv, MadeInv, EpochOf
  <2>. QED  BY <1>1, <2>1 DEF Item
<1>4. Latest(0)'
  BY <1>1, <1>2 DEF Latest
<1>5. \A kind : ~Since(0, kind)'
  BY <1>2 DEF Since
<1>6. \A a, b : ~ResetIn(a, b)'
  BY <1>3 DEF ResetIn, EpochOf
<1>. QED  BY <1>1, <1>4, <1>5, <1>6

\* What is told with a chunk: its reset, if it has one, and its text.
LEMMA TellLength ==
  ASSUME IInv, TypeOK', TellChunk
  PROVE  /\ ui.chunks[1].reset =>
              /\ Len(told') = Len(told) + 2
              /\ told'[Len(told) + 1].kind = "reset" /\ told'[Len(told) + 1].epoch = interest
         /\ ~ui.chunks[1].reset => Len(told') = Len(told) + 1
<1>1. /\ ui.chunks \in Seq(Chunk) /\ ui.chunks # <<>>
      /\ interest \in Nat /\ told \in Seq(Telling)
  BY DEF TellChunk, IInv, TypeOK
<1>. DEFINE c == ui.chunks[1]
            mid == Say(told, c.reset, "reset", 0)
<1>2. c \in Chunk /\ c = Head(ui.chunks)
  BY <1>1
<1>3. c.reset \in BOOLEAN /\ c.at \in Nat
  BY <1>2 DEF Chunk
<1>4. told' = Say(mid, TRUE, "data", c.at)
  BY <1>2 DEF TellChunk
<1>. HIDE DEF c
<1>5. /\ mid \in Seq(Telling)
      /\ Len(mid) = IF c.reset THEN Len(told) + 1 ELSE Len(told)
      /\ c.reset => mid[Len(told) + 1].kind = "reset" /\ mid[Len(told) + 1].epoch = interest
  BY <1>1, <1>3, SayGrows
<1>. HIDE DEF mid
<1>6. Len(told') = Len(mid) + 1 /\ \A i \in 1..Len(mid) : told'[i] = mid[i]
  <2>. DEFINE new == Say(mid, TRUE, "data", c.at)
  <2>1. Len(new) = Len(mid) + 1 /\ \A i \in 1..Len(mid) : new[i] = mid[i]
    BY <1>1, <1>3, <1>5, SayText
  <2>2. told' = new
    BY <1>4
  <2>. HIDE DEF new
  <2>. QED  BY <2>1, <2>2
<1>7. Len(told) \in Nat
  BY <1>1
<1>8. CASE c.reset
  <2>1. Len(mid) = Len(told) + 1 /\ Len(told) + 1 \in 1..Len(mid)
    BY <1>5, <1>7, <1>8
  <2>2. told'[Len(told) + 1] = mid[Len(told) + 1] /\ Len(told') = Len(told) + 2
    BY <1>6, <1>7, <2>1
  <2>. QED  BY <1>5, <1>8, <2>2 DEF c
<1>9. CASE ~c.reset
  BY <1>5, <1>6, <1>9 DEF c
<1>. QED  BY <1>8, <1>9

\* What is told at the end of a drain: its last reset, if there is one.
LEMMA EndResets ==
  ASSUME IInv, TypeOK', TellEnd
  PROVE  \/ /\ ui.reset
            /\ \E i \in DOMAIN told' : /\ i \notin DOMAIN told
                                       /\ told'[i].kind = "reset" /\ told'[i].epoch = interest
         \/ /\ ~ui.reset
            /\ \A i \in DOMAIN told' : i \notin DOMAIN told => told'[i].kind # "reset"
<1>1. /\ interest \in Nat /\ told \in Seq(Telling) /\ told' \in Seq(Telling)
      /\ ui.reset \in BOOLEAN /\ ui.omitted \in BOOLEAN
  BY DEF TellEnd, IInv, TypeOK
<1>. DEFINE mid == Say(told, ui.reset, "reset", 0)
<1>2. told' = Say(mid, ui.omitted, "omitted", 0)
  BY DEF TellEnd
<1>3. /\ mid \in Seq(Telling)
      /\ Len(mid) = IF ui.reset THEN Len(told) + 1 ELSE Len(told)
      /\ ui.reset => mid[Len(told) + 1].kind = "reset" /\ mid[Len(told) + 1].epoch = interest
  BY ONLY <1>1, SayGrows
<1>. HIDE DEF mid
<1>4. /\ Len(told') = (IF ui.omitted THEN Len(mid) + 1 ELSE Len(mid))
      /\ \A i \in 1..Len(mid) : told'[i] = mid[i]
      /\ ui.omitted => told'[Len(mid) + 1].kind = "omitted" /\ told'[Len(mid) + 1].epoch = interest
  BY <1>1, <1>2, <1>3, SayGrows
<1>5. /\ Len(told) \in Nat /\ Len(mid) \in Nat
      /\ DOMAIN told = 1..Len(told) /\ DOMAIN told' = 1..Len(told')
  BY <1>1, <1>3
<1>6. CASE ui.reset
  <2>. DEFINE i == Len(told) + 1
  <2>1. i \in 1..Len(mid) /\ i \in DOMAIN told' /\ i \notin DOMAIN told
    BY <1>3, <1>4, <1>5, <1>6
  <2>2. told'[i] = mid[i] /\ mid[i].kind = "reset" /\ mid[i].epoch = interest
    BY <1>3, <1>4, <1>6, <2>1
  <2>. HIDE DEF i
  <2>. QED  BY <1>6, <2>1, <2>2
<1>7. CASE ~ui.reset
  <2>1. ASSUME NEW i \in DOMAIN told', i \notin DOMAIN told PROVE told'[i].kind # "reset"
    <3>1. ui.omitted /\ i = Len(mid) + 1
      BY <1>3, <1>4, <1>5, <1>7, <2>1
    <3>. QED  BY <1>4, <3>1
  <2>. QED  BY <1>7, <2>1
<1>. QED  BY <1>6, <1>7

\* The way behind what the session is told: it is unmoved as long as the drain's
\* part of it ends where it did, and what is under way there with it.
LEMMA RestOfWay ==
  ASSUME Listening, interest' = interest, made' = made, ring' = ring, trailing' = trailing,
         reader' = reader, NEW p, NEW q, Flow(p),
         TakenEnd(q)' = TakenEnd(p), TakenReset(q)' <=> TakenReset(p),
         TakenGap(p) => TakenGap(q)',
         Held => Held' \/ (ring = <<>> /\ TakenGap(q)')
  PROVE  Chain(ring)' /\ FirstKept(q)' /\ AtEnd(q)'
<1>1. \A a, b : ResetIn(a, b)' <=> ResetIn(a, b)
  BY ResetInStays
<1>2. Frontier' = Frontier
  BY DEF Frontier, Marking
<1>3. RingEnd(q)' = RingEnd(p) /\ (RingReset(q)' <=> RingReset(p)) /\ (RingGap(p) => RingGap(q)')
  BY DEF RingEnd, RingReset, RingGap
<1>4. Chain(ring)'
  BY DEF Flow, Chain, ResetIn, EpochOf
<1>5. FirstKept(q)'
  BY DEF Flow, FirstKept, ResetIn, EpochOf
<1>6. AtEnd(q)'
  BY <1>2, <1>3 DEF Flow, AtEnd, ResetIn, EpochOf
<1>. QED  BY <1>4, <1>5, <1>6

\* The steps of the UI thread that move nothing on its way: a drain begins, it
\* looks for the mark, and it gives the mutex back.
LEMMA IdleFlow ==
  ASSUME IInv, LeftInv, FlowInv, Drain \/ Swap \/ UiUnlocks
  PROVE  FlowInv'
<1>1. PICK p \in 0..Len(told) : Latest(p) /\ (Listening => Flow(p))
  BY DEF FlowInv
<1>2. /\ interest' = interest /\ ring' = ring /\ trailing' = trailing /\ made' = made
      /\ told' = told /\ reader' = reader
  BY DEF Drain, Swap, UiUnlocks, shared
<1>3. Latest(p)' /\ p \in 0..Len(told')
  BY <1>1, <1>2, SaidStays
<1>4. /\ Since(p, "reset")' <=> Since(p, "reset")
      /\ Since(p, "omitted")' <=> Since(p, "omitted")
      /\ TextAt(p)' = TextAt(p)
  BY <1>2, SaidStays
<1>5. ui'.chunks = ui.chunks /\ ui'.reset = ui.reset
  <2>1. ui \in [pc : UiPcs, chunks : Seq(Chunk), reset : BOOLEAN, omitted : BOOLEAN]
    BY DEF IInv, TypeOK
  <2>2. CASE Drain
    BY <2>1, <2>2 DEF Drain, UiTo
  <2>3. CASE Swap
    BY <2>1, <2>3 DEF Swap
  <2>4. CASE UiUnlocks
    BY <2>1, <2>4 DEF UiUnlocks, Resting
  <2>. QED  BY <2>2, <2>3, <2>4
<1>6. /\ ui.omitted => ui'.omitted
      /\ Held => Held' \/ (ring = <<>> /\ ui'.omitted)
  <2>1. ui \in [pc : UiPcs, chunks : Seq(Chunk), reset : BOOLEAN, omitted : BOOLEAN]
    BY DEF IInv, TypeOK
  <2>2. CASE Drain
    <3>1. pending' = pending /\ ui'.omitted = ui.omitted
      BY <2>1, <2>2 DEF Drain, UiTo, shared
    <3>. QED  BY <1>2, <3>1 DEF Held, Dropping, Marking
  <2>3. CASE Swap
    <3>1. ui.pc = "swap" /\ ring = <<>> /\ ~ui.omitted
      BY <2>3 DEF Swap, IInv, Control, UiInv
    <3>2. ui'.omitted <=> pending = interest
      BY <2>1, <2>3 DEF Swap
    <3>. QED  BY <1>2, <3>1, <3>2 DEF Held, Dropping, Marking
  <2>4. CASE UiUnlocks
    <3>1. pending' = pending /\ ui'.omitted = ui.omitted
      BY <2>1, <2>4 DEF UiUnlocks, Resting
    <3>. QED  BY <1>2, <3>1 DEF Held, Dropping, Marking
  <2>. QED  BY <2>2, <2>3, <2>4
<1>7. /\ TakenEnd(p)' = TakenEnd(p) /\ (TakenReset(p)' <=> TakenReset(p))
      /\ TakenGap(p) => TakenGap(p)'
      /\ Held => Held' \/ (ring = <<>> /\ TakenGap(p)')
  BY <1>4, <1>5, <1>6 DEF TakenEnd, TakenReset, TakenGap
<1>8. ASSUME Listening PROVE Flow(p)'
  <2>1. Chain(ring)' /\ FirstKept(p)' /\ AtEnd(p)'
    BY <1>1, <1>2, <1>7, <1>8, RestOfWay
  <2>2. Chain(ui.chunks)' /\ FirstTaken(p)'
    BY <1>1, <1>2, <1>4, <1>5, <1>8 DEF Flow, Chain, FirstTaken, ResetIn, EpochOf
  <2>. QED  BY <2>1, <2>2 DEF Flow
<1>9. Listening' <=> Listening
  BY <1>2 DEF Listening
<1>. QED  BY <1>3, <1>8, <1>9 DEF FlowInv

\* A drain takes the ring as it is.
LEMMA TakeFlow ==
  ASSUME IInv, LeftInv, FlowInv, Take
  PROVE  FlowInv'
<1>1. PICK p \in 0..Len(told) : Latest(p) /\ (Listening => Flow(p))
  BY DEF FlowInv
<1>2. /\ interest' = interest /\ made' = made /\ told' = told /\ reader' = reader
      /\ pending' = pending /\ ring' = <<>> /\ trailing' = FALSE
      /\ ui.pc = "drain" /\ ui' = [pc |-> "swap", chunks |-> ring, reset |-> trailing,
                                   omitted |-> FALSE]
  BY DEF Take
<1>3. ui'.chunks = ring /\ ui'.reset = trailing /\ ~ui'.omitted
  BY <1>2
<1>4. ui.chunks = <<>> /\ ~ui.omitted /\ ~ui.reset
  BY <1>2 DEF IInv, Control, UiInv, LeftInv
<1>5. Latest(p)' /\ p \in 0..Len(told')
  BY <1>1, <1>2, SaidStays
<1>6. /\ Since(p, "reset")' <=> Since(p, "reset")
      /\ Since(p, "omitted")' <=> Since(p, "omitted")
      /\ TextAt(p)' = TextAt(p)
  BY <1>2, SaidStays
<1>7. /\ TakenEnd(p) = TextAt(p) /\ (TakenReset(p) <=> Since(p, "reset"))
      /\ TakenGap(p) <=> Since(p, "omitted")
  BY <1>4 DEF TakenEnd, TakenReset, TakenGap
<1>8. RingEnd(p)' = RingEnd(p) /\ (RingReset(p)' <=> RingReset(p))
  BY <1>2, <1>3, <1>6, <1>7 DEF RingEnd, RingReset, TakenEnd, TakenReset
<1>9. RingGap(p) => RingGap(p)'
  BY <1>2, <1>3, <1>6, <1>7 DEF RingGap, TakenGap, Held, Dropping, Marking
<1>10. Frontier' = Frontier
  BY <1>2 DEF Frontier, Marking
<1>11. ASSUME Listening PROVE Flow(p)'
  <2>1. Chain(ui.chunks)'
    BY <1>1, <1>2, <1>3, <1>11 DEF Flow, Chain, ResetIn, EpochOf
  <2>2. FirstTaken(p)'
    BY <1>1, <1>2, <1>3, <1>6, <1>7, <1>11 DEF Flow, FirstTaken, FirstKept, ResetIn, EpochOf
  <2>3. Chain(ring)' /\ FirstKept(p)'
    <3>1. DOMAIN <<>> = {}
      OBVIOUS
    <3>. QED  BY <1>2, <3>1 DEF Chain, FirstKept
  <2>4. AtEnd(p)'
    BY <1>1, <1>2, <1>8, <1>9, <1>10, <1>11 DEF Flow, AtEnd, ResetIn, EpochOf
  <2>. QED  BY <2>1, <2>2, <2>3, <2>4 DEF Flow
<1>12. Listening' <=> Listening
  BY <1>2 DEF Listening
<1>. QED  BY <1>5, <1>11, <1>12 DEF FlowInv

\* A chunk is told: what was behind it is now behind what was told.
LEMMA TellFlow ==
  ASSUME IInv, FlowInv, TypeOK', TellChunk
  PROVE  FlowInv'
<1>1. PICK p \in 0..Len(told) : Latest(p) /\ (Listening => Flow(p))
  BY DEF FlowInv
<1>2. /\ interest' = interest /\ ring' = ring /\ trailing' = trailing /\ made' = made
      /\ reader' = reader /\ pending' = pending /\ ui.chunks # <<>>
  BY DEF TellChunk, shared
<1>. DEFINE s == ui.chunks
            r == Tail(s)
            c == s[1]
<1>3. /\ s \in Seq(Chunk) /\ Len(s) \in Nat /\ Len(s) > 0 /\ DOMAIN s = 1..Len(s)
      /\ r \in Seq(Chunk) /\ Len(r) = Len(s) - 1 /\ DOMAIN r = 1..(Len(s) - 1)
      /\ \A i \in 1..(Len(s) - 1) : r[i] = s[i + 1]
  BY <1>2 DEF IInv, TypeOK
<1>4. ui'.chunks = r /\ ui'.reset = ui.reset /\ ui'.omitted = ui.omitted
  BY DEF TellChunk, IInv, TypeOK
<1>5. /\ Len(told') \in Nat /\ Len(told') > Len(told) /\ Len(told) \in Nat
      /\ DOMAIN told' = 1..Len(told')
      /\ told'[Len(told')].kind = "data" /\ told'[Len(told')].at = c.at
      /\ told'[Len(told')].epoch = interest
  BY TellEffect, Lengths, LengthsNext DEF IInv
<1>6. PICK q : q \in 0..Len(told') /\ q = Len(told')
  <2>1. Len(told') \in 0..Len(told')
    BY <1>5
  <2>. QED  BY <2>1
<1>7. Latest(q)' /\ TextAt(q)' = c.at /\ q # 0
  <2>1. q # 0 /\ q = Len(told')
    BY <1>5, <1>6
  <2>2. \A i \in DOMAIN told' : i <= q
    BY <1>5, <2>1
  <2>3. told'[q].kind = "data" /\ told'[q].at = c.at /\ told'[q].epoch = interest'
    BY <1>2, <1>5, <2>1
  <2>. HIDE DEF c
  <2>. QED  BY <2>1, <2>2, <2>3 DEF Latest, TextAt, IsData
<1>8. ~Since(q, "reset")' /\ ~Since(q, "omitted")'
  <2>1. \A i \in DOMAIN told' : ~(i > q)
    BY <1>5, <1>6
  <2>. QED  BY <2>1 DEF Since
<1>. HIDE DEF s, r, c
<1>9. r = <<>> <=> Len(s) = 1
  <2>1. r = <<>> <=> Len(r) = 0
    <3>1. Len(r) = 0 => r = <<>>
      BY <1>3, EmptySeq
    <3>2. r = <<>> => Len(r) = 0
      OBVIOUS
    <3>. QED  BY <3>1, <3>2
  <2>. QED  BY <1>3, <2>1
<1>10. TakenEnd(q)' = TakenEnd(p)
  <2>1. TakenEnd(p) = s[Len(s)].at
    BY <1>2 DEF TakenEnd, s
  <2>2. CASE Len(s) = 1
    BY <1>4, <1>7, <1>9, <2>1, <2>2 DEF TakenEnd, c
  <2>3. CASE Len(s) # 1
    <3>1. Len(s) - 1 \in 1..(Len(s) - 1) /\ (Len(s) - 1) + 1 = Len(s)
      BY <1>3, <2>3
    <3>2. r[Len(r)] = s[Len(s)]
      BY <1>3, <3>1
    <3>. QED  BY <1>4, <1>9, <2>1, <2>3, <3>2 DEF TakenEnd
  <2>. QED  BY <2>2, <2>3
<1>11. /\ TakenReset(q)' <=> TakenReset(p)
       /\ TakenGap(q)' <=> TakenGap(p)
  BY <1>2, <1>4, <1>8 DEF TakenReset, TakenGap
<1>12. Held => Held'
  BY <1>2 DEF Held, Dropping, Marking
<1>13. ASSUME Listening PROVE Flow(q)'
  <2>1. Chain(ring)' /\ FirstKept(q)' /\ AtEnd(q)'
    BY <1>1, <1>2, <1>10, <1>11, <1>12, <1>13, RestOfWay
  <2>2. \A i \in 1..Len(s) : i > 1 => (s[i].reset <=> ResetIn(s[i - 1].at, s[i].at))
    BY <1>1, <1>3, <1>13 DEF Flow, Chain, s
  <2>3. \A i \in 1..(Len(s) - 1) : i + 1 \in 1..Len(s) /\ i + 1 > 1 /\ (i + 1) - 1 = i
    BY <1>3
  <2>4. \A i \in 1..(Len(s) - 1) : r[i].reset <=> ResetIn(s[i].at, r[i].at)
    <3>. TAKE i \in 1..(Len(s) - 1)
    <3>1. PICK k : k = i + 1
      OBVIOUS
    <3>2. k \in 1..Len(s) /\ k > 1 /\ k - 1 = i /\ r[i] = s[k]
      BY <1>3, <2>3, <3>1
    <3>. QED  BY <2>2, <3>2
  <2>5. Chain(ui.chunks)'
    <3>. SUFFICES ASSUME NEW i \in DOMAIN r, i > 1
                  PROVE  r[i].reset <=> ResetIn(r[i - 1].at, r[i].at)
      BY <1>2, <1>4 DEF Chain, ResetIn, EpochOf
    <3>1. i \in 1..(Len(s) - 1) /\ i - 1 \in 1..(Len(s) - 1) /\ (i - 1) + 1 = i
      BY <1>3
    <3>2. r[i - 1] = s[i]
      BY <1>3, <3>1
    <3>. QED  BY <2>4, <3>1, <3>2
  <2>6. FirstTaken(q)'
    <3>. SUFFICES ASSUME r # <<>>
                  PROVE  r[1].reset <=> ResetIn(c.at, r[1].at)
      BY <1>2, <1>4, <1>7, <1>8 DEF FirstTaken, ResetIn, EpochOf
    <3>1. 1 \in 1..(Len(s) - 1)
      BY <1>3, <1>9
    <3>. QED  BY <2>4, <3>1 DEF c
  <2>. QED  BY <2>1, <2>5, <2>6 DEF Flow
<1>14. Listening' <=> Listening
  BY <1>2 DEF Listening
<1>. QED  BY <1>6, <1>7, <1>13, <1>14 DEF FlowInv

\* The end of a drain is told: what the drain held is now what was told.
LEMMA EndFlow ==
  ASSUME IInv, FlowInv, TypeOK', TellEnd
  PROVE  FlowInv'
<1>1. PICK p \in 0..Len(told) : Latest(p) /\ (Listening => Flow(p))
  BY DEF FlowInv
<1>2. /\ interest' = interest /\ ring' = ring /\ trailing' = trailing /\ made' = made
      /\ reader' = reader /\ pending' = pending
      /\ ui.chunks = <<>> /\ ui'.chunks = <<>> /\ ~ui'.reset /\ ~ui'.omitted
  BY DEF TellEnd, shared, Resting
<1>3. /\ Len(told) <= Len(told') /\ Len(told) \in Nat /\ Len(told') \in Nat
      /\ DOMAIN told = 1..Len(told) /\ DOMAIN told' = 1..Len(told')
      /\ \A i \in 1..Len(told) : told'[i] = told[i]
      /\ \A i \in DOMAIN told' : \/ i \in 1..Len(told) \/ told'[i].kind = "reset"
                                 \/ ui.omitted /\ told'[i].kind = "omitted"
      /\ ui.omitted => /\ Len(told') > Len(told) /\ told'[Len(told')].kind = "omitted"
                       /\ told'[Len(told')].epoch = interest
  BY EndEffect, Lengths, LengthsNext DEF IInv
<1>4. /\ DOMAIN told \subseteq DOMAIN told'
      /\ \A i \in DOMAIN told : told'[i] = told[i]
      /\ \A i \in DOMAIN told' : i \notin DOMAIN told => i > p /\ told'[i].kind # "data"
      /\ p \in 0..Len(told')
  BY <1>3
<1>5. Latest(p)' /\ TextAt(p)' = TextAt(p)
  <2>1. p # 0 => p \in DOMAIN told
    BY <1>3
  <2>. QED  BY <1>1, <1>2, <1>4, <2>1 DEF Latest, TextAt, IsData
<1>6. Since(p, "reset")' <=> Since(p, "reset") \/ ui.reset
  <2>1. CASE ui.reset
    BY <1>2, <1>4, <2>1, EndResets DEF Since
  <2>2. CASE ~ui.reset
    <3>1. \A i \in DOMAIN told' : i \notin DOMAIN told => told'[i].kind # "reset"
      BY <2>2, EndResets
    <3>. QED  BY <1>2, <1>4, <2>2, <3>1 DEF Since
  <2>. QED  BY <2>1, <2>2
<1>7. Since(p, "omitted")' <=> Since(p, "omitted") \/ ui.omitted
  <2>1. CASE ui.omitted
    <3>1. Len(told') \in DOMAIN told' /\ Len(told') > p
      BY <1>3, <2>1
    <3>. QED  BY <1>2, <1>3, <2>1, <3>1 DEF Since
  <2>2. CASE ~ui.omitted
    <3>1. \A i \in DOMAIN told' : i \notin DOMAIN told => told'[i].kind # "omitted"
      BY <1>3, <2>2
    <3>. QED  BY <1>2, <1>4, <2>2, <3>1 DEF Since
  <2>. QED  BY <2>1, <2>2
<1>8. /\ TakenEnd(p)' = TakenEnd(p) /\ (TakenReset(p)' <=> TakenReset(p))
      /\ TakenGap(p)' <=> TakenGap(p)
  BY <1>2, <1>5, <1>6, <1>7 DEF TakenEnd, TakenReset, TakenGap
<1>9. Held => Held'
  BY <1>2 DEF Held, Dropping, Marking
<1>10. ASSUME Listening PROVE Flow(p)'
  <2>1. Chain(ring)' /\ FirstKept(p)' /\ AtEnd(p)'
    BY <1>1, <1>2, <1>8, <1>9, <1>10, RestOfWay
  <2>2. Chain(ui.chunks)' /\ FirstTaken(p)'
    <3>1. DOMAIN <<>> = {}
      OBVIOUS
    <3>. QED  BY <1>2, <3>1 DEF Chain, FirstTaken
  <2>. QED  BY <2>1, <2>2 DEF Flow
<1>11. Listening' <=> Listening
  BY <1>2 DEF Listening
<1>. QED  BY <1>4, <1>5, <1>10, <1>11 DEF FlowInv

\* Every action keeps the flow.
LEMMA FlowKept ==
  ASSUME IInv, DataInv, LeftInv, ResetParts, FlowInv, Next, TypeOK'
  PROVE  FlowInv'
<1>0. Control /\ interest \in Nat
  BY DEF IInv, TypeOK
<1>1. ASSUME NEW c \in Captures, Capture(c) PROVE FlowInv'
  BY <1>1, CaptureFlow
<1>2. CASE CheckEpoch \/ ReadPending \/ ReadCurrent \/ RemoveMark \/ TryLock \/ Mark \/ Claim
             \/ ReaderUnlocks \/ ReaderReturns
  BY <1>2, QuietFlow
<1>3. CASE Fill
  BY <1>3, FillFlow
<1>4. CASE LoseInterest
  <2>1. told' = told /\ made' = made /\ interest' = interest + 1 /\ Listening
    BY <1>4 DEF LoseInterest
  <2>2. ~Listening'
    BY <1>0, <2>1, Parity DEF Listening
  <2>. QED  BY <2>1, <2>2, NewEpochFlow DEF FlowInv
<1>5. CASE TakeInterest
  BY <1>5, NobodyListens DEF TakeInterest, shared
<1>6. CASE Empty \/ Unmark
  <2>1. interest' = interest /\ told' = told /\ Between
    BY <1>6 DEF Empty, Unmark, Between
  <2>2. ~Listening
    BY <1>0, <2>1 DEF Control, EpochInv, Listening
  <2>. QED  BY <2>1, <2>2, NobodyListens
<1>7. CASE BeginEpoch
  <2>1. /\ told' = told /\ made' = made /\ interest' = interest + 1 /\ ring' = ring
        /\ trailing' = trailing /\ ui.pc = "begin" /\ ui' = [ui EXCEPT !.pc = "unlock"]
    BY <1>7 DEF BeginEpoch, UiTo
  <2>2. ring = <<>> /\ ~trailing /\ ui.chunks = <<>> /\ ~ui.omitted /\ ~ui.reset
    BY <1>0, <2>1 DEF Control, UiInv, LeftInv
  <2>3. ring' = <<>> /\ ~trailing' /\ ui'.chunks = <<>> /\ ~ui'.omitted /\ ~ui'.reset
    <3>1. ui \in [pc : UiPcs, chunks : Seq(Chunk), reset : BOOLEAN, omitted : BOOLEAN]
      BY DEF IInv, TypeOK
    <3>. QED  BY <2>1, <2>2, <3>1
  <2>4. /\ Latest(0)' /\ 0 \in 0..Len(told')
        /\ \A kind : ~Since(0, kind)'
        /\ \A a, b : ~ResetIn(a, b)'
    BY <2>1, NewEpochFlow
  <2>5. DOMAIN <<>> = {}
    OBVIOUS
  <2>6. Chain(ui.chunks)' /\ Chain(ring)' /\ FirstTaken(0)' /\ FirstKept(0)'
    BY <2>3, <2>5 DEF Chain, FirstTaken, FirstKept
  <2>7. ~RingReset(0)'
    BY <2>3, <2>4 DEF RingReset, TakenReset
  <2>8. ~ResetIn(RingEnd(0), Frontier)'
    BY <2>1, NewEpochFlow DEF ResetIn, EpochOf
  <2>9. AtEnd(0)'
    BY <2>7, <2>8 DEF AtEnd
  <2>. QED  BY <2>4, <2>6, <2>9 DEF Flow, FlowInv
<1>8. CASE Drain \/ Swap \/ UiUnlocks
  BY <1>8, IdleFlow
<1>9. CASE Take
  BY <1>9, TakeFlow
<1>10. CASE TellChunk
  BY <1>10, TellFlow
<1>11. CASE TellEnd
  BY <1>11, EndFlow
<1>. QED  BY <1>1, <1>2, <1>3, <1>4, <1>5, <1>6, <1>7, <1>8, <1>9, <1>10, <1>11
          DEF Next, Reader, Ui

\* Only a fill keeps anything that was not kept before.
LEMMA KeptShrinks ==
  ASSUME IInv, Next, TypeOK', ~Fill
  PROVE  Kept' \subseteq Kept
<1>1. CASE ring' = ring /\ told' = told /\ ui'.chunks = ui.chunks
  BY <1>1 DEF Kept, Taken, Retained, TextTold, IsData
<1>2. CASE Empty
  <2>1. ui'.chunks = ui.chunks /\ ring' = <<>> /\ told' = told
    BY <1>2 DEF Empty, UiTo, IInv, TypeOK
  <2>2. Taken' = Taken /\ Retained' = {} /\ TextTold' = TextTold
    BY <2>1, NothingRetainedNext DEF Taken, TextTold, IsData
  <2>. QED  BY <2>2 DEF Kept
<1>3. CASE Take
  <2>1. ui'.chunks = ring /\ ring' = <<>> /\ told' = told
    BY <1>3 DEF Take
  <2>2. Taken' = Retained /\ Retained' = {} /\ TextTold' = TextTold
    BY <2>1, NothingRetainedNext DEF Taken, Retained, TextTold, IsData
  <2>. QED  BY <2>2 DEF Kept
<1>4. CASE TellChunk \/ TellEnd
  BY <1>4, TellSets, EndEffect
<1>5. CASE Reader
  <2>1. ring' = ring /\ told' = told /\ ui' = ui
    BY <1>5 DEF Reader, Capture, CheckEpoch, ReadPending, ReadCurrent, RemoveMark, TryLock,
       Mark, Claim, ReaderUnlocks, ReaderReturns, shared
  <2>. QED  BY <1>1, <2>1
<1>6. CASE LoseInterest \/ TakeInterest \/ Unmark \/ BeginEpoch \/ Drain \/ Swap \/ UiUnlocks
  <2>1. ring' = ring /\ told' = told
    BY <1>6 DEF LoseInterest, TakeInterest, Unmark, BeginEpoch, Drain, Swap, UiUnlocks, shared
  <2>2. ui \in [pc : UiPcs, chunks : Seq(Chunk), reset : BOOLEAN, omitted : BOOLEAN]
    BY DEF IInv, TypeOK
  <2>3. ui'.chunks = ui.chunks
    <3>1. CASE UiUnlocks
      BY <2>2, <3>1 DEF UiUnlocks, Resting
    <3>2. CASE ~UiUnlocks
      BY <1>6, <2>2, <3>2 DEF LoseInterest, TakeInterest, Unmark, BeginEpoch, Drain, Swap, UiTo
    <3>. QED  BY <3>1, <3>2
  <2>. QED  BY <1>1, <2>1, <2>3
<1>. QED  BY <1>2, <1>3, <1>4, <1>5, <1>6 DEF Next, Ui

\* What is kept is text.
LEMMA DataKept ==
  ASSUME IInv, DataInv, Next, TypeOK'
  PROVE  DataInv'
<1>1. \A n \in Kept : made'[n] = made[n]
  BY MadeGrows DEF IInv, PlaceInv
<1>2. CASE ~Fill
  BY <1>1, <1>2, KeptShrinks DEF DataInv
<1>3. CASE Fill
  <2>. DEFINE q == reader.parts[1]
              f == Fits(q)
  <2>1. /\ q \in Part /\ f \in Int /\ f <= q.count /\ reader.parts # <<>>
        /\ Taken' = Taken /\ TextTold' = TextTold
        /\ Retained' = Retained \cup (q.first + 1)..(q.first + f)
    BY <1>3, FillEffect
  <2>2. made' = made /\ 1 \in DOMAIN reader.parts /\ End(1) = q.first + q.count
    BY <1>3, <2>1 DEF Fill, IInv, TypeOK, ReaderType, End
  <2>3. \A n \in (q.first + 1)..End(1) : made[n].kind = "data"
    BY <2>2 DEF IInv, PartsInv
  <2>4. q.first \in Nat /\ q.count \in Nat
    BY <2>1 DEF Part
  <2>. HIDE DEF q, f
  <2>5. (q.first + 1)..(q.first + f) \subseteq (q.first + 1)..End(1)
    BY <2>1, <2>2, <2>4
  <2>. QED  BY <2>1, <2>2, <2>3, <2>5 DEF DataInv, Kept
<1>. QED  BY <1>2, <1>3

\* The UI thread leaves nothing in the ring it has emptied, nor a reset of a
\* drain that is over.
LEMMA LeftKept ==
  ASSUME IInv, LeftInv, Next, TypeOK'
  PROVE  LeftInv'
<1>1. CASE Reader
  <2>1. ui' = ui
    BY <1>1 DEF Reader, Capture, CheckEpoch, ReadPending, ReadCurrent, RemoveMark, TryLock, Fill,
       Mark, Claim, ReaderUnlocks, ReaderReturns, shared
  <2>2. CASE Fill
    <3>1. ui.pc \notin {"unmark", "unmark_on", "begin", "swap"}
      BY <2>2 DEF Fill, IInv, Control, MutexInv
    <3>. QED  BY <2>1, <3>1 DEF LeftInv
  <2>3. CASE ~Fill
    <3>1. trailing' = trailing
      BY <1>1, <2>3 DEF Reader, Capture, CheckEpoch, ReadPending, ReadCurrent, RemoveMark, TryLock,
         Mark, Claim, ReaderUnlocks, ReaderReturns, shared
    <3>. QED  BY <2>1, <3>1 DEF LeftInv
  <2>. QED  BY <2>2, <2>3
<1>2. CASE Ui
  <2>1. ui \in [pc : UiPcs, chunks : Seq(Chunk), reset : BOOLEAN, omitted : BOOLEAN]
    BY DEF IInv, TypeOK
  <2>2. CASE LoseInterest \/ TakeInterest \/ Drain
    BY <2>1, <2>2 DEF LoseInterest, TakeInterest, Drain, UiTo, LeftInv, shared
  <2>3. CASE Empty
    BY <2>1, <2>3 DEF Empty, UiTo, LeftInv
  <2>4. CASE Unmark \/ BeginEpoch
    BY <2>1, <2>4 DEF Unmark, BeginEpoch, UiTo, LeftInv
  <2>5. CASE Take
    BY <2>1, <2>5 DEF Take, LeftInv
  <2>6. CASE Swap
    BY <2>1, <2>6 DEF Swap, LeftInv
  <2>7. CASE UiUnlocks \/ TellEnd
    <3>1. trailing' = trailing /\ (ui' = Resting \/ ui' = [ui EXCEPT !.pc = "tell"])
      BY <2>7 DEF UiUnlocks, TellEnd, shared
    <3>2. CASE ui' = Resting
      BY <3>1, <3>2 DEF Resting, LeftInv
    <3>3. CASE ui' = [ui EXCEPT !.pc = "tell"]
      <4>1. ui'.pc = "tell"
        BY <2>1, <3>3
      <4>. QED  BY <4>1 DEF LeftInv
    <3>. QED  BY <3>1, <3>2, <3>3
  <2>8. CASE TellChunk
    <3>1. trailing' = trailing /\ ui'.pc = "tell"
      BY <2>1, <2>8 DEF TellChunk, shared
    <3>. QED  BY <3>1 DEF LeftInv
  <2>. QED  BY <1>2, <2>2, <2>3, <2>4, <2>5, <2>6, <2>7, <2>8 DEF Ui
<1>. QED  BY <1>1, <1>2 DEF Next

\* The parts of a capture have its reset between them, or before the only one.
LEMMA CaptureResets ==
  ASSUME IInv, TypeOK', NEW c \in Captures, Capture(c)
  PROVE  ResetParts'
<1>. DEFINE m == Len(made)
            h == c.head
            r == Resets(c)
            t == c.tail
            u == Cuts(c)
<1>1. m \in Nat /\ DOMAIN made' = 1..Len(made') /\ Len(made') \in Nat
  BY Lengths, LengthsNext DEF IInv
<1>. HIDE DEF m, h, r, t, u
<1>2. /\ h \in Nat /\ t \in Nat /\ r \in Nat /\ u \in Nat
      /\ Len(made') = m + h + r + t + u
      /\ \A n \in (m + 1)..Len(made') : made'[n].epoch = interest
  BY CaptureItems DEF IInv, m, h, r, t, u
<1>3. /\ c.reset => r = 1
      /\ ~c.reset => r = 0 /\ h = 0
  BY <1>2, TransportAssumption DEF Resets, h, r
<1>4. PICK k : k = m + h + 1
  OBVIOUS
<1>5. c.reset => /\ k \in DOMAIN made' /\ made'[k].kind = "reset" /\ EpochOf(k)' = interest
  <2>1. c.reset => k \in (m + 1)..Len(made')
    BY <1>1, <1>2, <1>3, <1>4
  <2>2. \A n \in (m + 1)..Len(made') : c.reset /\ n = k => made'[n].kind = "reset"
    <3>. TAKE n \in (m + 1)..Len(made')
    <3>1. made'[n].kind = IF c.reset /\ n = m + h + 1 THEN "reset"
                          ELSE IF n <= m + h + r + t THEN "data" ELSE "cut"
      BY CaptureItems DEF IInv, m, h, r, t, u
    <3>. QED  BY <1>4, <3>1
  <2>3. c.reset => k \in DOMAIN made'
    BY <1>1, <2>1
  <2>. QED  BY <1>2, <2>1, <2>2, <2>3 DEF EpochOf
<1>6. reader'.parts = Parts(c) /\ reader'.epoch = interest
  BY DEF Capture, Idle
<1>7. CASE h > 0
  <2>1. reader'.parts = << Push(m, h, FALSE, FALSE), Push(m + h + r, t, c.cut, c.reset) >>
    BY <1>6, <1>7 DEF Parts, m, h, r, t
  <2>2. c.reset /\ r = 1
    BY <1>2, <1>3, <1>7
  <2>3. /\ Len(reader'.parts) = 2 /\ DOMAIN reader'.parts = {1, 2}
        /\ reader'.parts[1].first = m /\ reader'.parts[1].count = h /\ ~reader'.parts[1].reset
        /\ reader'.parts[2].first = k /\ reader'.parts[2].reset
    BY <1>4, <2>1, <2>2 DEF Push
  <2>4. End(1)' + 1 = k
    BY <1>4, <2>3 DEF End
  <2>5. \A p \in {1, 2} : reader'.parts[p].reset => reader'.parts[p].first = k
    BY <2>3
  <2>. QED  BY <1>5, <1>6, <2>2, <2>3, <2>4, <2>5 DEF ResetParts
<1>8. CASE h = 0
  <2>1. reader'.parts = << Push(m + r, t, c.cut, c.reset) >>
    BY <1>6, <1>8 DEF Parts, m, h, r, t
  <2>2. /\ Len(reader'.parts) = 1 /\ DOMAIN reader'.parts = {1}
        /\ reader'.parts[1].first = m + r /\ reader'.parts[1].reset = c.reset
    BY <2>1 DEF Push
  <2>3. c.reset => reader'.parts[1].first = k
    BY <1>1, <1>2, <1>3, <1>8, <1>4, <2>2
  <2>. QED  BY <1>5, <1>6, <2>2, <2>3 DEF ResetParts
<1>. QED  BY <1>2, <1>7, <1>8

\* Every action keeps the resets of the parts where they were printed.
LEMMA ResetPartsKept ==
  ASSUME IInv, ResetParts, Next, TypeOK'
  PROVE  ResetParts'
<1>1. ASSUME NEW c \in Captures, Capture(c) PROVE ResetParts'
  BY <1>1, CaptureResets
<1>2. CASE PartsSame
  BY <1>2 DEF PartsSame, ResetParts, End, EpochOf
<1>3. CASE PartsGone
  <2>1. DOMAIN <<>> = {} /\ Len(<<>>) = 0
    OBVIOUS
  <2>. QED  BY <1>3, <2>1 DEF PartsGone, ResetParts
<1>4. CASE Fill
  <2>1. /\ reader.parts \in Seq(Part) /\ made' = made /\ PartsInv /\ reader.parts # <<>>
        /\ reader'.epoch = reader.epoch
    BY <1>4 DEF IInv, TypeOK, ReaderType, Control, AtInv, MutexInv, Marking, Fill, ReaderTo
  <2>2. CASE reader'.parts = reader.parts
    BY <1>2, <2>1, <2>2 DEF PartsSame
  <2>3. CASE reader'.parts = Tail(reader.parts)
    <3>1. CASE Len(reader.parts) = 1
      <4>1. Tail(reader.parts) \in Seq(Part) /\ Len(Tail(reader.parts)) = 0
        BY <2>1, <3>1, TailOf
      <4>2. Tail(reader.parts) = <<>>
        BY <4>1, EmptySeq
      <4>. QED  BY <1>3, <2>1, <2>3, <4>2 DEF PartsGone
    <3>2. CASE Len(reader.parts) = 2
      <4>1. /\ Tail(reader.parts) \in Seq(Part) /\ Len(Tail(reader.parts)) = 1
            /\ Tail(reader.parts)[1] = reader.parts[2]
        BY <2>1, <3>2, TailOf
      <4>2. DOMAIN Tail(reader.parts) = 1..1
        BY <4>1, SeqDomain
      <4>3. 2 \in DOMAIN reader.parts
        BY <2>1, <3>2
      <4>4. /\ Len(reader'.parts) = 1 /\ reader'.parts[1] = reader.parts[2]
            /\ \A p \in DOMAIN reader'.parts : p = 1
        BY <2>3, <4>1, <4>2
      <4>. QED  BY <2>1, <4>3, <4>4 DEF ResetParts, EpochOf
    <3>. QED  BY <2>1, <3>1, <3>2 DEF PartsInv
  <2>. QED  BY <1>4, <2>2, <2>3 DEF Fill, ReaderTo, IInv, TypeOK, ReaderType
<1>. QED  BY <1>1, <1>2, <1>3, <1>4, PartsMove

\* What was told before, and what was behind it, stays as it was.
LEMMA OldPlace ==
  ASSUME IInv, ResetsTold, Next, TypeOK', \A i \in 1..Len(told) : told'[i] = told[i],
         NEW j \in DOMAIN told, IsData(j)'
  PROVE  \E q \in 0..(j - 1) : Prev(q, j)' /\ InPlace(q, j)'
<1>1. /\ DOMAIN told = 1..Len(told) /\ Len(told) \in Nat
      /\ DOMAIN made = 1..Len(made) /\ Len(made) \in Nat
      /\ \A i \in 1..j : i \in DOMAIN told /\ told'[i] = told[i]
  <2>1. DOMAIN told = 1..Len(told) /\ Len(told) \in Nat
    BY Lengths DEF IInv
  <2>2. \A i \in 1..j : i \in DOMAIN told
    BY <2>1
  <2>. QED  BY <2>1, <2>2, Lengths DEF IInv
<1>2. j \in Nat /\ j > 0 /\ told'[j] = told[j] /\ \A i \in 1..(j - 1) : i \in 1..j
  BY <1>1
<1>3. IsData(j)
  BY <1>2 DEF IsData
<1>4. PICK q \in 0..(j - 1) : Prev(q, j) /\ InPlace(q, j)
  BY <1>3 DEF ResetsTold
<1>5. /\ \A i \in 1..j : IsData(i)' <=> IsData(i)
      /\ \A i \in 1..(j - 1) : SameText(i, j)' <=> SameText(i, j)
  BY <1>1, <1>2 DEF SameText, IsData
<1>6. q # 0 => q \in 1..(j - 1) /\ q \in 1..j /\ told'[q] = told[q]
  BY <1>1, <1>2
<1>7. Prev(q, j)'
  BY <1>4, <1>5, <1>6 DEF Prev
<1>8. TextAt(q)' = TextAt(q)
  BY <1>6 DEF TextAt
<1>9. \A i \in (q + 1)..(j - 1) : i \in 1..j
  BY <1>2
<1>10. \A kind : SaidSince(q, j, kind)' <=> SaidSince(q, j, kind)
  BY <1>1, <1>2, <1>9 DEF SaidSince
<1>11. \A n \in (TextAt(q) + 1)..(told[j].at - 1) : made'[n] = made[n]
  <2>1. told[j].at \in DOMAIN made
    BY <1>3, ToldPlace
  <2>2. TextAt(q) \in Nat
    <3>1. CASE q = 0
      BY <3>1 DEF TextAt
    <3>2. CASE q # 0
      <4>1. q \in DOMAIN told /\ IsData(q)
        BY <1>1, <1>4, <1>6, <3>2 DEF Prev, SameText
      <4>. QED  BY <1>1, <3>2, <4>1, ToldPlace DEF TextAt
    <3>. QED  BY <3>1, <3>2
  <2>3. \A n \in (TextAt(q) + 1)..(told[j].at - 1) : n \in DOMAIN made
    <3>. DEFINE a == TextAt(q)
                h == told[j].at
    <3>1. a \in Nat /\ h \in 1..Len(made)
      BY <1>1, <2>1, <2>2
    <3>. HIDE DEF a, h
    <3>2. \A n \in (a + 1)..(h - 1) : n \in 1..Len(made)
      BY <1>1, <3>1
    <3>. QED  BY <1>1, <3>2 DEF a, h
  <2>. QED  BY <2>3, MadeGrows
<1>12. ResetBefore(q, j)' <=> ResetBefore(q, j)
  BY <1>2, <1>8, <1>11 DEF ResetBefore
<1>13. InPlace(q, j)'
  BY <1>4, <1>10, <1>12 DEF InPlace
<1>. QED  BY <1>7, <1>13

\* The text that is told is in place: what was told behind the last one says
\* whether there was a reset between them.
LEMMA NewPlace ==
  ASSUME IInv, FlowInv, TypeOK', TellChunk, NEW t, t = Len(told')
  PROVE  \E q \in 0..(t - 1) : Prev(q, t)' /\ InPlace(q, t)'
<1>. DEFINE c == ui.chunks[1]
            h == c.at
            l == Len(told)
<1>1. PICK p \in 0..Len(told) : Latest(p) /\ (Listening => Flow(p))
  BY DEF FlowInv
<1>2. /\ h \in Taken /\ ui.chunks # <<>> /\ t \in Nat /\ t > l
      /\ \A i \in 1..l : told'[i] = told[i]
      /\ \A i \in DOMAIN told' : i \in 1..l \/ i = t \/ told'[i].kind = "reset"
      /\ told'[t].kind = "data" /\ told'[t].at = h /\ told'[t].epoch = interest
  BY TellEffect
<1>3. /\ DOMAIN told = 1..l /\ DOMAIN told' = 1..t /\ l \in Nat
      /\ DOMAIN made = 1..Len(made) /\ Len(made) \in Nat
      /\ made' = made /\ interest' = interest
  BY Lengths, LengthsNext DEF IInv, TellChunk, shared
<1>4. /\ c.reset => /\ t = l + 2
                    /\ told'[l + 1].kind = "reset" /\ told'[l + 1].epoch = interest
      /\ ~c.reset => t = l + 1
  BY TellLength
<1>5. Listening
  <2>1. h \in DOMAIN made /\ EpochOf(h) = interest
    BY <1>2 DEF IInv, PlaceInv, Kept
  <2>. QED  BY <2>1 DEF IInv, MadeInv, Listening
<1>6. /\ TextAt(p) \in Nat /\ h \in Nat /\ h <= Len(made) /\ p \in Nat /\ p <= l
  <2>1. h \in Nat /\ h <= Len(made) /\ TextAt(p) \in Nat
    BY <1>1, <1>2, FlowTypes
  <2>. QED  BY <1>1, <1>3, <2>1
<1>. HIDE DEF c, h, l
<1>7. /\ p # 0 => p \in 1..l /\ told'[p] = told[p]
      /\ \A i \in 1..l : i \in DOMAIN told /\ i \in 1..(t - 1) /\ i \in DOMAIN told'
      /\ \A i \in 1..(t - 1) : i \in DOMAIN told' /\ i # t
      /\ p \in 0..(t - 1)
  BY <1>2, <1>3, <1>6
<1>8. TextAt(p)' = TextAt(p)
  BY <1>7 DEF TextAt
<1>9. Prev(p, t)'
  <2>1. p # 0 => SameText(p, t)'
    BY <1>1, <1>2, <1>7 DEF Latest, SameText, IsData
  <2>2. ASSUME NEW i \in 1..(t - 1), SameText(i, t)' PROVE i <= p
    <3>1. told'[i].kind = "data" /\ told'[i].epoch = interest
      BY <1>2, <2>2 DEF SameText, IsData
    <3>2. i \in 1..l
      BY <1>2, <1>7, <3>1
    <3>. QED  BY <1>1, <1>2, <1>7, <3>1, <3>2 DEF Latest, IsData
  <2>. QED  BY <1>7, <2>1, <2>2 DEF Prev
<1>10. SaidSince(p, t, "omitted")' <=> Since(p, "omitted")
  <2>1. ASSUME NEW i \in (p + 1)..(t - 1), told'[i].epoch = interest, told'[i].kind = "omitted"
        PROVE  Since(p, "omitted")
    <3>1. i \in 1..(t - 1) /\ i > p
      BY <1>2, <1>6
    <3>2. i \in 1..l
      BY <1>2, <1>7, <2>1, <3>1
    <3>. QED  BY <1>2, <1>7, <2>1, <3>1, <3>2 DEF Since
  <2>2. ASSUME NEW i \in DOMAIN told, i > p, told[i].kind = "omitted", told[i].epoch = interest
        PROVE  SaidSince(p, t, "omitted")'
    <3>1. i \in (p + 1)..(t - 1)
      BY <1>2, <1>3, <1>6, <2>2
    <3>. QED  BY <1>2, <1>3, <2>2, <3>1 DEF SaidSince
  <2>. QED  BY <1>2, <2>1, <2>2 DEF SaidSince, Since
<1>11. SaidSince(p, t, "reset")' <=> c.reset \/ Since(p, "reset")
  <2>1. ASSUME NEW i \in (p + 1)..(t - 1), told'[i].epoch = interest, told'[i].kind = "reset"
        PROVE  c.reset \/ Since(p, "reset")
    <3>1. i \in 1..(t - 1) /\ i > p
      BY <1>2, <1>6
    <3>2. CASE i \in 1..l
      BY <1>2, <1>7, <2>1, <3>1, <3>2 DEF Since
    <3>3. CASE i \notin 1..l
      <4>1. t # l + 1
        BY <1>2, <1>3, <3>1, <3>3
      <4>2. c.reset \in BOOLEAN
        <5>1. c \in Chunk
          BY TellEffect DEF c
        <5>. QED  BY <5>1 DEF Chunk
      <4>. QED  BY <1>4, <4>1, <4>2
    <3>. QED  BY <3>2, <3>3
  <2>2. ASSUME NEW i \in DOMAIN told, i > p, told[i].kind = "reset", told[i].epoch = interest
        PROVE  SaidSince(p, t, "reset")'
    <3>1. i \in (p + 1)..(t - 1)
      BY <1>2, <1>3, <1>6, <2>2
    <3>. QED  BY <1>2, <1>3, <2>2, <3>1 DEF SaidSince
  <2>3. ASSUME c.reset PROVE SaidSince(p, t, "reset")'
    <3>1. PICK i : i = l + 1
      OBVIOUS
    <3>2. i \in (p + 1)..(t - 1) /\ told'[i].kind = "reset" /\ told'[i].epoch = interest
      BY <1>3, <1>4, <1>6, <2>3, <3>1
    <3>. QED  BY <1>2, <3>2 DEF SaidSince
  <2>. QED  BY <1>2, <2>1, <2>2, <2>3 DEF SaidSince, Since
<1>12. ResetBefore(p, t)' <=> ResetIn(TextAt(p), h)
  <2>. DEFINE a == TextAt(p)
  <2>1. a \in Nat
    BY <1>6
  <2>2. ResetBefore(p, t)' <=> \E n \in (a + 1)..(h - 1) : made[n].epoch = interest
                                                           /\ made[n].kind = "reset"
    BY <1>2, <1>3, <1>8 DEF ResetBefore
  <2>. HIDE DEF a
  <2>3. \A n : n \in (a + 1)..(h - 1) <=> n \in DOMAIN made /\ a < n /\ n < h
    BY <1>3, <1>6, <2>1
  <2>4. ResetIn(a, h) <=> \E n \in (a + 1)..(h - 1) : made[n].epoch = interest
                                                      /\ made[n].kind = "reset"
    BY <2>3 DEF ResetIn, EpochOf
  <2>. QED  BY <2>2, <2>4 DEF a
<1>13. ~Since(p, "omitted") => (c.reset \/ Since(p, "reset") <=> ResetIn(TextAt(p), h))
  BY <1>1, <1>2, <1>5 DEF Flow, FirstTaken, c, h
<1>14. InPlace(p, t)'
  BY <1>10, <1>11, <1>12, <1>13 DEF InPlace
<1>. QED  BY <1>7, <1>9, <1>14

\* Every action keeps the resets of what was told in place.
LEMMA PlacesKept ==
  ASSUME IInv, FlowInv, ResetsTold, Next, TypeOK'
  PROVE  ResetsTold'
<1>1. /\ Len(told) \in Nat /\ DOMAIN told = 1..Len(told) /\ DOMAIN told' = 1..Len(told')
  BY Lengths, LengthsNext DEF IInv
<1>2. told' = told \/ TellChunk \/ TellEnd
  BY DEF Next, Reader, Ui, Capture, CheckEpoch, ReadPending, ReadCurrent, RemoveMark, TryLock,
     Fill, Mark, Claim, ReaderUnlocks, ReaderReturns, LoseInterest, TakeInterest, Empty, Unmark,
     BeginEpoch, Drain, Take, Swap, UiUnlocks
<1>3. \A i \in 1..Len(told) : told'[i] = told[i]
  BY <1>2, TellEffect, EndEffect
<1>4. ASSUME NEW j \in DOMAIN told', IsData(j)',
             j \notin DOMAIN told => TellChunk /\ j = Len(told')
      PROVE  \E q \in 0..(j - 1) : Prev(q, j)' /\ InPlace(q, j)'
  BY <1>3, <1>4, OldPlace, NewPlace
<1>5. CASE TellChunk
  <2>1. ASSUME NEW j \in DOMAIN told', IsData(j)', j \notin DOMAIN told PROVE j = Len(told')
    BY <1>1, <1>5, <2>1, TellEffect DEF IsData
  <2>. QED  BY <1>4, <1>5, <2>1 DEF ResetsTold
<1>6. CASE TellEnd
  <2>1. ASSUME NEW j \in DOMAIN told', IsData(j)', j \notin DOMAIN told PROVE FALSE
    BY <1>1, <1>6, <2>1, EndEffect DEF IsData
  <2>. QED  BY <1>4, <2>1 DEF ResetsTold
<1>7. CASE told' = told
  BY <1>4, <1>7 DEF ResetsTold
<1>. QED  BY <1>2, <1>5, <1>6, <1>7

\* The invariant with the resets holds when nobody has listened yet.
LEMMA InitRInv == Init => RInv
<1>. SUFFICES ASSUME Init PROVE RInv
  OBVIOUS
<1>1. /\ interest = 0 /\ ring = <<>> /\ ~trailing /\ reader.parts = <<>> /\ ui.pc = "idle"
      /\ ui.chunks = <<>> /\ ~ui.reset /\ made = <<>> /\ told = <<>>
  BY NothingIsParts DEF Init, Idle, Resting
<1>2. DOMAIN <<>> = {} /\ Len(<<>>) = 0
  OBVIOUS
<1>3. Kept = {}
  BY <1>1, <1>2 DEF Taken, Retained, TextTold, Kept
<1>4. DataInv /\ LeftInv /\ ResetParts
  BY <1>1, <1>2, <1>3 DEF DataInv, LeftInv, ResetParts
<1>5. FlowInv
  <2>1. ~Listening
    BY <1>1 DEF Listening
  <2>2. Latest(0) /\ 0 \in 0..Len(told)
    BY <1>1, <1>2 DEF Latest
  <2>. QED  BY <2>1, <2>2 DEF FlowInv
<1>6. ResetsTold
  BY <1>1, <1>2 DEF ResetsTold
<1>. QED  BY <1>4, <1>5, <1>6, InitIInv DEF RInv

\* Every step keeps it.
LEMMA ResetsInductive ==
  ASSUME RInv, [Next]_vars
  PROVE  RInv'
<1>1. CASE Next
  <2>1. IInv' /\ TypeOK'
    BY <1>1, Inductive DEF RInv, IInv
  <2>2. DataInv' /\ LeftInv' /\ ResetParts'
    BY <1>1, <2>1, DataKept, LeftKept, ResetPartsKept DEF RInv
  <2>3. FlowInv' /\ ResetsTold'
    BY <1>1, <2>1, FlowKept, PlacesKept DEF RInv
  <2>. QED  BY <2>1, <2>2, <2>3 DEF RInv
<1>2. CASE UNCHANGED vars
  <2>1. /\ interest' = interest /\ pending' = pending /\ mutex' = mutex /\ ring' = ring
        /\ trailing' = trailing /\ reader' = reader /\ ui' = ui
        /\ made' = made /\ told' = told
    BY <1>2 DEF vars
  <2>2. IInv'
    BY <1>2, Inductive DEF RInv
  <2>3. DataInv' /\ LeftInv'
    <3>1. Kept' = Kept
      BY <2>1, SetsSame
    <3>. QED  BY <2>1, <3>1 DEF RInv, DataInv, LeftInv
  <2>4. ResetParts'
    BY <2>1 DEF RInv, ResetParts, End, EpochOf
  <2>5. FlowInv'
    <3>1. Frontier' = Frontier /\ (Held => Held')
      BY <2>1 DEF Frontier, Marking, Held, Dropping
    <3>. QED  BY <2>1, <3>1, ReaderMoves DEF RInv
  <2>6. ResetsTold'
    BY <2>1 DEF RInv, ResetsTold, Prev, InPlace, SaidSince, ResetBefore, TextAt, SameText, IsData
  <2>. QED  BY <2>2, <2>3, <2>4, <2>5, <2>6 DEF RInv
<1>. QED  BY <1>1, <1>2

\* The text before a text is the one that Prior finds.
LEMMA PriorIs ==
  ASSUME NEW j \in Nat, NEW q \in Nat, Prev(q, j)
  PROVE  Prior(j) = q
<1>. DEFINE before == {i \in 1..(j - 1) : SameText(i, j)}
            found  == CHOOSE i \in before : \A k \in before : k <= i
<1>1. Prior(j) = IF before = {} THEN 0 ELSE found
  BY DEF Prior
<1>2. \A i \in before : i <= q /\ i \in 1..(j - 1)
  BY DEF Prev
<1>3. CASE q = 0
  <2>1. before = {}
    BY <1>2, <1>3
  <2>. QED  BY <1>1, <1>3, <2>1
<1>4. CASE q # 0
  <2>1. q \in before
    BY <1>4 DEF Prev
  <2>2. \A k \in before : k <= q
    BY <1>2
  <2>3. found \in before /\ \A k \in before : k <= found
    <3>. HIDE DEF before
    <3>. QED  BY <2>1, <2>2
  <2>. HIDE DEF found
  <2>4. found <= q /\ q <= found /\ found \in Int
    BY <1>2, <2>1, <2>3
  <2>5. found = q
    BY <2>4
  <2>. QED  BY <1>1, <2>1, <2>5
<1>. QED  BY <1>3, <1>4

\* A reset is in place when it is behind the text before.
LEMMA PlaceIs ==
  ASSUME NEW j \in DOMAIN told, TypeOK, NEW q \in 0..(j - 1), Prev(q, j), InPlace(q, j),
         "omitted" \notin Said(j)
  PROVE  "reset" \in Said(j) <=> "reset" \in Printed(j)
<1>1. j \in Nat /\ q \in Nat
  BY Lengths
<1>2. Prior(j) = q
  BY <1>1, PriorIs
<1>3. From(j) = TextAt(q)
  BY <1>2 DEF From, TextAt
<1>4. \A kind : kind \in Said(j) <=> SaidSince(q, j, kind)
  BY <1>2 DEF Said, SaidSince
<1>5. "reset" \in Printed(j) <=> ResetBefore(q, j)
  BY <1>3 DEF Printed, ResetBefore
<1>. QED  BY <1>4, <1>5 DEF InPlace

\* The session forgets what it holds exactly between the bytes a reset of the
\* terminal lay between, unless an omission told there makes it forget anyway:
\* for any ring, any captures and any number of sessions and drains
\* (resets_before and trailing_reset of the transport).
THEOREM ResetsKeepPlace == Spec => []ResetsInPlace
<1>1. RInv => ResetsInPlace
  BY PlaceIs DEF RInv, IInv, ResetsTold, ResetsInPlace
<1>. QED  BY <1>1, InitRInv, ResetsInductive, PTL DEF Spec
=============================================================================
