------------------------ MODULE BlockingQueueProofs ------------------------
(***************************************************************************)
(* Proofs about BlockingQueue for every set of producers, every capacity   *)
(* and every bound on the pushes.                                          *)
(***************************************************************************)
EXTENDS BlockingQueue, FiniteSetTheorems, SequenceTheorems, TLAPS

Waiters == {p \in Producers : pc[p] \in Waiting}

(* The ring holds the accepted values that were not yet delivered.         *)
RingInv ==
  /\ Len(accepted) = Len(delivered) + len
  /\ write = Wrap(read + len)
  /\ \A i \in 0 .. len - 1 :
       data[Wrap(read + i)] = accepted[Len(delivered) + 1 + i]

(* The count is the number of the producers inside a wait, and what they   *)
(* wait with is what they called push with.                                *)
WaitInv ==
  /\ not_full_waiters = Cardinality(Waiters)
  /\ \A p \in Producers : pc[p] \in Waiting => msg[p] \in Values
  /\ \A p \in Producers : pc[p] = "expired" => want[p] = "ns"

QueueInv == TypeOK /\ RingInv /\ WaitInv

-----------------------------------------------------------------------------
(* Counting the waiters *)

LEMMA WaitersFinite ==
  /\ IsFiniteSet(Waiters)
  /\ Cardinality(Waiters) \in Nat
  /\ Cardinality(Waiters) = 0 <=> Waiters = {}
<1>1. Waiters \subseteq Producers
  BY DEF Waiters
<1>2. IsFiniteSet(Waiters)
  BY <1>1, FS_Subset, QueueAssumption
<1>. QED  BY <1>2, FS_CardinalityType, FS_EmptySet

(* A producer that begins to wait, and one that leaves its wait.           *)
LEMMA WaiterEnters ==
  ASSUME NEW p \in Producers, pc \in [Producers -> Waiting \cup {"idle"}],
         pc[p] \notin Waiting, pc' = [pc EXCEPT ![p] = "asleep"]
  PROVE  Cardinality(Waiters') = Cardinality(Waiters) + 1
<1>1. Waiters' = Waiters \cup {p} /\ p \notin Waiters
  BY DEF Waiters, Waiting
<1>. QED  BY <1>1, WaitersFinite, FS_AddElement

LEMMA WaiterLeaves ==
  ASSUME NEW p \in Producers, pc \in [Producers -> Waiting \cup {"idle"}],
         pc[p] \in Waiting, pc' = [pc EXCEPT ![p] = "idle"]
  PROVE  /\ Cardinality(Waiters') = Cardinality(Waiters) - 1
         /\ Cardinality(Waiters) > 0
<1>1. Waiters' = Waiters \ {p} /\ p \in Waiters
  BY DEF Waiters, Waiting
<1>2. Cardinality(Waiters) \in Nat /\ Cardinality(Waiters) # 0
  BY <1>1, WaitersFinite
<1>3. Cardinality(Waiters \ {p}) = Cardinality(Waiters) - 1
  BY <1>1, WaitersFinite, FS_RemoveElement
<1>. QED  BY <1>1, <1>2, <1>3

(* One that only changes the way it waits.                                 *)
LEMMA WaiterStays ==
  ASSUME NEW p \in Producers, pc \in [Producers -> Waiting \cup {"idle"}],
         pc[p] \in Waiting, NEW s \in Waiting, pc' = [pc EXCEPT ![p] = s]
  PROVE  Waiters' = Waiters
BY DEF Waiters

(* What a signal does: at most it wakes a sleeper, and it does so whenever *)
(* the count sees a waiter and one of them sleeps.                         *)
LEMMA SignalEffect ==
  ASSUME pc \in [Producers -> Waiting \cup {"idle"}], Signal
  PROVE  /\ pc' \in [Producers -> Waiting \cup {"idle"}]
         /\ Waiters' = Waiters
         /\ \A p \in Producers : pc'[p] = "expired" <=> pc[p] = "expired"
         /\ \A p \in Producers : pc'[p] = "asleep" => pc[p] = "asleep"
         /\ not_full_waiters > 0 /\ (\E p \in Producers : pc'[p] = "asleep")
              => \E p \in Producers : pc'[p] = "woken"
<1>1. CASE UNCHANGED pc /\ ~(not_full_waiters > 0 /\ {p \in Producers : pc[p] = "asleep"} # {})
  BY <1>1 DEF Waiters
<1>2. CASE \E p \in Producers : pc[p] = "asleep" /\ pc' = [pc EXCEPT ![p] = "woken"]
  BY <1>2 DEF Waiters, Waiting
<1>. QED  BY <1>1, <1>2 DEF Signal, Sleepers

-----------------------------------------------------------------------------
(* The two ring steps *)

LEMMA PutStep ==
  ASSUME QueueInv, NEW v \in Values, ~Full, Put(v)
  PROVE  /\ RingInv'
         /\ data' \in [Slots -> Values \cup {Undef}]
         /\ write' \in Slots /\ read' \in Slots /\ len' \in 0 .. Capacity
         /\ len' > 0
         /\ accepted' \in Seq(Values) /\ delivered' \in Seq(Values)
         /\ refused' \subseteq Timeouts
<1>1. /\ Capacity \in Nat \ {0} /\ len \in Nat /\ len < Capacity
      /\ read \in Nat /\ read < Capacity /\ write \in Nat /\ write < Capacity
      /\ data \in [Slots -> Values \cup {Undef}]
      /\ accepted \in Seq(Values) /\ delivered \in Seq(Values)
      /\ Len(accepted) \in Nat /\ Len(delivered) \in Nat
      /\ refused \subseteq Timeouts
      /\ Len(accepted) = Len(delivered) + len
      /\ write = Wrap(read + len)
  BY QueueAssumption DEF Full, Slots, QueueInv, TypeOK, RingInv
<1>a. /\ Append(accepted, v) \in Seq(Values)
      /\ Len(Append(accepted, v)) = Len(accepted) + 1
      /\ \A j \in 1 .. Len(accepted) : Append(accepted, v)[j] = accepted[j]
      /\ Append(accepted, v)[Len(accepted) + 1] = v
  BY <1>1, AppendProperties
<1>2. /\ data' = [data EXCEPT ![write] = v] /\ write' = Wrap(write + 1)
      /\ len' = len + 1 /\ read' = read
      /\ accepted' = Append(accepted, v) /\ delivered' = delivered
      /\ refused' = refused
  BY DEF Put
<1>3. /\ write' \in Slots /\ read' \in Slots /\ len' \in 0 .. Capacity /\ len' > 0
      /\ data' \in [Slots -> Values \cup {Undef}]
      /\ accepted' \in Seq(Values) /\ delivered' \in Seq(Values)
      /\ refused' \subseteq Timeouts
  BY <1>1, <1>a, <1>2 DEF Wrap, Slots
<1>4. Len(accepted') = Len(delivered') + len'
  BY <1>1, <1>a, <1>2
<1>5. write' = Wrap(read' + len')
  BY <1>1, <1>2 DEF Wrap
<1>6. ASSUME NEW i \in 0 .. len' - 1
      PROVE  data'[Wrap(read' + i)] = accepted'[Len(delivered') + 1 + i]
  <2>1. CASE i = len
    <3>1. Wrap(read + i) = write /\ write \in Slots
      BY <2>1, <1>1 DEF Slots
    <3>2. data'[Wrap(read + i)] = v
      BY <3>1, <1>1, <1>2
    <3>3. Len(delivered) + 1 + i = Len(accepted) + 1
      BY <2>1, <1>1
    <3>. QED  BY <3>2, <3>3, <1>a, <1>2
  <2>2. CASE i < len
    <3>1. i \in 0 .. len - 1
      BY <2>2, <1>1, <1>2
    <3>2. Wrap(read + i) \in Slots /\ Wrap(read + i) # write
      BY <3>1, <1>1 DEF Wrap, Slots
    <3>3. data'[Wrap(read + i)] = data[Wrap(read + i)]
      BY <3>2, <1>2
    <3>4. accepted'[Len(delivered) + 1 + i] = accepted[Len(delivered) + 1 + i]
      <4>1. Len(delivered) + 1 + i \in 1 .. Len(accepted)
        BY <3>1, <1>1
      <4>. QED  BY <4>1, <1>a, <1>2
    <3>5. data[Wrap(read + i)] = accepted[Len(delivered) + 1 + i]
      BY <3>1 DEF QueueInv, RingInv
    <3>. QED  BY <3>3, <3>4, <3>5, <1>2
  <2>3. i = len \/ i < len
    BY <1>1, <1>2
  <2>. QED  BY <2>1, <2>2, <2>3
<1>. QED  BY <1>3, <1>4, <1>5, <1>6 DEF RingInv

LEMMA GetStep ==
  ASSUME QueueInv, Get
  PROVE  /\ RingInv'
         /\ data' \in [Slots -> Values \cup {Undef}]
         /\ write' \in Slots /\ read' \in Slots /\ len' \in 0 .. Capacity
         /\ accepted' \in Seq(Values) /\ delivered' \in Seq(Values)
         /\ refused' \subseteq Timeouts
         /\ Len(delivered) < Len(accepted)
         /\ data[read] = accepted[Len(delivered) + 1]
<1>1. /\ Capacity \in Nat \ {0} /\ len \in Nat /\ 0 < len /\ len <= Capacity
      /\ read \in Nat /\ read < Capacity /\ write \in Nat /\ write < Capacity
      /\ data \in [Slots -> Values \cup {Undef}]
      /\ accepted \in Seq(Values) /\ delivered \in Seq(Values)
      /\ Len(accepted) \in Nat /\ Len(delivered) \in Nat
      /\ refused \subseteq Timeouts
      /\ Len(accepted) = Len(delivered) + len
      /\ write = Wrap(read + len)
  BY QueueAssumption DEF Get, Slots, QueueInv, TypeOK, RingInv
<1>2. /\ read' = Wrap(read + 1) /\ len' = len - 1
      /\ delivered' = Append(delivered, data[read])
      /\ data' = data /\ write' = write
      /\ accepted' = accepted /\ refused' = refused
  BY DEF Get
<1>3. Len(delivered) < Len(accepted) /\ data[read] = accepted[Len(delivered) + 1]
  <2>1. Wrap(read + 0) = read
    BY <1>1 DEF Wrap
  <2>2. data[Wrap(read + 0)] = accepted[Len(delivered) + 1 + 0]
    <3>1. 0 \in 0 .. len - 1
      BY <1>1
    <3>. QED  BY <3>1, Zenon DEF QueueInv, RingInv
  <2>3. Len(delivered) + 1 + 0 = Len(delivered) + 1 /\ Len(delivered) < Len(accepted)
    BY <1>1
  <2>. QED  BY <2>1, <2>2, <2>3
<1>4. data[read] \in Values
  BY <1>1, <1>3
<1>a. /\ Append(delivered, data[read]) \in Seq(Values)
      /\ Len(Append(delivered, data[read])) = Len(delivered) + 1
  BY <1>1, <1>4, AppendProperties
<1>5. /\ write' \in Slots /\ read' \in Slots /\ len' \in 0 .. Capacity
      /\ data' \in [Slots -> Values \cup {Undef}]
      /\ accepted' \in Seq(Values) /\ delivered' \in Seq(Values)
      /\ refused' \subseteq Timeouts
  <2>1. read' \in Slots /\ len' \in 0 .. Capacity
    BY <1>1, <1>2 DEF Wrap, Slots
  <2>2. write' \in Slots
    BY <1>1, <1>2 DEF Slots
  <2>3. delivered' \in Seq(Values)
    BY <1>2, <1>a, Zenon
  <2>4. /\ data' \in [Slots -> Values \cup {Undef}]
        /\ accepted' \in Seq(Values) /\ refused' \subseteq Timeouts
    BY <1>1, <1>2, Zenon
  <2>. QED  BY <2>1, <2>2, <2>3, <2>4
<1>6. Len(delivered') = Len(delivered) + 1 /\ Len(accepted') = Len(delivered') + len'
  <2>1. Len(delivered') = Len(delivered) + 1
    BY <1>2, <1>a, Zenon
  <2>2. Len(accepted') = Len(accepted) /\ len' = len - 1
    BY <1>2, Zenon
  <2>. QED  BY <2>1, <2>2, <1>1
<1>7. write' = Wrap(read' + len')
  BY <1>1, <1>2 DEF Wrap
<1>8. ASSUME NEW i \in 0 .. len' - 1
      PROVE  data'[Wrap(read' + i)] = accepted'[Len(delivered') + 1 + i]
  <2>1. i + 1 \in 0 .. len - 1 /\ Wrap(read' + i) = Wrap(read + (i + 1))
    BY <1>1, <1>2 DEF Wrap
  <2>2. data[Wrap(read + (i + 1))] = accepted[Len(delivered) + 1 + (i + 1)]
    BY <2>1 DEF QueueInv, RingInv
  <2>3. Len(delivered) + 1 + (i + 1) = Len(delivered) + 1 + 1 + i
    BY <1>1
  <2>. QED  BY <2>1, <2>2, <2>3, <1>2, <1>6, <1>1
<1>. QED  BY <1>3, <1>5, <1>6, <1>7, <1>8 DEF RingInv

-----------------------------------------------------------------------------
(* The inductive step, action by action *)

(* The part of a step that leaves the ring and the history alone.          *)
LEMMA RingUnchanged ==
  ASSUME QueueInv, UNCHANGED <<ring, accepted, delivered>>
  PROVE  /\ RingInv'
         /\ data' \in [Slots -> Values \cup {Undef}]
         /\ write' \in Slots /\ read' \in Slots /\ len' \in 0 .. Capacity
         /\ accepted' \in Seq(Values) /\ delivered' \in Seq(Values)
BY DEF QueueInv, TypeOK, RingInv, ring, Wrap

LEMMA InitInv == Init => QueueInv
<1>. SUFFICES ASSUME Init PROVE QueueInv
  OBVIOUS
<1>1. TypeOK
  BY QueueAssumption DEF Init, TypeOK, Slots, Waiting, Timeouts
<1>2. RingInv
  BY QueueAssumption DEF Init, RingInv, Wrap
<1>3. WaitInv
  <2>1. Waiters = {}
    BY DEF Init, Waiters, Waiting
  <2>2. not_full_waiters = Cardinality(Waiters)
    BY <2>1, WaitersFinite DEF Init
  <2>. QED  BY <2>2 DEF Init, WaitInv, Waiting
<1>. QED  BY <1>1, <1>2, <1>3 DEF QueueInv

LEMMA ProducerStep ==
  ASSUME QueueInv, NEW p \in Producers, Produce(p)
  PROVE  QueueInv'
<1>0. /\ pc \in [Producers -> Waiting \cup {"idle"}]
      /\ want \in [Producers -> Timeouts]
      /\ msg \in [Producers -> Values \cup {Undef}]
      /\ refused \subseteq Timeouts
      /\ draining \in BOOLEAN /\ flag \in BOOLEAN
      /\ not_full_waiters \in Nat
      /\ not_full_waiters = Cardinality(Waiters)
      /\ \A q \in Producers : pc[q] \in Waiting => msg[q] \in Values
      /\ \A q \in Producers : pc[q] = "expired" => want[q] = "ns"
  BY DEF QueueInv, TypeOK, WaitInv
<1>1. ASSUME NEW v \in Values, PushNow(p, v)
      PROVE  QueueInv'
  <2>1. ~Full /\ Put(v) /\ UNCHANGED <<not_full_waiters, pc, want, msg, draining, flag>>
    BY <1>1 DEF PushNow, Enter, call
  <2>2. Waiters' = Waiters
    BY <2>1 DEF Waiters
  <2>. QED  BY <2>1, <2>2, <1>0, PutStep DEF QueueInv, TypeOK, WaitInv
<1>2. ASSUME NEW t \in Timeouts, PushRefused(p, t)
      PROVE  QueueInv'
  <2>1. /\ refused' = refused \cup {t}
        /\ UNCHANGED <<ring, accepted, delivered>>
        /\ UNCHANGED <<not_full_waiters, pc, want, msg, draining, flag>>
    BY <1>2 DEF PushRefused, Enter, Refuse, call
  <2>2. Waiters' = Waiters
    BY <2>1 DEF Waiters
  <2>. QED  BY <2>1, <2>2, <1>0, RingUnchanged DEF QueueInv, TypeOK, WaitInv
<1>3. ASSUME NEW v \in Values, NEW t \in Timeouts, PushWaits(p, v, t)
      PROVE  QueueInv'
  <2>1. /\ UNCHANGED <<ring, accepted, delivered, refused, draining, flag>>
        /\ not_full_waiters' = not_full_waiters + 1
        /\ pc[p] = "idle" /\ pc' = [pc EXCEPT ![p] = "asleep"]
        /\ want' = [want EXCEPT ![p] = t] /\ msg' = [msg EXCEPT ![p] = v]
    BY <1>3 DEF PushWaits, Enter, history
  <2>2. Cardinality(Waiters') = Cardinality(Waiters) + 1
    BY <2>1, <1>0, WaiterEnters DEF Waiting
  <2>3. TypeOK' /\ RingInv'
    BY <2>1, <1>0, RingUnchanged DEF TypeOK, Waiting
  <2>4. WaitInv'
    BY <2>1, <2>2, <1>0 DEF WaitInv, Waiting
  <2>. QED  BY <2>3, <2>4 DEF QueueInv
<1>4. ASSUME pc[p] = "asleep", NEW s \in {"woken", "expired"},
             s = "expired" => want[p] = "ns",
             pc' = [pc EXCEPT ![p] = s],
             UNCHANGED <<ring, not_full_waiters, draining, flag, call, history>>
      PROVE  QueueInv'
  <2>1. Waiters' = Waiters
    BY <1>4, <1>0, WaiterStays DEF Waiting
  <2>2. TypeOK' /\ RingInv'
    BY <1>4, <1>0, RingUnchanged DEF TypeOK, Waiting, call, history
  <2>3. WaitInv'
    BY <1>4, <2>1, <1>0 DEF WaitInv, Waiting, call
  <2>. QED  BY <2>2, <2>3 DEF QueueInv
<1>5. ASSUME WakeUnsignalled(p)
      PROVE  QueueInv'
  BY <1>5, <1>4 DEF WakeUnsignalled
<1>6. ASSUME Expire(p)
      PROVE  QueueInv'
  BY <1>6, <1>4 DEF Expire
<1>7. ASSUME Leave(p), pc[p] \in Waiting, RingInv', refused' \subseteq Timeouts,
             data' \in [Slots -> Values \cup {Undef}],
             write' \in Slots, read' \in Slots, len' \in 0 .. Capacity,
             accepted' \in Seq(Values), delivered' \in Seq(Values)
      PROVE  QueueInv'
  <2>1. /\ pc' = [pc EXCEPT ![p] = "idle"]
        /\ not_full_waiters' = not_full_waiters - 1
        /\ want' = [want EXCEPT ![p] = "instant"]
        /\ msg' = [msg EXCEPT ![p] = Undef]
        /\ UNCHANGED <<draining, flag>>
    BY <1>7 DEF Leave
  <2>2. Cardinality(Waiters') = Cardinality(Waiters) - 1 /\ Cardinality(Waiters) > 0
    BY <1>7, <2>1, <1>0, WaiterLeaves
  <2>3. TypeOK'
    BY <1>7, <2>1, <2>2, <1>0 DEF TypeOK, Timeouts
  <2>4. WaitInv'
    BY <2>1, <2>2, <1>0 DEF WaitInv, Waiting
  <2>. QED  BY <1>7, <2>3, <2>4 DEF QueueInv
<1>8. ASSUME ResumePut(p)
      PROVE  QueueInv'
  <2>1. /\ ~Full /\ msg[p] \in Values /\ Put(msg[p]) /\ Leave(p) /\ pc[p] \in Waiting
    BY <1>8, <1>0 DEF ResumePut, Waiting
  <2>. QED  BY <2>1, PutStep, <1>7
<1>9. ASSUME ResumeRefused(p)
      PROVE  QueueInv'
  <2>1. /\ Leave(p) /\ pc[p] \in Waiting
        /\ refused' = refused \cup {want[p]}
        /\ UNCHANGED <<ring, accepted, delivered>>
    BY <1>9 DEF ResumeRefused, Refuse, Waiting
  <2>. QED  BY <2>1, <1>0, RingUnchanged, <1>7
<1>10. ASSUME ResumeWaits(p)
       PROVE  QueueInv'
  <2>1. /\ pc[p] = "woken" /\ pc' = [pc EXCEPT ![p] = "asleep"]
        /\ UNCHANGED <<ring, not_full_waiters, draining, flag, want, msg>>
        /\ UNCHANGED <<accepted, refused, delivered>>
    BY <1>10 DEF ResumeWaits, call, history
  <2>2. Waiters' = Waiters
    BY <2>1, <1>0, WaiterStays DEF Waiting
  <2>3. TypeOK' /\ RingInv'
    BY <2>1, <1>0, RingUnchanged DEF TypeOK, Waiting
  <2>4. WaitInv'
    BY <2>1, <2>2, <1>0 DEF WaitInv, Waiting
  <2>. QED  BY <2>3, <2>4 DEF QueueInv
<1>. QED
  BY <1>1, <1>2, <1>3, <1>5, <1>6, <1>8, <1>9, <1>10 DEF Produce, Resume

LEMMA ConsumerStep ==
  ASSUME QueueInv, Consume
  PROVE  QueueInv'
<1>0. /\ pc \in [Producers -> Waiting \cup {"idle"}]
      /\ want \in [Producers -> Timeouts]
      /\ msg \in [Producers -> Values \cup {Undef}]
      /\ refused \subseteq Timeouts
      /\ draining \in BOOLEAN /\ flag \in BOOLEAN
      /\ not_full_waiters \in Nat
      /\ not_full_waiters = Cardinality(Waiters)
      /\ \A q \in Producers : pc[q] \in Waiting => msg[q] \in Values
      /\ \A q \in Producers : pc[q] = "expired" => want[q] = "ns"
  BY DEF QueueInv, TypeOK, WaitInv
<1>1. ASSUME pc' \in [Producers -> Waiting \cup {"idle"}],
             Waiters' = Waiters,
             \A q \in Producers : pc'[q] = "expired" <=> pc[q] = "expired",
             UNCHANGED <<not_full_waiters, want, msg>>
      PROVE  WaitInv'
  <2>1. \A q \in Producers : pc'[q] \in Waiting <=> pc[q] \in Waiting
    BY <1>1 DEF Waiters
  <2>. QED  BY <1>1, <2>1, <1>0 DEF WaitInv
<1>2. ASSUME Pop
      PROVE  QueueInv'
  <2>1. Get /\ Signal /\ UNCHANGED <<not_full_waiters, draining, flag, want, msg>>
    BY <1>2 DEF Pop, call
  <2>2. WaitInv' /\ pc' \in [Producers -> Waiting \cup {"idle"}]
    BY <2>1, <1>0, <1>1, SignalEffect
  <2>. QED  BY <2>1, <2>2, <1>0, GetStep DEF QueueInv, TypeOK
<1>3. ASSUME DrainBegin
      PROVE  QueueInv'
  <2>1. /\ draining' = TRUE
        /\ UNCHANGED <<ring, accepted, refused, delivered>>
        /\ UNCHANGED <<not_full_waiters, flag, pc, want, msg>>
    BY <1>3 DEF DrainBegin, call, history
  <2>2. WaitInv'
    BY <2>1, <1>0, <1>1 DEF Waiters
  <2>. QED  BY <2>1, <2>2, <1>0, RingUnchanged DEF QueueInv, TypeOK
<1>4. ASSUME DrainNext
      PROVE  QueueInv'
  <2>1. Get /\ UNCHANGED <<not_full_waiters, draining, flag, pc, want, msg>>
    BY <1>4 DEF DrainNext, call
  <2>2. WaitInv'
    BY <2>1, <1>0, <1>1 DEF Waiters
  <2>. QED  BY <2>1, <2>2, <1>0, GetStep DEF QueueInv, TypeOK
<1>5. ASSUME DrainEnd
      PROVE  QueueInv'
  <2>1. /\ Signal /\ draining' = FALSE
        /\ UNCHANGED <<ring, accepted, refused, delivered>>
        /\ UNCHANGED <<not_full_waiters, flag, want, msg>>
    BY <1>5 DEF DrainEnd, call, history
  <2>2. WaitInv' /\ pc' \in [Producers -> Waiting \cup {"idle"}]
    BY <2>1, <1>0, <1>1, SignalEffect
  <2>. QED  BY <2>1, <2>2, <1>0, RingUnchanged DEF QueueInv, TypeOK
<1>. QED  BY <1>2, <1>3, <1>4, <1>5 DEF Consume

LEMMA QuietStep ==
  ASSUME QueueInv, SetFlag \/ UNCHANGED vars
  PROVE  QueueInv'
<1>1. /\ UNCHANGED <<ring, accepted, refused, delivered>>
      /\ UNCHANGED <<not_full_waiters, draining, pc, want, msg>>
      /\ flag' \in BOOLEAN
  BY DEF SetFlag, vars, call, history, QueueInv, TypeOK
<1>2. Waiters' = Waiters
  BY <1>1 DEF Waiters
<1>. QED  BY <1>1, <1>2, RingUnchanged DEF QueueInv, TypeOK, WaitInv

(* The inductive invariant: types, the contents of the ring and the count  *)
(* of the waiters hold in every reachable state.                           *)
THEOREM QueueInvariant == Spec => []QueueInv
<1>1. QueueInv /\ [Next]_vars => QueueInv'
  BY ProducerStep, ConsumerStep, QuietStep DEF Next
<1>. QED  BY InitInv, <1>1, PTL DEF Spec

(* Type correctness of the queue of blocking_queue.zig: in particular its  *)
(* indices stay inside the ring and its length inside the capacity.        *)
THEOREM TypeCorrect == Spec => []TypeOK
<1>1. QueueInv => TypeOK
  BY DEF QueueInv
<1>. QED  BY QueueInvariant, <1>1, PTL

-----------------------------------------------------------------------------
(* A push returns 0 only for a reason its caller gave: never with the      *)
(* timeout .forever, and with .forever_unless only once the flag is set.   *)
THEOREM RefusalsJustified == Spec => []RefusalJustified
<1>1. Init => RefusalJustified
  BY DEF Init, RefusalJustified
<1>2. QueueInv /\ RefusalJustified /\ [Next]_vars => RefusalJustified'
  <2> SUFFICES ASSUME QueueInv, RefusalJustified, [Next]_vars
               PROVE  RefusalJustified'
    OBVIOUS
  <2>1. ASSUME NEW p \in Producers, NEW t \in Timeouts, PushRefused(p, t)
        PROVE  RefusalJustified'
    BY <2>1 DEF PushRefused, Enter, Refuse, RefusalJustified
  <2>2. ASSUME NEW p \in Producers, ResumeRefused(p)
        PROVE  RefusalJustified'
    <3>1. want[p] = "ns" \/ (want[p] = "forever_unless" /\ flag)
      BY <2>2 DEF ResumeRefused, QueueInv, WaitInv
    <3>2. refused' = refused \cup {want[p]} /\ flag' = flag
      BY <2>2 DEF ResumeRefused, Refuse, Leave
    <3>. QED  BY <3>1, <3>2 DEF RefusalJustified
  <2>3. ASSUME UNCHANGED refused, flag => flag'
        PROVE  RefusalJustified'
    BY <2>3 DEF RefusalJustified
  <2>4. ASSUME NEW p \in Producers, Produce(p)
        PROVE  RefusalJustified'
    BY <2>4, <2>1, <2>2, <2>3
       DEF Produce, Resume, PushNow, PushWaits, WakeUnsignalled, Expire,
           ResumePut, ResumeWaits, Enter, Put, Leave, history
  <2>5. ASSUME Consume \/ SetFlag \/ UNCHANGED vars
        PROVE  RefusalJustified'
    BY <2>5, <2>3
       DEF Consume, Pop, DrainBegin, DrainNext, DrainEnd, Get, SetFlag, vars, history
  <2>. QED  BY <2>4, <2>5 DEF Next
<1>. QED  BY QueueInvariant, <1>1, <1>2, PTL DEF Spec

-----------------------------------------------------------------------------
(* The signal of a pop or of the end of a drain reaches a sleeper whenever *)
(* there is one, because the count covers everyone who sleeps.             *)
LEMMA SignalReaches ==
  ASSUME QueueInv, Signal, \E p \in Producers : pc'[p] = "asleep"
  PROVE  \E p \in Producers : pc'[p] = "woken"
<1>1. pc \in [Producers -> Waiting \cup {"idle"}] /\ not_full_waiters = Cardinality(Waiters)
  BY DEF QueueInv, TypeOK, WaitInv
<1>2. \E p \in Producers : pc[p] = "asleep"
  BY <1>1, SignalEffect
<1>3. Waiters # {}
  BY <1>2 DEF Waiters, Waiting
<1>4. not_full_waiters > 0
  BY <1>1, <1>3, WaitersFinite
<1>. QED  BY <1>1, <1>4, SignalEffect

(* No wakeup is lost: a producer never sleeps on a queue that is empty     *)
(* unless another one was woken and is on its way to push, so the consumer *)
(* always has a pop ahead that signals it.                                 *)
THEOREM NobodyIsStranded == Spec => []NobodyStranded
<1>1. Init => NobodyStranded
  BY DEF Init, NobodyStranded
<1>2. QueueInv /\ NobodyStranded /\ [Next]_vars => NobodyStranded'
  <2> SUFFICES ASSUME QueueInv, NobodyStranded, [Next]_vars
               PROVE  NobodyStranded'
    OBVIOUS
  <2>0. /\ pc \in [Producers -> Waiting \cup {"idle"}]
        /\ Capacity \in Nat \ {0} /\ len \in 0 .. Capacity
    BY QueueAssumption DEF QueueInv, TypeOK
  <2>1. ASSUME NEW p \in Producers, NEW v \in Values, PushNow(p, v)
        PROVE  NobodyStranded'
    BY <2>1, PutStep DEF PushNow, NobodyStranded
  <2>2. ASSUME NEW p \in Producers, NEW t \in Timeouts, PushRefused(p, t)
        PROVE  NobodyStranded'
    BY <2>2 DEF PushRefused, Refuse, Enter, ring, NobodyStranded
  <2>3. ASSUME Full, len' = len
        PROVE  NobodyStranded'
    BY <2>3, <2>0 DEF Full, NobodyStranded
  <2>4. ASSUME NEW p \in Producers, NEW v \in Values, NEW t \in Timeouts, PushWaits(p, v, t)
        PROVE  NobodyStranded'
    BY <2>4, <2>3 DEF PushWaits, ring
  <2>5. ASSUME NEW p \in Producers, WakeUnsignalled(p)
        PROVE  NobodyStranded'
    BY <2>5, <2>0 DEF WakeUnsignalled, NobodyStranded
  <2>6. ASSUME NEW p \in Producers, Expire(p)
        PROVE  NobodyStranded'
    BY <2>6, <2>0 DEF Expire, ring, NobodyStranded
  <2>7. ASSUME NEW p \in Producers, ResumePut(p)
        PROVE  NobodyStranded'
    <3>1. msg[p] \in Values /\ ~Full /\ Put(msg[p])
      BY <2>7 DEF ResumePut, QueueInv, WaitInv, Waiting
    <3>. QED  BY <3>1, PutStep DEF NobodyStranded
  <2>8. ASSUME NEW p \in Producers, ResumeRefused(p)
        PROVE  NobodyStranded'
    <3>1. len' = len /\ draining' = draining /\ pc' = [pc EXCEPT ![p] = "idle"]
      BY <2>8 DEF ResumeRefused, Refuse, Leave, ring
    <3>2. CASE Full
      BY <3>1, <3>2, <2>3
    <3>3. CASE pc[p] = "expired"
      BY <3>1, <3>3, <2>0 DEF NobodyStranded
    <3>. QED  BY <2>8, <3>2, <3>3 DEF ResumeRefused
  <2>9. ASSUME NEW p \in Producers, ResumeWaits(p)
        PROVE  NobodyStranded'
    BY <2>9, <2>3 DEF ResumeWaits, ring
  <2>10. ASSUME Pop \/ DrainEnd
         PROVE  NobodyStranded'
    BY <2>10, SignalReaches DEF Pop, DrainEnd, NobodyStranded
  <2>11. ASSUME DrainBegin \/ DrainNext
         PROVE  NobodyStranded'
    BY <2>11 DEF DrainBegin, DrainNext, NobodyStranded
  <2>12. ASSUME SetFlag \/ UNCHANGED vars
         PROVE  NobodyStranded'
    BY <2>12 DEF SetFlag, vars, ring, NobodyStranded
  <2>. QED
    BY <2>1, <2>2, <2>4, <2>5, <2>6, <2>7, <2>8, <2>9, <2>10, <2>11, <2>12
       DEF Next, Consume, Produce, Resume
<1>. QED  BY QueueInvariant, <1>1, <1>2, PTL DEF Spec

-----------------------------------------------------------------------------
(* The queue of blocking_queue.zig implements the bounded FIFO: what the   *)
(* consumer is handed is what pushes accepted, in that order and once      *)
(* each, and never more than Capacity values are in between.               *)
THEOREM QueueImplementsFifo == Spec => ImplementsFifo
<1>1. Init => Fifo!Init
  BY DEF Init, Fifo!Init
<1>2. QueueInv /\ [Next]_vars => [Fifo!Next]_(Fifo!vars)
  <2> SUFFICES ASSUME QueueInv, [Next]_vars
               PROVE  [Fifo!Next]_(Fifo!vars)
    OBVIOUS
  <2>1. ASSUME NEW v \in Values, ~Full, Put(v)
        PROVE  Fifo!Next
    <3>1. Len(accepted) < Len(delivered) + Capacity
      <4>1. /\ Len(accepted) = Len(delivered) + len /\ len \in 0 .. Capacity
            /\ len # Capacity /\ Capacity \in Nat /\ Len(delivered) \in Nat
        BY <2>1, QueueAssumption DEF QueueInv, RingInv, TypeOK, Full
      <4>. QED  BY <4>1
    <3>2. Fifo!Accept(v)
      BY <2>1, <3>1 DEF Put, Fifo!Accept
    <3>. QED  BY <3>2 DEF Fifo!Next
  <2>2. ASSUME Get
        PROVE  Fifo!Next
    <3>1. Fifo!Deliver
      BY <2>2, GetStep DEF Get, Fifo!Deliver
    <3>. QED  BY <3>1 DEF Fifo!Next
  <2>3. ASSUME UNCHANGED <<accepted, delivered>>
        PROVE  UNCHANGED Fifo!vars
    BY <2>3 DEF Fifo!vars
  <2>4. ASSUME NEW p \in Producers, Produce(p)
        PROVE  [Fifo!Next]_(Fifo!vars)
    <3>1. ASSUME NEW v \in Values, PushNow(p, v)
          PROVE  Fifo!Next
      BY <3>1, <2>1 DEF PushNow
    <3>2. ASSUME ResumePut(p)
          PROVE  Fifo!Next
      BY <3>2, <2>1 DEF ResumePut, QueueInv, WaitInv, Waiting
    <3>. QED
      BY <2>4, <3>1, <3>2, <2>3
         DEF Produce, Resume, PushRefused, PushWaits, WakeUnsignalled, Expire,
             ResumeRefused, ResumeWaits, Refuse, history
  <2>5. ASSUME Consume \/ SetFlag \/ UNCHANGED vars
        PROVE  [Fifo!Next]_(Fifo!vars)
    BY <2>5, <2>2, <2>3
       DEF Consume, Pop, DrainBegin, DrainNext, DrainEnd, SetFlag, vars, history
  <2>. QED  BY <2>4, <2>5 DEF Next
<1>. QED  BY QueueInvariant, <1>1, <1>2, PTL DEF Spec, ImplementsFifo, Fifo!Spec

=============================================================================
