--------------------------- MODULE BlockingQueue ---------------------------
(***************************************************************************)
(* datastruct/blocking_queue.zig: the mailbox between noctty's threads.    *)
(*                                                                         *)
(* A push or a pop runs under the queue's mutex, so it is one step, except *)
(* where a push waits on the condition variable cond_not_full: the mutex   *)
(* is free while it sleeps, and other producers may run between the wake   *)
(* and the moment the woken producer has the mutex again.  A drain holds   *)
(* the mutex from drain() to deinit().                                     *)
(*                                                                         *)
(* accepted, refused and delivered are history: the values pushes took,    *)
(* the timeouts of the pushes that returned 0, and the values the consumer *)
(* was handed.  No guard reads them except the bound MaxPushes on the      *)
(* number of values ever accepted.                                         *)
(***************************************************************************)
EXTENDS Naturals, Sequences, FiniteSets

CONSTANTS Producers, Values, Undef, Capacity, MaxPushes

ASSUME QueueAssumption ==
  /\ Capacity \in Nat \ {0}
  /\ MaxPushes \in Nat
  /\ IsFiniteSet(Producers)
  /\ Undef \notin Values

VARIABLES
  data, write, read, len,   \* the ring
  not_full_waiters,         \* the count a pop reads to decide on a signal
  draining,                 \* a DrainIterator holds the mutex
  flag,                     \* what .forever_unless points to
  pc, want, msg,            \* a waiting push: where it is, its arguments
  accepted, refused, delivered

ring == <<data, write, read, len>>
call == <<want, msg>>
history == <<accepted, refused, delivered>>
vars == <<ring, not_full_waiters, draining, flag, pc, call, history>>

Timeouts == {"instant", "forever", "forever_unless", "ns"}
Waiting == {"asleep", "woken", "expired"}   \* inside cond_not_full's wait

Slots == 0 .. Capacity - 1
Full == len = Capacity
Wrap(i) == IF i >= Capacity THEN i - Capacity ELSE i

Init ==
  /\ data = [s \in Slots |-> Undef]
  /\ write = 0 /\ read = 0 /\ len = 0
  /\ not_full_waiters = 0
  /\ draining = FALSE /\ flag = FALSE
  /\ pc = [p \in Producers |-> "idle"]
  /\ want = [p \in Producers |-> "instant"]
  /\ msg = [p \in Producers |-> Undef]
  /\ accepted = <<>> /\ refused = {} /\ delivered = <<>>

-----------------------------------------------------------------------------
(* push *)

Put(v) ==
  /\ data' = [data EXCEPT ![write] = v]
  /\ write' = Wrap(write + 1)
  /\ len' = len + 1
  /\ accepted' = Append(accepted, v)
  /\ UNCHANGED <<read, refused, delivered>>

Refuse(t) ==
  /\ refused' = refused \cup {t}
  /\ UNCHANGED <<ring, accepted, delivered>>

(* p calls push with the mutex free. *)
Enter(p) ==
  /\ pc[p] = "idle" /\ ~draining
  /\ Len(accepted) < MaxPushes
  /\ UNCHANGED <<draining, flag>>

PushNow(p, v) ==
  /\ Enter(p)
  /\ ~Full
  /\ Put(v)
  /\ UNCHANGED <<not_full_waiters, pc, call>>

PushRefused(p, t) ==
  /\ Enter(p)
  /\ Full
  /\ t = "instant" \/ (t = "forever_unless" /\ flag)
  /\ Refuse(t)
  /\ UNCHANGED <<not_full_waiters, pc, call>>

PushWaits(p, v, t) ==
  /\ Enter(p)
  /\ Full
  /\ t \in {"forever", "ns"} \/ (t = "forever_unless" /\ ~flag)
  /\ not_full_waiters' = not_full_waiters + 1
  /\ pc' = [pc EXCEPT ![p] = "asleep"]
  /\ want' = [want EXCEPT ![p] = t]
  /\ msg' = [msg EXCEPT ![p] = v]
  /\ UNCHANGED <<ring, history>>

(* A wait ends without a signal: a spurious wake, or the 10 ms poll of     *)
(* .forever_unless, which rechecks its loop condition either way.          *)
WakeUnsignalled(p) ==
  /\ pc[p] = "asleep"
  /\ pc' = [pc EXCEPT ![p] = "woken"]
  /\ UNCHANGED <<ring, not_full_waiters, draining, flag, call, history>>

(* The single timedWait of .ns ran out. *)
Expire(p) ==
  /\ pc[p] = "asleep" /\ want[p] = "ns"
  /\ pc' = [pc EXCEPT ![p] = "expired"]
  /\ UNCHANGED <<ring, not_full_waiters, draining, flag, call, history>>

Leave(p) ==
  /\ pc' = [pc EXCEPT ![p] = "idle"]
  /\ not_full_waiters' = not_full_waiters - 1
  /\ want' = [want EXCEPT ![p] = "instant"]
  /\ msg' = [msg EXCEPT ![p] = Undef]
  /\ UNCHANGED <<draining, flag>>

(* The woken producer has the mutex again and rechecks its loop condition. *)
(* (Variants ...Unchecked, ...SingleWait and ...NoFlag are faults that the *)
(* properties below must detect.)                                          *)
ResumePutUnchecked(p) ==
  /\ pc[p] = "woken" /\ ~draining
  /\ Put(msg[p])
  /\ Leave(p)

ResumePut(p) ==
  /\ pc[p] = "woken" /\ ~draining
  /\ ~Full
  /\ Put(msg[p])
  /\ Leave(p)

ResumeRefusedSingleWait(p) ==
  /\ ~draining
  /\ pc[p] = "expired" \/ (pc[p] = "woken" /\ Full)
  /\ Refuse(want[p])
  /\ Leave(p)

ResumeRefused(p) ==
  /\ ~draining
  /\ \/ pc[p] = "expired"
     \/ /\ pc[p] = "woken" /\ Full
        /\ want[p] = "ns" \/ (want[p] = "forever_unless" /\ flag)
  /\ Refuse(want[p])
  /\ Leave(p)

ResumeWaitsNoFlag(p) ==
  /\ pc[p] = "woken" /\ ~draining
  /\ Full
  /\ want[p] \in {"forever", "forever_unless"}
  /\ pc' = [pc EXCEPT ![p] = "asleep"]
  /\ UNCHANGED <<ring, not_full_waiters, draining, flag, call, history>>

ResumeWaits(p) ==
  /\ pc[p] = "woken" /\ ~draining
  /\ Full
  /\ want[p] = "forever" \/ (want[p] = "forever_unless" /\ ~flag)
  /\ pc' = [pc EXCEPT ![p] = "asleep"]
  /\ UNCHANGED <<ring, not_full_waiters, draining, flag, call, history>>

-----------------------------------------------------------------------------
(* pop and drain *)

(* cond_not_full.signal() wakes one sleeping producer if there is one; it  *)
(* is called only when the count says that somebody waits.                 *)
Sleepers == {p \in Producers : pc[p] = "asleep"}

SignalIfFull ==   \* fault: signal only when the queue stops being full
  IF Full /\ Sleepers # {}
  THEN \E p \in Sleepers : pc' = [pc EXCEPT ![p] = "woken"]
  ELSE UNCHANGED pc

Signal ==
  IF not_full_waiters > 0 /\ Sleepers # {}
  THEN \E p \in Sleepers : pc' = [pc EXCEPT ![p] = "woken"]
  ELSE UNCHANGED pc

Get ==
  /\ len > 0
  /\ read' = Wrap(read + 1)
  /\ len' = len - 1
  /\ delivered' = Append(delivered, data[read])
  /\ UNCHANGED <<data, write, accepted, refused>>

Pop ==
  /\ ~draining
  /\ Get
  /\ Signal
  /\ UNCHANGED <<not_full_waiters, draining, flag, call>>

DrainBegin ==
  /\ ~draining
  /\ draining' = TRUE
  /\ UNCHANGED <<ring, not_full_waiters, flag, pc, call, history>>

DrainNext ==
  /\ draining
  /\ Get
  /\ UNCHANGED <<not_full_waiters, draining, flag, pc, call>>

DrainEndSilent ==   \* fault: the iterator's deinit only unlocks
  /\ draining
  /\ draining' = FALSE
  /\ UNCHANGED <<ring, not_full_waiters, flag, pc, call, history>>

DrainEnd ==
  /\ draining
  /\ Signal
  /\ draining' = FALSE
  /\ UNCHANGED <<ring, not_full_waiters, flag, call, history>>

(* The owner of the flag stops its producers. *)
SetFlag ==
  /\ ~flag
  /\ flag' = TRUE
  /\ UNCHANGED <<ring, not_full_waiters, draining, pc, call, history>>

-----------------------------------------------------------------------------
Resume(p) == ResumePut(p) \/ ResumeRefused(p) \/ ResumeWaits(p)

Produce(p) ==
  \/ \E v \in Values : PushNow(p, v)
  \/ \E t \in Timeouts : PushRefused(p, t)
  \/ \E v \in Values, t \in Timeouts : PushWaits(p, v, t)
  \/ WakeUnsignalled(p)
  \/ Expire(p)
  \/ Resume(p)

Consume == Pop \/ DrainBegin \/ DrainNext \/ DrainEnd

Next == Consume \/ SetFlag \/ \E p \in Producers : Produce(p)

Spec == Init /\ [][Next]_vars

(* A producer that is awake is let in by the mutex, and a drain is closed. *)
LiveSpec ==
  /\ Spec
  /\ \A p \in Producers : SF_vars(Resume(p))
  /\ WF_vars(DrainEnd)

(* What the properties below assume besides, each only what it needs: the  *)
(* consumer takes a value from a queue that has one, or the 10 ms poll of  *)
(* .forever_unless.  A waiter that no signal reaches may sleep on.         *)
ConsumerRuns == SF_vars(Pop \/ DrainNext)
PollRuns == \A p \in Producers :
              WF_vars(want[p] = "forever_unless" /\ WakeUnsignalled(p))

-----------------------------------------------------------------------------
(* Properties *)

TypeOK ==
  /\ data \in [Slots -> Values \cup {Undef}]
  /\ write \in Slots /\ read \in Slots /\ len \in 0 .. Capacity
  /\ not_full_waiters \in Nat
  /\ draining \in BOOLEAN /\ flag \in BOOLEAN
  /\ pc \in [Producers -> Waiting \cup {"idle"}]
  /\ want \in [Producers -> Timeouts]
  /\ msg \in [Producers -> Values \cup {Undef}]
  /\ accepted \in Seq(Values)
  /\ refused \subseteq Timeouts
  /\ delivered \in Seq(Values)

(* No wakeup is lost: while a producer sleeps and nobody holds the mutex,  *)
(* either the queue has something to pop, and that pop signals, or a woken *)
(* producer is on its way to the mutex and will push something.  A queue   *)
(* that is empty with every waiter asleep is never popped again, and its   *)
(* producers, the app thread among them, hang (push L123-152, pop L186).   *)
NobodyStranded ==
  (~draining /\ \E p \in Producers : pc[p] = "asleep")
     => len > 0 \/ \E p \in Producers : pc[p] = "woken"

(* A push is refused only for a reason its caller gave: .forever never, so *)
(* that no message that carries ownership is dropped (L127-135), and       *)
(* .forever_unless only once its flag is set (L138-146).                   *)
RefusalJustified ==
  /\ "forever" \notin refused
  /\ "forever_unless" \in refused => flag

(* The queue is a bounded FIFO: the ring and the waits implement it, with  *)
(* any number of producers barging in between a wake and its push.         *)
Fifo == INSTANCE BoundedFifo
ImplementsFifo == Fifo!Spec

(* Every blocked push returns while the consumer keeps popping, a drain of *)
(* many values that signals a single waiter included (L215-221).           *)
BlockedReturns ==
  ConsumerRuns => \A p \in Producers : pc[p] \in Waiting ~> pc[p] = "idle"

(* Setting its flag releases every .forever_unless push, although nothing  *)
(* signals the queue and its consumer may be gone (L54-58).                *)
FlagReleases ==
  PollRuns => \A p \in Producers :
    (flag /\ pc[p] \in Waiting /\ want[p] = "forever_unless") ~> pc[p] = "idle"

=============================================================================
